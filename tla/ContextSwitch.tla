--------------------------- MODULE ContextSwitch ---------------------------
(* How the CPU leaves a piece of code and comes back to it: the stubs of     *)
(* interrupts and exceptions, threads_low_switch_to one instruction at a     *)
(* time where it matters, and the context that setup_context builds. Every   *)
(* thread, and main(), has a stack of words; the machine pops whatever words *)
(* it finds. Which thread comes next is left open (RRScheduler decides it).  *)
EXTENDS CPUState

CONSTANTS
  Threads,    \* the threads that main() creates, if the kernel has threads
  Vectors,    \* the exceptions (below 32) and interrupts that occur
  Handled,    \* exceptions whose handler returns
  Preemptive, \* does the timer end quanta, may thread functions return (MP5)?
  Masking,    \* do threads run with interrupts on, and mask them to switch?
  Depth,      \* words in a stack
  MaxNested   \* bound on the interrupts and switches a stack is in at a time

NoThread == "main"
Contexts == Threads \union {NoThread}

\* What kernels have: enough stack for MaxNested interrupts, each of them with
\* the switch that its handler makes, and no exceptions whose number the CPU
\* and the stubs disagree about (17, 21, 29 and 30 came after the stubs).
SwitchAssumption ==
  /\ NoThread \notin Threads
  /\ Vectors \subseteq Nat \ {17, 21, 29, 30}
  /\ Masking \in BOOLEAN
  /\ MaxNested \in Nat
  /\ Depth \in Nat /\ Depth >= 20 * MaxNested + 21

vars == cpuVars
----------------------------------------------------------------------------
\* m with words pushed below slot p, the first of them first.
Push(m, p, words) ==
  [i \in 1..Depth |-> IF i \in (p - Len(words))..(p - 1) THEN words[p - i] ELSE m[i]]

\* Eight general registers, ds, es, fs and gs.
InitialRegisters == [i \in 1..12 |-> IF i \in {9, 10} THEN Selector("ds") ELSE Zero]

\* setup_context: the argument, thread_shutdown to return to, the thread
\* function, and below them a frame like that of an exception in thread_start.
setup_context ==
  Push([i \in 1..Depth |-> Junk], Depth + 1,
       <<Zero, Address("thread_shutdown"), Address("function"),
         Flags("off"), Selector("cs"), Address("thread_start"), Zero, Zero>>
         \o InitialRegisters)

\* What a thread must start with.
Fresh ==
  [cpu |-> [regs |-> [r \in Registers \ {"esp"} |->
                       IF r \in {"ds", "es"} THEN Selector("ds") ELSE Zero],
            eip |-> Address("thread_start"), ints |-> "off", esp |-> Depth - 2],
   number |-> 0]

\* main() has set the machine up, created the threads and enabled interrupts.
Init ==
  /\ running = NoThread
  /\ mem = [c \in Contexts |->
             IF c \in Threads THEN setup_context ELSE [i \in 1..Depth |-> Junk]]
  /\ saved = [t \in Threads |-> Depth - 19]
  /\ esp = Depth + 1
  /\ regs = [r \in Registers |-> IF r \in Segments THEN Selector("ds") ELSE Zero]
  /\ eip = Address("main")
  /\ ints = "on"
  /\ gone = {}
  /\ left = [c \in Contexts |-> IF c \in Threads THEN <<Fresh>> ELSE <<>>]

Leave(cpu, n) ==
  left' = [left EXCEPT ![running] = <<[cpu |-> cpu, number |-> n]>> \o @]

\* Slip: the registers are popped in the order in which they were pushed.
Popped_in_order(m, p, r) == m[p + (CHOOSE i \in 0..11 : Pushed[i + 1] = r)]

\* The registers come back in the order opposite to the pushes.
Popped(m, p, r) == m[p + (CHOOSE i \in 0..11 : Pushed[12 - i] = r)]

\* Registers and two more words are popped, then iret: thread t goes on from
\* the frame at slot p of its stack m. popad does not load esp.
RestoreAndReturn(m, t, p) ==
  /\ regs' = [r \in Registers |-> IF r = "esp" THEN regs[r] ELSE Popped(m, p, r)]
  /\ eip' = m[p + 14]
  /\ ints' = m[p + 16][2]
  /\ esp' = p + 17
  /\ left' = [left EXCEPT ![t] = Tail(@)]

\* ret: the word at the top of the stack is where the CPU goes on.
Return == eip' = mem[running][esp] /\ esp' = esp + 1

\* C code fills the registers with values of its own.
Computed == [r \in Registers |-> IF r \in Segments \union {"esp"} THEN regs[r]
                                  ELSE Value(running, r)]

----------------------------------------------------------------------------
\* Interrupts and exceptions.

\* Exceptions with which the CPU pushes an error code.
HasErrorCode(n) == n \in {8, 17, 21, 29, 30} \union 10..14

\* Slip: the stub of a page fault is like that of most others.
PushesZero_at_page_fault(n) == n \notin {8} \union 10..13

\* isr0 to isr31 and irq0 to irq15 push a zero where they expect no error code.
PushesZero(n) == n \notin {8} \union 10..14

\* CPU and stub: flags, place, error code, number, registers; then the C
\* function is called with the address of it all, and interrupts off. Nothing
\* below the stack pointer survives.
Enter(n) ==
  LET frame == <<Flags(ints), Selector("cs"), eip>>
               \o (IF HasErrorCode(n) THEN <<ErrorCode>> ELSE <<>>)
               \o (IF PushesZero(n) THEN <<Zero>> ELSE <<>>)
               \o <<Number(n)>> \o [i \in 1..12 |-> regs[Pushed[i]]]
               \o <<Pointer("REGS"), Address("common_stub")>>
  IN  /\ mem' = [mem EXCEPT ![running] =
                  Push([i \in 1..Depth |-> IF i < esp THEN Junk ELSE @[i]], esp, frame)]
      /\ esp' = esp - Len(frame)
      /\ eip' = Address("dispatch")
      /\ ints' = "off"
      /\ Leave(Context(regs, eip, ints, esp), n)
      /\ UNCHANGED <<running, saved, regs, gone>>

Interrupt ==
  /\ ints = "on" /\ Len(left[running]) < MaxNested
  /\ \E n \in {v \in Vectors : v >= 32} : Enter(n)

\* An exception in the code of main() or of a thread function.
Exception ==
  /\ At("main") \/ At("function")
  /\ Len(left[running]) < MaxNested
  /\ \E n \in {v \in Vectors : v < 32} : Enter(n)

\* The handler of an interrupt, or of an exception that somebody handles,
\* returns to the stub; any other exception stops the machine.
dispatch ==
  /\ At("dispatch")
  /\ int_no[1] = "number"
  /\ regs' = Computed
  /\ IF int_no[2] >= 32 \/ int_no[2] \in Handled
     THEN Return
     ELSE eip' = Address("abort") /\ esp' = esp
  /\ UNCHANGED <<running, mem, saved, ints, gone, left>>

\* for(;;), for good.
abort == At("abort") /\ UNCHANGED vars

\* The stub drops the argument, pops the registers and returns.
common_stub ==
  /\ At("common_stub")
  /\ RestoreAndReturn(mem[running], running, esp + 1)
  /\ UNCHANGED <<running, mem, saved, gone>>

----------------------------------------------------------------------------
\* Threads.

\* main() dispatches to the first thread: nothing is saved.
context_load_only ==
  /\ At("main")
  /\ \E t \in Threads : running' = t /\ RestoreAndReturn(mem[t], t, saved[t])
  /\ UNCHANGED <<mem, saved, gone>>

thread_start ==
  /\ At("thread_start")
  /\ ints' = IF Masking THEN "on" ELSE ints
  /\ Return
  /\ regs' = Computed
  /\ UNCHANGED <<running, mem, saved, gone, left>>

\* The thread function works.
Compute ==
  /\ At("function") /\ regs' = Computed
  /\ UNCHANGED <<running, mem, esp, saved, eip, ints, gone, left>>

\* A thread returns from its function, to thread_shutdown, where interrupts are
\* still on: it can be preempted there and dispatched again.
function_returns ==
  /\ At("function") /\ Preemptive
  /\ Return
  /\ UNCHANGED <<running, mem, saved, regs, ints, gone, left>>

\* yield turns interrupts off before it switches.
MaskForSwitch == IF Masking THEN "off" ELSE ints

\* threads_low_switch_to(t) is called: argument and return address are pushed.
CallSwitchTo(t, return) ==
  /\ mem' = [mem EXCEPT ![running] = Push(@, esp, <<Pointer(t), Address(return)>>)]
  /\ esp' = esp - 2
  /\ eip' = Address("threads_low_switch_to")
  /\ ints' = MaskForSwitch
  /\ Leave(Context(regs, Address(return), ints', esp - 1), 0)
  /\ UNCHANGED <<running, saved, regs>>

\* yield in a thread function.
yield(t) == At("function") /\ CallSwitchTo(t, "dispatched") /\ gone' = gone

\* terminate in thread_shutdown yields for good: nobody has resumed the thread.
terminate(t) ==
  /\ At("thread_shutdown") /\ t # running
  /\ CallSwitchTo(t, "dispatched")
  /\ gone' = gone \union {running}

\* The last thread finds the ready queue empty: the assertion of yield fails,
\* with interrupts still on.
nobody_is_ready ==
  /\ At("thread_shutdown") /\ gone \union {running} = Threads
  /\ eip' = Address("abort")
  /\ UNCHANGED <<running, mem, esp, saved, regs, ints, gone, left>>

\* resume in the timer's handler, when the quantum of a thread is over: it
\* leaves interrupts on, so that another one can come in before ...
resume ==
  /\ At("dispatch") /\ int_no = Number(32) /\ Preemptive /\ running # NoThread
  /\ eip' = Address("end_of_quantum")
  /\ ints' = IF Masking THEN "on" ELSE ints
  /\ regs' = Computed
  /\ UNCHANGED <<running, mem, esp, saved, gone, left>>

\* ... yield in the handler masks them and switches.
EndOfQuantum(t) == At("end_of_quantum") /\ CallSwitchTo(t, "handled") /\ gone' = gone

\* The return address goes two words down, below where esp moves next, and
\* eax is kept below it, too ...
MoveReturnAddress ==
  /\ At("threads_low_switch_to")
  /\ mem' = [mem EXCEPT ![running] = Push(@, esp, <<regs["eax"], @[esp]>>)]
  /\ regs' = [regs EXCEPT !["eax"] = mem[running][esp]]
  /\ esp' = esp + 1
  /\ eip' = Address("pushfd")
  /\ UNCHANGED <<running, saved, ints, gone, left>>

\* ... until the flags, the selector and a step over the address cover them.
PushFlags ==
  /\ At("pushfd")
  /\ regs' = [regs EXCEPT !["eax"] = mem[running][esp - 2]]
  /\ mem' = [mem EXCEPT ![running][esp - 1] = Flags(ints),
                        ![running][esp - 2] = Selector("cs")]
  /\ esp' = esp - 3
  /\ eip' = Address("save_registers")
  /\ UNCHANGED <<running, saved, ints, gone, left>>

\* save_registers; esp goes to the old thread and comes from the new one, whose
\* pointer is still above the frame; restore_registers and iret.
SwitchStacks ==
  /\ At("save_registers")
  /\ LET p == esp - 14
         m == [mem EXCEPT ![running] =
                Push(@, esp, <<Zero, Zero>> \o [i \in 1..12 |-> regs[Pushed[i]]])]
         next == m[running][p + 17][2]
     IN  /\ mem' = m
         /\ saved' = [saved EXCEPT ![running] = p]
         /\ running' = next
         /\ RestoreAndReturn(m[next], next, saved'[next])
  /\ gone' = gone

\* yield goes on in the thread that was switched in, drops the argument and
\* enables interrupts: back to the thread function or to the handler's end.
yield_returns ==
  /\ ints' = IF Masking THEN "on" ELSE ints
  /\ \/ At("dispatched") /\ esp' = esp + 1 /\ eip' = Address("function")
     \/ At("handled") /\ esp' = esp + 2 /\ eip' = mem[running][esp + 1]
  /\ UNCHANGED <<running, mem, saved, regs, gone, left>>

Switch ==
  \/ context_load_only \/ thread_start \/ Compute \/ function_returns
  \/ MoveReturnAddress \/ PushFlags \/ SwitchStacks \/ yield_returns
  \/ nobody_is_ready \/ resume
  \/ \E t \in Threads \ gone : yield(t) \/ terminate(t) \/ EndOfQuantum(t)

Next == Interrupt \/ Exception \/ dispatch \/ abort \/ common_stub \/ Switch

Spec == Init /\ [][Next]_vars
=============================================================================
