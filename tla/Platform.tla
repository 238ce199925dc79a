------------------------------ MODULE Platform -----------------------------
(* What the kernels from MP3 on stand on: the program with which main() sets *)
(* the machine up, the two interrupt controllers, the tables that lead from  *)
(* an interrupt or exception to its handler, and the handlers of timer,      *)
(* keyboard and disk. Interrupts come between any two steps.                 *)
EXTENDS Integers, Sequences, FiniteSets, MachineState

CONSTANTS
  Main,       \* the steps of main(), a sequence of tuples
  Threads,    \* the threads it dispatches to, if the kernel has threads
  Masking,    \* do threads run with interrupts on?
  Quantum, Hz,\* ticks in a quantum and in a second
  MaxEvents,  \* bound on the key presses, releases and disk interrupts
  MaxNested   \* bound on the interrupts a stack is in at a time

vars == <<pc, ready, gates, base, requested, inService, flag, irqHandler, excHandler,
          current, frames, timer, rested, keyboard, events, failure>>
cpu == <<flag, current, frames, inService, requested>>
devices == <<timer, rested, keyboard, events>>
tables == <<ready, gates, base, irqHandler, excHandler>>

Lines == 0..15
NoHandler == "none"

\* The handlers of exceptions that the kernels register, and those of interrupts.
Routines == {NoHandler, "DBZ", "PageFault"}
Handlers == {NoHandler, "SimpleTimer", "EOQTimer", "keyboard", "Disk_Silencer"}

\* Steps that need the console, and the steps that interrupts and page faults need.
Printing ==
  {"ExceptionHandler::init_dispatcher", "InterruptHandler::init_dispatcher",
   "register exception handler", "register interrupt handler", "MemPool"}
ForInterrupts ==
  {"static_ctors", "GDT::init", "IDT::init", "IRQ::init", "InterruptHandler::init_dispatcher"}
ForPageFaults == {"GDT::init", "IDT::init", "ExceptionHandler::init_dispatcher"}

Before(k, op) == \E j \in 1..(k - 1) : Main[j][1] = op

\* Step k replaces the handler of page faults.
Replaces(k) ==
  \/ Main[k][1] = "ExceptionHandler::init_dispatcher"
  \/ Main[k][1] = "register exception handler" /\ Main[k][2] = 14

PageFaultHandled(k) ==
  \E j \in 1..(k - 1) :
    /\ Main[j] = <<"register exception handler", 14, "PageFault">>
    /\ \A i \in (j + 1)..(k - 1) : ~Replaces(i)

\* What main() has to keep to: a step comes after those that prepare it, the
\* descriptor table is not cleared once the dispatchers are in it, interrupts are
\* enabled once, when all they need is there and before a thread runs, and the
\* handler that switches threads is the one of line 0.
BootOrder ==
  /\ Len(Main) \in Nat /\ "main" \notin Threads /\ Masking \in BOOLEAN
  /\ \A k \in 1..Len(Main) :
       /\ Main[k][1] \in Printing => Before(k, "Console::init")
       /\ Main[k][1] = "IDT::init" =>
            ~Before(k, "ExceptionHandler::init_dispatcher")
              /\ ~Before(k, "InterruptHandler::init_dispatcher")
       /\ Main[k][1] = "register exception handler" =>
            Main[k][2] \in 0..31 /\ Main[k][3] \in Routines
       /\ Main[k][1] = "register interrupt handler" =>
            /\ Main[k][2] \in Lines /\ Main[k][3] \in Handlers
            /\ Main[k][3] = "EOQTimer" => Main[k][2] = 0
       /\ Main[k][1] = "new" => Before(k, "MemPool")
       /\ Main[k][1] = "enable_interrupts" =>
            /\ \A op \in ForInterrupts : Before(k, op)
            /\ ~Before(k, "enable_interrupts")
       /\ Main[k][1] = "touch" =>
            (\A op \in ForPageFaults : Before(k, op)) /\ PageFaultHandled(k)
       /\ Main[k][1] = "dispatch_to" =>
            /\ Main[k][2] \in Threads /\ Before(k, "enable_interrupts")
            /\ \E j \in 1..(k - 1) : Main[j] = <<"new", "SYSTEM_SCHEDULER">>

\* What waits on a stack: an interrupt of line n, or a switch to another thread,
\* and how far its code has come.
NoLine == -1
Frame(n, at) == [n |-> n, at |-> at]

\* The machine as the boot loader leaves it, interrupts off.
Init ==
  /\ pc = 1 /\ ready = {} /\ flag = FALSE /\ failure = "none"
  /\ gates = [v \in 0..47 |-> "none"]
  /\ base = [master |-> 8, slave |-> 40]
  /\ requested = {} /\ inService = {}
  /\ irqHandler = [n \in Lines |-> NoHandler]
  /\ excHandler = [n \in 0..31 |-> NoHandler]
  /\ current = "main"
  /\ frames = [c \in Threads \union {"main"} |->
                IF c \in Threads THEN <<Frame(NoLine, "start")>> ELSE <<>>]
  /\ timer = [ticks |-> 0, seconds |-> 0, hz |-> 0] /\ rested = TRUE
  /\ keyboard = [port |-> "empty", key_pressed |-> FALSE, waiting |-> FALSE]
  /\ events = 0

----------------------------------------------------------------------------
\* The interrupt controllers. A line of the slave comes in by line 2.
Rank(n) == CASE n < 2 -> n [] n = 2 -> 2 [] n >= 8 -> n - 6 [] OTHER -> n + 7

\* Lines that the CPU would take now.
Deliverable ==
  {n \in requested : /\ flag /\ Len(frames[current]) < MaxNested
                     /\ \A m \in inService : Rank(m) > Rank(n)
                     /\ \A m \in requested : Rank(m) >= Rank(n)}

Highest(lines) == {n \in lines : \A m \in lines : n <= m}

\* A non-specific end of interrupt, sent to the slave, too, or to the master.
Acknowledged(served, alsoSlave) ==
  (served \ Highest(served \intersect 0..7))
     \ (IF alsoSlave THEN Highest(served \intersect 8..15) ELSE {})

Stop(why) == failure' = why /\ UNCHANGED <<pc, tables, cpu, devices>>
Running == failure = "none"

\* The code that runs and is not in a handler: its stack has no frame.
InCode == Running /\ frames[current] = <<>> /\ Deliverable = {}
Top == frames[current][1]
InHandler(at) ==
  Running /\ frames[current] # <<>> /\ Deliverable = {} /\ Top.at = at

----------------------------------------------------------------------------
\* The steps of main().
Step(op) ==
  InCode /\ current = "main" /\ pc <= Len(Main) /\ Main[pc][1] = op

\* A step whose preparations are missing writes to address 0, calls through a
\* pointer nobody has set, or fails an assertion.
Proceed(prepared) ==
  IF prepared THEN pc' = pc + 1 /\ failure' = failure
              ELSE pc' = pc /\ failure' = "not set up"

\* Every output, of a table entry, a registration or a message, needs the console.
Prints == "console" \in ready

\* start: the constructors of static objects; the keyboard is one.
static_ctors ==
  /\ Step("static_ctors") /\ Proceed(TRUE)
  /\ ready' = ready \union {"keyboard"}
  /\ UNCHANGED <<gates, base, irqHandler, excHandler, cpu, devices>>

GDT_init ==
  /\ Step("GDT::init") /\ Proceed(TRUE)
  /\ ready' = ready \union {"GDT"}
  /\ UNCHANGED <<gates, base, irqHandler, excHandler, cpu, devices>>

Console_init ==
  /\ Step("Console::init") /\ Proceed(TRUE)
  /\ ready' = ready \union {"console"}
  /\ UNCHANGED <<gates, base, irqHandler, excHandler, cpu, devices>>

\* The table is cleared and loaded.
IDT_init ==
  /\ Step("IDT::init") /\ Proceed(TRUE)
  /\ gates' = [v \in 0..47 |-> "none"]
  /\ ready' = ready \union {"IDT"}
  /\ UNCHANGED <<base, irqHandler, excHandler, cpu, devices>>

\* IDT::set_gate for a range of entries.
set_gates(range, stub) == gates' = [v \in 0..47 |-> IF v \in range THEN stub ELSE gates[v]]

Exception_init_dispatcher ==
  /\ Step("ExceptionHandler::init_dispatcher") /\ Proceed(Prints)
  /\ set_gates(0..31, "isr")
  /\ excHandler' = [n \in 0..31 |-> NoHandler]
  /\ UNCHANGED <<ready, base, irqHandler, cpu, devices>>

\* Slip: the controllers keep their vectors.
Remapped_not == base

\* irq_remap initialises both controllers for vectors from 32 on.
Remapped == [master |-> 32, slave |-> 40]

IRQ_init ==
  /\ Step("IRQ::init") /\ Proceed(TRUE)
  /\ base' = Remapped
  /\ requested' = {} /\ inService' = {}
  /\ UNCHANGED <<ready, gates, irqHandler, excHandler, flag, current, frames, devices>>

Interrupt_init_dispatcher ==
  /\ Step("InterruptHandler::init_dispatcher") /\ Proceed(Prints)
  /\ set_gates(32..47, "irq")
  /\ irqHandler' = [n \in Lines |-> NoHandler]
  /\ UNCHANGED <<ready, base, excHandler, cpu, devices>>

register_exception ==
  /\ Step("register exception handler") /\ Proceed(Prints)
  /\ excHandler' = [excHandler EXCEPT ![Main[pc][2]] = Main[pc][3]]
  /\ UNCHANGED <<ready, gates, base, irqHandler, cpu, devices>>

register_interrupt ==
  /\ Step("register interrupt handler") /\ Proceed(Prints)
  /\ irqHandler' = [irqHandler EXCEPT ![Main[pc][2]] = Main[pc][3]]
  /\ UNCHANGED <<ready, gates, base, excHandler, cpu, devices>>

\* The timer remembers its frequency and programs the chip.
set_frequency(t, hz) == [t EXCEPT !.hz = hz]

\* SimpleTimer(hz) has counted nothing.
SimpleTimer ==
  /\ Step("SimpleTimer") /\ Proceed(TRUE)
  /\ timer' = set_frequency([ticks |-> 0, seconds |-> 0, hz |-> 0], Hz)
  /\ UNCHANGED <<tables, cpu, rested, keyboard, events>>

\* The frame pool and the pool that operator new takes memory from.
memory_pool ==
  /\ Step("MemPool") /\ Proceed(Prints)
  /\ ready' = ready \union {"memory"}
  /\ UNCHANGED <<gates, base, irqHandler, excHandler, cpu, devices>>

new ==
  /\ Step("new") /\ Proceed("memory" \in ready)
  /\ ready' = ready \union {Main[pc][2]}
  /\ UNCHANGED <<gates, base, irqHandler, excHandler, cpu, devices>>

\* Machine::enable_interrupts, which asserts that they are off.
enable_interrupts ==
  /\ Step("enable_interrupts") /\ Proceed(~flag)
  /\ flag' = TRUE
  /\ UNCHANGED <<current, frames, inService, requested, tables, devices>>

\* Memory that is not shared is touched for the first time: a page fault.
touch ==
  /\ Step("touch")
  /\ Proceed({"GDT", "IDT"} \subseteq ready /\ gates[14] = "isr" /\ excHandler[14] = "PageFault")
  /\ UNCHANGED <<tables, cpu, devices>>

\* Thread::dispatch_to(the first thread): main() is left for good, and iret
\* loads flags without interrupts. The threads call the scheduler.
dispatch_to ==
  /\ Step("dispatch_to") /\ Proceed("SYSTEM_SCHEDULER" \in ready)
  /\ current' = Main[pc][2]
  /\ flag' = FALSE
  /\ UNCHANGED <<frames, inService, requested, tables, devices>>

\* SimpleKeyboard::wait forgets an earlier key ...
wait ==
  /\ Step("wait") /\ ~keyboard.waiting
  /\ keyboard' = [keyboard EXCEPT !.key_pressed = FALSE, !.waiting = TRUE]
  /\ UNCHANGED <<pc, tables, cpu, timer, rested, events, failure>>

\* ... and loops until it sees the next one.
wait_ends ==
  /\ Step("wait") /\ keyboard.waiting /\ keyboard.key_pressed
  /\ pc' = pc + 1
  /\ keyboard' = [keyboard EXCEPT !.waiting = FALSE]
  /\ UNCHANGED <<tables, cpu, timer, rested, events, failure>>

\* main() or a thread works, or waits in a loop; some of the time until the
\* next tick is over.
Work ==
  /\ InCode /\ ~rested
  /\ current # "main" \/ pc > Len(Main) \/ (keyboard.waiting /\ ~keyboard.key_pressed)
  /\ rested' = TRUE
  /\ UNCHANGED <<pc, tables, cpu, timer, keyboard, events, failure>>

----------------------------------------------------------------------------
\* Threads. Which one is next is left open.

Top_at(label) == frames' = [frames EXCEPT ![current][1].at = label]
Popped == frames' = [frames EXCEPT ![current] = Tail(@)]

\* A thread turns interrupts off, unless they are always off, and yields.
pass_on_CPU ==
  /\ InCode /\ current \in Threads
  /\ frames' = [frames EXCEPT ![current] = <<Frame(NoLine, "switched")>> \o @]
  /\ flag' = FALSE
  /\ timer' = IF Masking THEN [timer EXCEPT !.ticks = 0] ELSE timer
  /\ rested' = TRUE
  /\ current' \in Threads
  /\ UNCHANGED <<pc, tables, inService, requested, keyboard, events, failure>>

\* Slip: interrupts stay as they were for the switch.
AfterSwitch_off == FALSE

\* yield enables interrupts behind the switch, if threads run with them at all.
AfterSwitch == Masking

\* yield returns in a thread that was switched in; with interrupts on again,
\* the thread goes on in its function or at the end of the timer's handler.
yield_returns ==
  /\ InHandler("switched")
  /\ flag' = AfterSwitch
  /\ IF Top.n = NoLine THEN Popped ELSE Top_at("eoi")
  /\ UNCHANGED <<pc, tables, current, inService, requested, devices, failure>>

thread_start ==
  /\ InHandler("start")
  /\ flag' = Masking
  /\ Popped
  /\ UNCHANGED <<pc, tables, current, inService, requested, devices, failure>>

----------------------------------------------------------------------------
\* Interrupts.

\* The CPU takes an interrupt by the gate of its vector. Without a gate it
\* resets; with the gate of an exception, the dispatcher of exceptions aborts or
\* hands the number to a handler that never returns.
Deliver(n) ==
  /\ Running /\ n \in Deliverable
  /\ LET vector == IF n < 8 THEN base.master + n ELSE base.slave + n - 8
         stub == IF {"GDT", "IDT"} \subseteq ready THEN gates[vector] ELSE "none"
     IN  CASE stub = "none" -> Stop("triple fault")
           [] stub = "isr" -> Stop("exception")
           [] stub = "irq" ->
                /\ frames' = [frames EXCEPT ![current] = <<Frame(n, "handler")>> \o @]
                /\ flag' = FALSE
                /\ requested' = requested \ {n}
                /\ inService' = inService \union {n} \union (IF n > 7 THEN {2} ELSE {})
                /\ UNCHANGED <<pc, tables, current, devices, failure>>

\* dispatch_interrupt calls the handler that is registered for the line.
Handles(who) == InHandler("handler") /\ irqHandler[Top.n] = who

\* Without a handler there is a message; the silencer of the disk does nothing.
nobody_handles ==
  /\ Handles(NoHandler) \/ Handles("Disk_Silencer")
  /\ Top_at("eoi")
  /\ UNCHANGED <<pc, tables, flag, current, inService, requested, devices, failure>>

SimpleTimer_handles ==
  /\ Handles("SimpleTimer")
  /\ timer' = IF timer.ticks + 1 >= timer.hz
              THEN [timer EXCEPT !.ticks = 0, !.seconds = (@ + 1) % 2]
              ELSE [timer EXCEPT !.ticks = @ + 1]
  /\ Top_at("eoi")
  /\ UNCHANGED <<pc, tables, flag, current, inService, requested, rested, keyboard, events, failure>>

\* Slip: the timer's handler leaves the end of interrupt to the dispatcher.
EOQ_acknowledges_not == inService

\* The timer's handler sends an end of interrupt itself before it switches.
EOQ_acknowledges == Acknowledged(inService, FALSE)

\* The tick counts if a thread runs. At the end of its quantum the thread is
\* put into the ready queue, which turns interrupts on.
EOQTimer_handles ==
  /\ Handles("EOQTimer")
  /\ inService' = EOQ_acknowledges
  /\ LET ticks == timer.ticks + (IF current \in Threads THEN 1 ELSE 0)
         over == ticks >= Quantum
     IN  /\ timer' = [timer EXCEPT !.ticks = IF over /\ current \notin Threads THEN 0 ELSE ticks]
         /\ IF over /\ current \in Threads
            THEN Top_at("resumed") /\ flag' = TRUE /\ rested' = TRUE
            ELSE Top_at("eoi") /\ UNCHANGED <<flag, rested>>
  /\ UNCHANGED <<pc, tables, current, requested, keyboard, events, failure>>

\* ... and yields.
EOQTimer_yields ==
  /\ InHandler("resumed")
  /\ Top_at("switched")
  /\ flag' = FALSE
  /\ timer' = [timer EXCEPT !.ticks = 0]
  /\ current' \in Threads
  /\ UNCHANGED <<pc, tables, inService, requested, rested, keyboard, events, failure>>

\* Slip: the sign of the code is the wrong way round.
IsMake_inverted(code) == code = "break"

\* kc >= 0: a key is pressed, and not released.
IsMake(code) == code = "make"

\* The handler of the keyboard empties the port.
SimpleKeyboard_handles ==
  /\ Handles("keyboard")
  /\ IF "keyboard" \in ready
     THEN /\ keyboard' = [keyboard EXCEPT !.port = "empty",
                                          !.key_pressed = @ \/ IsMake(keyboard.port)]
          /\ Top_at("eoi")
          /\ UNCHANGED <<pc, tables, flag, current, inService, requested, timer, rested, events,
                         failure>>
     ELSE Stop("not set up")

generated_by_slave_PIC(n) == n > 7

\* The end of dispatch_interrupt and the iret of the stub.
end_of_interrupt ==
  /\ InHandler("eoi")
  /\ inService' = Acknowledged(inService, generated_by_slave_PIC(Top.n))
  /\ Popped
  /\ flag' = TRUE
  /\ UNCHANGED <<pc, tables, current, requested, devices, failure>>

----------------------------------------------------------------------------
\* Devices. The timer fires whether or not anybody listens, but never twice
\* while one handler runs.
TimerFires ==
  /\ Running /\ rested /\ 0 \notin requested
  /\ requested' = requested \union {0}
  /\ rested' = FALSE
  /\ UNCHANGED <<pc, tables, flag, current, frames, inService, timer, keyboard, events, failure>>

\* A key goes down or up, once the controllers are initialised. The keyboard
\* keeps its next code until the port is read.
KeyMoves ==
  /\ Running /\ base.master # 8 /\ keyboard.port = "empty" /\ events < MaxEvents
  /\ \E code \in {"make", "break"} : keyboard' = [keyboard EXCEPT !.port = code]
  /\ requested' = requested \union {1}
  /\ events' = events + 1
  /\ UNCHANGED <<pc, tables, flag, current, frames, inService, timer, rested, failure>>

\* A command of the disk is done; the disk is used once the kernel runs.
DiskIsDone ==
  /\ Running /\ "SYSTEM_DISK" \in ready /\ pc > Len(Main) /\ events < MaxEvents
  /\ requested' = requested \union {14}
  /\ events' = events + 1
  /\ UNCHANGED <<pc, tables, flag, current, frames, inService, timer, rested, keyboard, failure>>

Boot ==
  \/ static_ctors \/ GDT_init \/ Console_init \/ IDT_init \/ Exception_init_dispatcher
  \/ IRQ_init \/ Interrupt_init_dispatcher \/ register_exception \/ register_interrupt
  \/ SimpleTimer \/ memory_pool \/ new \/ enable_interrupts \/ touch \/ wait \/ wait_ends \/ dispatch_to

Handle ==
  \/ nobody_handles \/ SimpleTimer_handles \/ EOQTimer_handles \/ EOQTimer_yields
  \/ SimpleKeyboard_handles \/ end_of_interrupt

CPU ==
  \/ Boot \/ Work \/ pass_on_CPU \/ yield_returns \/ thread_start
  \/ \E n \in Lines : Deliver(n)
  \/ Handle

Devices == TimerFires \/ KeyMoves \/ DiskIsDone

Next == CPU \/ Devices

\* The CPU does not stop, and neither does the timer.
Fairness == WF_vars(CPU) /\ WF_vars(TimerFires)

Spec == Init /\ [][Next]_vars /\ Fairness

----------------------------------------------------------------------------
\* Every request of a line is served at last, again and again ...
RequestsServed == \A n \in {0, 1, 14} : (n \in requested) ~> (n \notin requested)

\* ... and the seconds of the timer go on for ever.
ClockRuns == \A s \in 0..1 : []<>(timer.seconds = s)

\* A key that goes down while main() waits for one ends the wait.
KeyEndsWait == (keyboard.waiting /\ keyboard.port = "make") ~> ~keyboard.waiting
=============================================================================
