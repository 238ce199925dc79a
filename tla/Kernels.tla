------------------------------ MODULE Kernels ------------------------------
(* The seven kernels, each with the steps of its own main() and its own copy *)
(* of every file below it: the console, the way into handlers and back, and  *)
(* boot with interrupts. What happens in a file is named after the kernel    *)
(* and the file. Each part of a kernel moves while the others stand still.   *)
EXTENDS Integers, Sequences, CPUState, MachineState, ScreenState

VARIABLE part   \* the part that moves

\* The screen is in ScreenState, the CPU in CPUState, the machine in MachineState.
machineVars == <<pc, ready, gates, base, requested, inService, flag, irqHandler, excHandler,
                 current, frames, timer, rested, keyboard, events, failure>>

Screen(step) == part = "screen" /\ step /\ UNCHANGED <<part, cpuVars, machineVars>>
CPU(step) == part = "CPU" /\ step /\ UNCHANGED <<part, screenVars, machineVars>>
Machine(step) == part = "machine" /\ step /\ UNCHANGED <<part, screenVars, cpuVars>>

\* What the first steps of main() have in common from MP3 on, after the
\* constructors of static objects; a division by zero never returns.
init_dispatchers ==
  <<<<"IDT::init">>, <<"ExceptionHandler::init_dispatcher">>,
    <<"IRQ::init">>, <<"InterruptHandler::init_dispatcher">>,
    <<"register exception handler", 0, "DBZ">>>>

register(line, handler) == <<"register interrupt handler", line, handler>>

----------------------------------------------------------------------------
\* MP1: a message on the screen; no interrupts. A line moves up by half its length
\* when the screen scrolls.

MP1_Console ==
  INSTANCE Console WITH Tab <- 2, Stride <- Cols \div 2, Base <- 2, Places <- 2,
                        Controls <- {"HT", "CR", "LF"}, Interrupts <- FALSE, MaxCalls <- 3

MP1_utils_C == MP1_Console!puti \/ MP1_Console!putui
MP1_console_C ==
  \/ MP1_Console!control \/ MP1_Console!NextCharacter \/ MP1_Console!putch
  \/ MP1_Console!Rest

MP1_Next == Screen(MP1_utils_C \/ MP1_console_C)

----------------------------------------------------------------------------
\* MP2: frame pools (FramePool); no interrupts.

MP2_Console ==
  INSTANCE Console WITH Tab <- 2, Stride <- Cols, Base <- 2, Places <- 2,
                        Controls <- {"HT", "CR", "LF"}, Interrupts <- FALSE, MaxCalls <- 3

MP2_utils_C == MP2_Console!puti \/ MP2_Console!putui
MP2_console_C ==
  \/ MP2_Console!control \/ MP2_Console!NextCharacter \/ MP2_Console!putch
  \/ MP2_Console!Rest

MP2_Next == Screen(MP2_utils_C \/ MP2_console_C)

----------------------------------------------------------------------------
\* MP3: paging.

MP3_Console ==
  INSTANCE Console WITH Tab <- 2, Stride <- Cols, Base <- 2, Places <- 2,
                        Controls <- {"HT", "CR", "LF"}, Interrupts <- TRUE, MaxCalls <- 2

MP3_utils_C == MP3_Console!puti \/ MP3_Console!putui
MP3_console_C ==
  \/ MP3_Console!control \/ MP3_Console!NextCharacter \/ MP3_Console!putch
  \/ MP3_Console!HandlerPrints \/ MP3_Console!Rest

MP3_Switch ==
  INSTANCE ContextSwitch WITH Threads <- {}, Vectors <- {0, 8, 13, 14, 32, 33},
    Handled <- {14}, Preemptive <- FALSE, Masking <- TRUE, Depth <- 90, MaxNested <- 2

MP3_idt_low_asm == MP3_Switch!Exception \/ MP3_Switch!abort
MP3_irq_low_asm == MP3_Switch!Interrupt
MP3_isr_common_stub == MP3_Switch!dispatch \/ MP3_Switch!common_stub

MP3_main ==
  <<<<"static_ctors">>, <<"GDT::init">>, <<"Console::init">>>> \o init_dispatchers
  \o <<<<"SimpleTimer">>, register(0, "SimpleTimer"), register(1, "keyboard"),
       <<"enable_interrupts">>, <<"register exception handler", 14, "PageFault">>, <<"touch">>,
       <<"wait">>, <<"touch">>>>

MP3_Platform ==
  INSTANCE Platform WITH Main <- MP3_main, Threads <- {}, Masking <- TRUE,
                         Quantum <- 2, Hz <- 2, MaxEvents <- 3, MaxNested <- 2

MP3_start_asm == MP3_Platform!static_ctors
MP3_gdt_C == MP3_Platform!GDT_init
MP3_idt_C == MP3_Platform!IDT_init
MP3_irq_C == MP3_Platform!IRQ_init
MP3_exceptions_C ==
  MP3_Platform!Exception_init_dispatcher \/ MP3_Platform!register_exception \/ MP3_Platform!touch
MP3_interrupts_C ==
  \/ MP3_Platform!Interrupt_init_dispatcher \/ MP3_Platform!register_interrupt
  \/ \E n \in MP3_Platform!Lines : MP3_Platform!Deliver(n)
  \/ MP3_Platform!end_of_interrupt
MP3_machine_C == MP3_Platform!enable_interrupts
MP3_simple_timer_C == MP3_Platform!SimpleTimer \/ MP3_Platform!SimpleTimer_handles

MP3_simple_keyboard_C ==
  MP3_Platform!SimpleKeyboard_handles \/ MP3_Platform!wait \/ MP3_Platform!wait_ends

MP3_runs == MP3_Platform!Console_init \/ MP3_Platform!Work
MP3_devices ==
  MP3_Platform!TimerFires \/ MP3_Platform!KeyMoves

MP3_Next ==
  \/ Screen(MP3_utils_C \/ MP3_console_C)
  \/ CPU(MP3_idt_low_asm \/ MP3_irq_low_asm \/ MP3_isr_common_stub)
  \/ Machine(\/ MP3_start_asm \/ MP3_gdt_C \/ MP3_idt_C \/ MP3_irq_C
             \/ MP3_exceptions_C \/ MP3_interrupts_C \/ MP3_machine_C
             \/ MP3_simple_timer_C \/ MP3_simple_keyboard_C \/ MP3_runs
             \/ MP3_devices)

----------------------------------------------------------------------------
\* MP4: virtual memory pools (VirtualMemory).

MP4_Console ==
  INSTANCE Console WITH Tab <- 2, Stride <- Cols, Base <- 2, Places <- 2,
                        Controls <- {"HT", "CR", "LF"}, Interrupts <- TRUE, MaxCalls <- 2

MP4_utils_C == MP4_Console!puti \/ MP4_Console!putui
MP4_console_C ==
  \/ MP4_Console!control \/ MP4_Console!NextCharacter \/ MP4_Console!putch
  \/ MP4_Console!HandlerPrints \/ MP4_Console!Rest

MP4_Switch ==
  INSTANCE ContextSwitch WITH Threads <- {}, Vectors <- {0, 8, 13, 14, 32, 33},
    Handled <- {14}, Preemptive <- FALSE, Masking <- TRUE, Depth <- 90, MaxNested <- 2

MP4_idt_low_asm == MP4_Switch!Exception \/ MP4_Switch!abort
MP4_irq_low_asm == MP4_Switch!Interrupt
MP4_isr_common_stub == MP4_Switch!dispatch \/ MP4_Switch!common_stub

MP4_main ==
  <<<<"static_ctors">>, <<"GDT::init">>, <<"Console::init">>>> \o init_dispatchers
  \o <<<<"SimpleTimer">>, register(0, "SimpleTimer"), register(1, "keyboard"),
       <<"enable_interrupts">>, <<"register exception handler", 14, "PageFault">>, <<"touch">>>>

MP4_Platform ==
  INSTANCE Platform WITH Main <- MP4_main, Threads <- {}, Masking <- TRUE,
                         Quantum <- 2, Hz <- 2, MaxEvents <- 3, MaxNested <- 2

MP4_start_asm == MP4_Platform!static_ctors
MP4_gdt_C == MP4_Platform!GDT_init
MP4_idt_C == MP4_Platform!IDT_init
MP4_irq_C == MP4_Platform!IRQ_init
MP4_exceptions_C ==
  MP4_Platform!Exception_init_dispatcher \/ MP4_Platform!register_exception \/ MP4_Platform!touch
MP4_interrupts_C ==
  \/ MP4_Platform!Interrupt_init_dispatcher \/ MP4_Platform!register_interrupt
  \/ \E n \in MP4_Platform!Lines : MP4_Platform!Deliver(n)
  \/ MP4_Platform!end_of_interrupt
MP4_machine_C == MP4_Platform!enable_interrupts
MP4_simple_timer_C == MP4_Platform!SimpleTimer \/ MP4_Platform!SimpleTimer_handles

MP4_simple_keyboard_C ==
  MP4_Platform!SimpleKeyboard_handles

MP4_runs == MP4_Platform!Console_init \/ MP4_Platform!Work
MP4_devices ==
  MP4_Platform!TimerFires \/ MP4_Platform!KeyMoves

MP4_Next ==
  \/ Screen(MP4_utils_C \/ MP4_console_C)
  \/ CPU(MP4_idt_low_asm \/ MP4_irq_low_asm \/ MP4_isr_common_stub)
  \/ Machine(\/ MP4_start_asm \/ MP4_gdt_C \/ MP4_idt_C \/ MP4_irq_C
             \/ MP4_exceptions_C \/ MP4_interrupts_C \/ MP4_machine_C
             \/ MP4_simple_timer_C \/ MP4_simple_keyboard_C \/ MP4_runs
             \/ MP4_devices)

----------------------------------------------------------------------------
\* MP5: threads and the end of their quanta (RRScheduler).

MP5_Console ==
  INSTANCE Console WITH Tab <- 2, Stride <- Cols, Base <- 2, Places <- 2,
                        Controls <- {"HT", "CR", "LF"}, Interrupts <- TRUE, MaxCalls <- 2

MP5_utils_C == MP5_Console!puti \/ MP5_Console!putui
MP5_console_C ==
  \/ MP5_Console!control \/ MP5_Console!NextCharacter \/ MP5_Console!putch
  \/ MP5_Console!HandlerPrints \/ MP5_Console!Rest

MP5_Switch ==
  INSTANCE ContextSwitch WITH Threads <- {"thread1", "thread2"}, Vectors <- {0, 32},
    Handled <- {}, Preemptive <- TRUE, Masking <- TRUE, Depth <- 90, MaxNested <- 2

MP5_idt_low_asm == MP5_Switch!Exception \/ MP5_Switch!abort
MP5_irq_low_asm == MP5_Switch!Interrupt
MP5_isr_common_stub == MP5_Switch!dispatch \/ MP5_Switch!common_stub

MP5_thread_C ==
  \/ MP5_Switch!thread_start \/ MP5_Switch!Compute \/ MP5_Switch!yield_returns
  \/ MP5_Switch!function_returns \/ MP5_Switch!nobody_is_ready \/ MP5_Switch!resume
  \/ \E t \in {"thread1", "thread2"} \ gone :
       MP5_Switch!yield(t) \/ MP5_Switch!terminate(t) \/ MP5_Switch!EndOfQuantum(t)
MP5_threads_low_asm ==
  \/ MP5_Switch!context_load_only \/ MP5_Switch!MoveReturnAddress
  \/ MP5_Switch!PushFlags \/ MP5_Switch!SwitchStacks

MP5_main ==
  <<<<"static_ctors">>, <<"GDT::init">>, <<"Console::init">>>> \o init_dispatchers
  \o <<<<"MemPool">>, <<"SimpleTimer">>, register(0, "EOQTimer"),
       <<"new", "SYSTEM_SCHEDULER">>, <<"enable_interrupts">>, <<"new", "threads">>,
       <<"dispatch_to", "thread1">>>>

MP5_Platform ==
  INSTANCE Platform WITH Main <- MP5_main, Threads <- {"thread1", "thread2"}, Masking <- TRUE,
                         Quantum <- 2, Hz <- 2, MaxEvents <- 3, MaxNested <- 2

MP5_start_asm == MP5_Platform!static_ctors
MP5_gdt_C == MP5_Platform!GDT_init
MP5_idt_C == MP5_Platform!IDT_init
MP5_irq_C == MP5_Platform!IRQ_init
MP5_exceptions_C ==
  MP5_Platform!Exception_init_dispatcher \/ MP5_Platform!register_exception
MP5_interrupts_C ==
  \/ MP5_Platform!Interrupt_init_dispatcher \/ MP5_Platform!register_interrupt
  \/ \E n \in MP5_Platform!Lines : MP5_Platform!Deliver(n)
  \/ MP5_Platform!nobody_handles \/ MP5_Platform!end_of_interrupt
MP5_machine_C == MP5_Platform!enable_interrupts
MP5_simple_timer_C ==
  \/ MP5_Platform!SimpleTimer \/ MP5_Platform!EOQTimer_handles
  \/ MP5_Platform!EOQTimer_yields

MP5_mem_pool_C == MP5_Platform!memory_pool
MP5_new == MP5_Platform!new

MP5_dispatch ==
  \/ MP5_Platform!dispatch_to \/ MP5_Platform!pass_on_CPU
  \/ MP5_Platform!yield_returns \/ MP5_Platform!thread_start

MP5_runs == MP5_Platform!Console_init \/ MP5_Platform!Work
MP5_devices ==
  MP5_Platform!TimerFires \/ MP5_Platform!KeyMoves

MP5_Next ==
  \/ Screen(MP5_utils_C \/ MP5_console_C)
  \/ CPU(\/ MP5_idt_low_asm \/ MP5_irq_low_asm \/ MP5_isr_common_stub \/ MP5_thread_C
         \/ MP5_threads_low_asm)
  \/ Machine(\/ MP5_start_asm \/ MP5_gdt_C \/ MP5_idt_C \/ MP5_irq_C
             \/ MP5_exceptions_C \/ MP5_interrupts_C \/ MP5_machine_C
             \/ MP5_simple_timer_C \/ MP5_mem_pool_C \/ MP5_new \/ MP5_dispatch
             \/ MP5_runs \/ MP5_devices)

----------------------------------------------------------------------------
\* MP6: threads that never let interrupts in again, and a disk (BlockingDisk).

MP6_Console ==
  INSTANCE Console WITH Tab <- 2, Stride <- Cols, Base <- 2, Places <- 2,
                        Controls <- {"HT", "CR", "LF"}, Interrupts <- TRUE, MaxCalls <- 2

MP6_utils_C == MP6_Console!puti \/ MP6_Console!putui
MP6_console_C ==
  \/ MP6_Console!control \/ MP6_Console!NextCharacter \/ MP6_Console!putch
  \/ MP6_Console!HandlerPrints \/ MP6_Console!Rest

MP6_Switch ==
  INSTANCE ContextSwitch WITH Threads <- {"thread1", "thread2"}, Vectors <- {0, 32},
    Handled <- {}, Preemptive <- FALSE, Masking <- FALSE, Depth <- 90, MaxNested <- 2

MP6_idt_low_asm == MP6_Switch!Exception \/ MP6_Switch!abort
MP6_irq_low_asm == MP6_Switch!Interrupt
MP6_isr_common_stub == MP6_Switch!dispatch \/ MP6_Switch!common_stub

MP6_thread_C ==
  \/ MP6_Switch!thread_start \/ MP6_Switch!Compute \/ MP6_Switch!yield_returns
  \/ \E t \in {"thread1", "thread2"} \ gone : MP6_Switch!yield(t)

MP6_threads_low_asm ==
  \/ MP6_Switch!context_load_only \/ MP6_Switch!MoveReturnAddress
  \/ MP6_Switch!PushFlags \/ MP6_Switch!SwitchStacks

MP6_main ==
  <<<<"static_ctors">>, <<"GDT::init">>, <<"Console::init">>>> \o init_dispatchers
  \o <<<<"MemPool">>, <<"SimpleTimer">>, register(0, "SimpleTimer"),
       <<"new", "SYSTEM_SCHEDULER">>, <<"new", "SYSTEM_DISK">>, <<"enable_interrupts">>,
       <<"new", "threads">>, <<"dispatch_to", "thread1">>>>

MP6_Platform ==
  INSTANCE Platform WITH Main <- MP6_main, Threads <- {"thread1", "thread2"}, Masking <- FALSE,
                         Quantum <- 2, Hz <- 2, MaxEvents <- 3, MaxNested <- 2

MP6_start_asm == MP6_Platform!static_ctors
MP6_gdt_C == MP6_Platform!GDT_init
MP6_idt_C == MP6_Platform!IDT_init
MP6_irq_C == MP6_Platform!IRQ_init
MP6_exceptions_C ==
  MP6_Platform!Exception_init_dispatcher \/ MP6_Platform!register_exception
MP6_interrupts_C ==
  \/ MP6_Platform!Interrupt_init_dispatcher \/ MP6_Platform!register_interrupt
  \/ \E n \in MP6_Platform!Lines : MP6_Platform!Deliver(n)
  \/ MP6_Platform!nobody_handles \/ MP6_Platform!end_of_interrupt
MP6_machine_C == MP6_Platform!enable_interrupts
MP6_simple_timer_C == MP6_Platform!SimpleTimer \/ MP6_Platform!SimpleTimer_handles

MP6_mem_pool_C == MP6_Platform!memory_pool
MP6_new == MP6_Platform!new

MP6_dispatch ==
  \/ MP6_Platform!dispatch_to \/ MP6_Platform!pass_on_CPU
  \/ MP6_Platform!yield_returns \/ MP6_Platform!thread_start

MP6_runs == MP6_Platform!Console_init \/ MP6_Platform!Work
MP6_devices ==
  MP6_Platform!TimerFires \/ MP6_Platform!KeyMoves \/ MP6_Platform!DiskIsDone

MP6_Next ==
  \/ Screen(MP6_utils_C \/ MP6_console_C)
  \/ CPU(\/ MP6_idt_low_asm \/ MP6_irq_low_asm \/ MP6_isr_common_stub \/ MP6_thread_C
         \/ MP6_threads_low_asm)
  \/ Machine(\/ MP6_start_asm \/ MP6_gdt_C \/ MP6_idt_C \/ MP6_irq_C
             \/ MP6_exceptions_C \/ MP6_interrupts_C \/ MP6_machine_C
             \/ MP6_simple_timer_C \/ MP6_mem_pool_C \/ MP6_new \/ MP6_dispatch
             \/ MP6_runs \/ MP6_devices)

----------------------------------------------------------------------------
\* MP7: a file system (FileSystem), used by main().

MP7_Console ==
  INSTANCE Console WITH Tab <- 2, Stride <- Cols, Base <- 2, Places <- 2,
                        Controls <- {"HT", "CR", "LF"}, Interrupts <- TRUE, MaxCalls <- 2

MP7_utils_C == MP7_Console!puti \/ MP7_Console!putui
MP7_console_C ==
  \/ MP7_Console!control \/ MP7_Console!NextCharacter \/ MP7_Console!putch
  \/ MP7_Console!HandlerPrints \/ MP7_Console!Rest

MP7_Switch ==
  INSTANCE ContextSwitch WITH Threads <- {}, Vectors <- {0, 8, 13, 14, 32, 46},
    Handled <- {}, Preemptive <- FALSE, Masking <- TRUE, Depth <- 90, MaxNested <- 2

MP7_idt_low_asm == MP7_Switch!Exception \/ MP7_Switch!abort
MP7_irq_low_asm == MP7_Switch!Interrupt
MP7_isr_common_stub == MP7_Switch!dispatch \/ MP7_Switch!common_stub

MP7_main ==
  <<<<"static_ctors">>, <<"GDT::init">>, <<"Console::init">>>> \o init_dispatchers
  \o <<<<"MemPool">>, <<"SimpleTimer">>, register(0, "SimpleTimer"),
       <<"new", "SYSTEM_DISK">>, register(14, "Disk_Silencer"), <<"new", "FILE_SYSTEM">>, <<"enable_interrupts">>>>

MP7_Platform ==
  INSTANCE Platform WITH Main <- MP7_main, Threads <- {}, Masking <- TRUE,
                         Quantum <- 2, Hz <- 2, MaxEvents <- 3, MaxNested <- 2

MP7_start_asm == MP7_Platform!static_ctors
MP7_gdt_C == MP7_Platform!GDT_init
MP7_idt_C == MP7_Platform!IDT_init
MP7_irq_C == MP7_Platform!IRQ_init
MP7_exceptions_C ==
  MP7_Platform!Exception_init_dispatcher \/ MP7_Platform!register_exception
MP7_interrupts_C ==
  \/ MP7_Platform!Interrupt_init_dispatcher \/ MP7_Platform!register_interrupt
  \/ \E n \in MP7_Platform!Lines : MP7_Platform!Deliver(n)
  \/ MP7_Platform!nobody_handles \/ MP7_Platform!end_of_interrupt
MP7_machine_C == MP7_Platform!enable_interrupts
MP7_simple_timer_C == MP7_Platform!SimpleTimer \/ MP7_Platform!SimpleTimer_handles

MP7_mem_pool_C == MP7_Platform!memory_pool
MP7_new == MP7_Platform!new

MP7_runs == MP7_Platform!Console_init \/ MP7_Platform!Work
MP7_devices ==
  MP7_Platform!TimerFires \/ MP7_Platform!KeyMoves \/ MP7_Platform!DiskIsDone

MP7_Next ==
  \/ Screen(MP7_utils_C \/ MP7_console_C)
  \/ CPU(MP7_idt_low_asm \/ MP7_irq_low_asm \/ MP7_isr_common_stub)
  \/ Machine(\/ MP7_start_asm \/ MP7_gdt_C \/ MP7_idt_C \/ MP7_irq_C
             \/ MP7_exceptions_C \/ MP7_interrupts_C \/ MP7_machine_C
             \/ MP7_simple_timer_C \/ MP7_mem_pool_C \/ MP7_new \/ MP7_runs
             \/ MP7_devices)

----------------------------------------------------------------------------
\* main() of every kernel keeps to the order that Platform asks for.
ASSUME BootOrders ==
  /\ MP3_Platform!BootOrder /\ MP4_Platform!BootOrder /\ MP5_Platform!BootOrder
  /\ MP6_Platform!BootOrder /\ MP7_Platform!BootOrder

\* Every kernel has a screen and numbers as Console needs them.
ASSUME ScreensSuffice ==
  /\ MP1_Console!ConsoleAssumption /\ MP2_Console!ConsoleAssumption
  /\ MP3_Console!ConsoleAssumption /\ MP4_Console!ConsoleAssumption
  /\ MP5_Console!ConsoleAssumption /\ MP6_Console!ConsoleAssumption
  /\ MP7_Console!ConsoleAssumption

\* Every kernel has stacks and exceptions as ContextSwitch needs them.
ASSUME StacksSuffice ==
  /\ MP3_Switch!SwitchAssumption /\ MP4_Switch!SwitchAssumption
  /\ MP5_Switch!SwitchAssumption /\ MP6_Switch!SwitchAssumption
  /\ MP7_Switch!SwitchAssumption
=============================================================================
