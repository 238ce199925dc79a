------------------------------ MODULE CPUState ------------------------------
(* The CPU and the stacks of the threads, and what must be true of them:     *)
(* whoever goes on finds the CPU that it left, and every return finds an     *)
(* address. ContextSwitch has the steps.                                     *)
EXTENDS Integers, Sequences

\* What a word can be.
Junk == <<"junk", "junk">>
Zero == <<"zero", "zero">>
ErrorCode == <<"error", "error">>
Selector(s) == <<"selector", s>>
Flags(on) == <<"eflags", on>>
Address(label) == <<"address", label>>
Value(t, r) == <<"value", t, r>>
Pointer(t) == <<"pointer", t>>
Number(n) == <<"number", n>>

\* The order in which pushad and the segment pushes save the registers.
Pushed == <<"eax", "ecx", "edx", "ebx", "esp", "ebp", "esi", "edi", "ds", "es", "fs", "gs">>
Registers == {Pushed[i] : i \in 1..12}
Segments == {"ds", "es", "fs", "gs"}

VARIABLES
  running,   \* current_thread; none while main() runs
  mem,       \* the stack of every thread, in the order of its addresses
  esp,       \* the word the stack pointer points to
  saved,     \* esp at offset 0 of every Thread
  regs,      \* the general and segment registers
  eip,       \* the instruction the CPU has reached
  ints,      \* the interrupt flag, "on" or "off"
  gone,      \* threads that have terminated
  left       \* for the properties: the CPU every thread will have to find when
             \* it goes on, once per frame that waits on its stack, last first,
             \* with the number of the interrupt or exception that made it

cpuVars == <<running, mem, esp, saved, regs, eip, ints, gone, left>>

At(label) == eip = Address(label)

\* What a thread finds when it goes on here with these registers.
Context(values, place, on, p) ==
  [regs |-> [r \in Registers \ {"esp"} |-> values[r]], eip |-> place, ints |-> on, esp |-> p]

\* int_no and err_code as the dispatchers read them through the pointer.
int_no == mem[running][esp + 14]
err_code == mem[running][esp + 15]

----------------------------------------------------------------------------
\* Whenever a frame is popped, the code it belongs to finds exactly the CPU
\* that was left there: registers, stack pointer, place and interrupt flag,
\* whether a switch by itself, an interrupt, an exception with or without an
\* error code, an interrupt in the tail of another one, or setup_context made
\* the frame.
ContextsRestored ==
  [][\A c \in DOMAIN left : Len(left'[c]) < Len(left[c]) =>
       Head(left[c]).cpu = Context(regs', eip', ints', esp')]_cpuVars

\* Every return, from the first iret of a thread to the return of its function
\* into thread_shutdown, finds an address of code on the stack, and the
\* dispatchers find the number of what occurred where they look for it.
FramesWellFormed ==
  /\ eip[1] = "address"
  /\ At("dispatch") => int_no = Number(Head(left[running]).number)
=============================================================================
