---------------------------- MODULE MachineState ---------------------------
(* The machine that boots and takes interrupts: its state, which Platform    *)
(* moves for one main() and Kernels for each of the kernels, and what must   *)
(* hold of it whichever kernel runs.                                         *)

VARIABLES
  pc,         \* the step of main()
  ready,      \* what has been set up
  gates,      \* the interrupt descriptor table
  base,       \* the vectors at which the controllers' lines start
  requested,  \* interrupt lines that have been raised
  inService,  \* lines delivered and not yet acknowledged, 2 for the cascade
  flag,       \* the interrupt flag, IF
  irqHandler, excHandler, \* the two handler tables
  current,    \* current_thread, or "main"
  frames,     \* the interrupts and switches on every stack, the last one first
  timer,      \* the timer's ticks, its seconds modulo 2, and hz, 0 before it is constructed
  rested,     \* has code other than a handler run since the last tick?
  keyboard,   \* the data port, key_pressed and whether wait() is waiting
  events,     \* key and disk events so far
  failure     \* why the machine has stopped, or "none"

----------------------------------------------------------------------------
\* Whatever interrupt comes at whatever moment of the boot and afterwards, every
\* step finds what it needs, and every interrupt and page fault its handler.
KernelSurvives == failure = "none"

\* Whenever interrupts are on, the controllers wait for no end of interrupt, so
\* no line is blocked: also after handlers that switch threads and those that
\* acknowledge twice.
NoneBlocked == flag => inService = {}
=============================================================================
