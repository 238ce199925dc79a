------------------------------ MODULE MCKernel -----------------------------
(* One kernel and one of its parts at a time. The first two kernels have a   *)
(* screen only; what a kernel does not have keeps its first value.           *)
EXTENDS Kernels

VARIABLE kernel   \* which kernel was built

allVars == <<kernel, part, screenVars, cpuVars, machineVars>>

Without == MP3_Switch!Init /\ MP3_Platform!Init

KernelInit ==
  \/ kernel = 1 /\ MP1_Console!ConsoleInit /\ Without /\ part = "screen"
  \/ kernel = 2 /\ MP2_Console!ConsoleInit /\ Without /\ part = "screen"
  \/ /\ part \in {"screen", "CPU", "machine"}
     /\ \/ kernel = 3 /\ MP3_Console!ConsoleInit /\ MP3_Switch!Init /\ MP3_Platform!Init
        \/ kernel = 4 /\ MP4_Console!ConsoleInit /\ MP4_Switch!Init /\ MP4_Platform!Init
        \/ kernel = 5 /\ MP5_Console!ConsoleInit /\ MP5_Switch!Init /\ MP5_Platform!Init
        \/ kernel = 6 /\ MP6_Console!ConsoleInit /\ MP6_Switch!Init /\ MP6_Platform!Init
        \/ kernel = 7 /\ MP7_Console!ConsoleInit /\ MP7_Switch!Init /\ MP7_Platform!Init

KernelNext ==
  /\ \/ kernel = 1 /\ MP1_Next
     \/ kernel = 2 /\ MP2_Next
     \/ kernel = 3 /\ MP3_Next
     \/ kernel = 4 /\ MP4_Next
     \/ kernel = 5 /\ MP5_Next
     \/ kernel = 6 /\ MP6_Next
     \/ kernel = 7 /\ MP7_Next
  /\ kernel' = kernel

\* The CPU of the machine that boots.
KernelCPU ==
  part = "machine" /\ \/ kernel = 3 /\ MP3_Platform!CPU
                      \/ kernel = 4 /\ MP4_Platform!CPU
                      \/ kernel = 5 /\ MP5_Platform!CPU
                      \/ kernel = 6 /\ MP6_Platform!CPU
                      \/ kernel = 7 /\ MP7_Platform!CPU

\* Fairness of Platform: the timer is the same in all kernels.
KernelSpec ==
  /\ KernelInit /\ [][KernelNext]_allVars
  /\ WF_machineVars(KernelCPU)
  /\ WF_machineVars(part = "machine" /\ MP3_Platform!TimerFires)

----------------------------------------------------------------------------
\* The screen shows the last lines of what was printed, with every scroll that
\* knows the length of a line: all but that of MP1.
LaterScreensShowLastLines == kernel # 1 => ShowsLastLines

\* The same of MP1, whose scroll is meant to move the text "back in the buffer by
\* a line", too (MP1/console.C:75).
FirstScreenShowsLastLines == kernel = 1 => ShowsLastLines

\* The timer of MP6 is served for ever: interrupts are enabled correctly, or the
\* timer would die (MP6/kernel.C:306).
TimerOfThreadsLives == (kernel = 6 /\ 0 \in requested) ~> (0 \notin requested)

\* RequestsServed of Platform, except where threads run with interrupts off
\* for ever (MP6), and ClockRuns where SimpleTimer has no thread either.
InterruptsServed ==
  /\ \A n \in {0, 1, 14} : (kernel # 6 /\ n \in requested) ~> (n \notin requested)
  /\ \A s \in 0..1 : (part = "machine" /\ kernel \in {3, 4, 7} /\ timer.seconds = s)
                        ~> (timer.seconds # s)

\* KeyEndsWait of Platform, for the kernel whose main() waits for a key.
KeyEndsWait == MP3_Platform!KeyEndsWait
=============================================================================
