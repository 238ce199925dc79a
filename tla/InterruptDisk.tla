--------------------------- MODULE InterruptDisk ----------------------------
(* The blocking disk of MP6 in its third build, _INTERRUPT: threads run     *)
(* with interrupts on, the disk is not polled, and the handler of IRQ 14    *)
(* that main() installs makes the waiting thread ready again. A step is     *)
(* what a thread does with interrupts off, or between two points where an   *)
(* interrupt is noticed. The variables of BlockingDisk mean the same here.  *)
EXTENDS BlockingDisk

VARIABLES
  IFlag,     \* are interrupts enabled?
  pending,   \* the drive has raised IRQ 14, and no handler has run for it
  enable     \* the locals of that name: of yield, and of read or write

interruptVars == <<IFlag, pending, enable>>

\* main() starts the first thread; every context begins with interrupts off.
InterruptInit ==
  /\ build \in {b \in Builds : ~b.safe}
  /\ current = Order[1]
  /\ ready_queue = Tail(Order)
  /\ block_queue = <<>>
  /\ pc = [t \in Threads |-> "start"]
  /\ wait_CPU = FALSE
  /\ issued = FALSE
  /\ done = TRUE
  /\ device = Idle
  /\ status = "running"
  /\ IFlag = FALSE
  /\ pending = FALSE
  /\ enable = [t \in Threads |-> [yield |-> FALSE, disk |-> FALSE]]

\* Machine::disable_interrupts and enable_interrupts under their guards: the
\* local remembers whether interrupts were on, and they come back only then.
Cli(local) == IFlag' = FALSE /\ enable' = [enable EXCEPT ![current][local] = IFlag]

\* Slip: enable_interrupts without the local's condition.
Sti_always(local) == IFlag' = TRUE /\ UNCHANGED enable

Sti(local) == IFlag' = (IFlag \/ enable[current][local]) /\ UNCHANGED enable

----------------------------------------------------------------------------
\* A new thread turns interrupts on before its function runs.
thread_start ==
  /\ At("start")
  /\ IFlag' = TRUE
  /\ GoTo("run")
  /\ UNCHANGED <<build, current, ready_queue, block_queue, wait_CPU, issued, done,
                 device, status, pending, enable>>

\* yield: whoever is first in the ready queue runs on, where it left; the
\* caller goes on at label.
InterruptYield(label) ==
  /\ Cli("yield")
  /\ GoTo(label)
  /\ IF ready_queue # <<>>
       THEN current' = Head(ready_queue) /\ ready_queue' = Tail(ready_queue)
            /\ status' = status
       ELSE status' = "assert" /\ UNCHANGED <<current, ready_queue>>
  /\ UNCHANGED <<build, block_queue, wait_CPU, issued, done, device, pending>>

\* resume and yield of pass_on_CPU; interrupts are on between the two. The
\* thread that uses the disk calls it after every read and write.
resume ==
  /\ At("wrote") \/ (At("run") /\ current \notin build.io)
  /\ ready_queue' = Append(ready_queue, current)
  /\ GoTo("passing")
  /\ UNCHANGED <<build, current, block_queue, wait_CPU, issued, done, device, status,
                 interruptVars>>

yield == At("passing") /\ InterruptYield("switched")

\* Back in yield, which turns interrupts on again if it turned them off.
yield_returns ==
  /\ pc[current] \in {"switched", "resumed"} /\ status = "running"
  /\ Sti("yield")
  /\ GoTo(IF pc[current] = "switched" THEN "run" ELSE "transfer")
  /\ UNCHANGED <<build, current, ready_queue, block_queue, wait_CPU, issued, done,
                 device, status, pending>>

----------------------------------------------------------------------------
\* read enters block_queue, issues its command and yields ...
read ==
  /\ At("run") /\ current \in build.io
  /\ Cli("disk")
  /\ block_queue' = Append(block_queue, current)
  /\ GoTo("issue")
  /\ UNCHANGED <<build, current, ready_queue, wait_CPU, issued, done, device, status,
                 pending>>

\* ... write stays out of it and waits in a loop.
write ==
  /\ At("have_read")
  /\ Cli("disk")
  /\ GoTo("issue_write")
  /\ UNCHANGED <<build, current, ready_queue, block_queue, wait_CPU, issued, done, device,
                 status, pending>>

issue_operation ==
  /\ At("issue") \/ At("issue_write")
  /\ device' = [owner |-> current, drq |-> FALSE]
  /\ issued' = TRUE
  /\ done' = FALSE
  /\ GoTo(IF At("issue") THEN "issued" ELSE "busy")
  /\ UNCHANGED <<build, current, ready_queue, block_queue, wait_CPU, status, interruptVars>>

read_yields == At("issued") /\ InterruptYield("resumed")

\* The loop of write ends when the drive takes data; its 256 words follow. The
\* drive has stored them, and raises its interrupt, by the time of the last
\* one: the code does not look whether it is still busy afterwards.
write_data ==
  /\ At("busy") /\ device.drq
  /\ device' = Idle
  /\ pending' = TRUE
  /\ wait_CPU' = FALSE
  /\ done' = TRUE
  /\ issued' = FALSE
  /\ Sti("disk")
  /\ GoTo("wrote")
  /\ UNCHANGED <<build, current, ready_queue, block_queue, status>>

read_data ==
  /\ At("transfer")
  /\ device' = Idle
  /\ wait_CPU' = FALSE
  /\ done' = TRUE
  /\ issued' = FALSE
  /\ Sti("disk")
  /\ GoTo("have_read")
  /\ UNCHANGED <<build, current, ready_queue, block_queue, status, pending>>

\* The drive has found the sector. For a read, it raises its interrupt.
RaiseIRQ ==
  /\ device.owner # Nobody /\ ~device.drq
  /\ device' = [device EXCEPT !.drq = TRUE]
  /\ pending' = (pending \/ pc[device.owner] # "busy")
  /\ UNCHANGED <<build, current, ready_queue, block_queue, pc, wait_CPU, issued, done,
                 status, IFlag, enable>>

\* An operation is under way, so somebody waits for this interrupt.
NeedsThread == ~done

\* DiskHandler::handle_interrupt, with interrupts off from gate to iret.
handle_interrupt ==
  /\ pending /\ IFlag /\ status = "running"
  /\ pending' = FALSE
  /\ IF ~NeedsThread
       THEN UNCHANGED <<block_queue, ready_queue, wait_CPU, status>>
     ELSE IF block_queue = <<>>
       THEN status' = "assert" /\ wait_CPU' = TRUE /\ UNCHANGED <<block_queue, ready_queue>>
     ELSE /\ wait_CPU' = TRUE
          /\ block_queue' = Tail(block_queue)
          /\ ready_queue' = Append(ready_queue, Head(block_queue))
          /\ status' = status
  /\ UNCHANGED <<build, current, pc, issued, done, device, IFlag, enable>>

\* The CPU takes an interrupt before its next instruction, if it may.
InterruptKernel ==
  /\ ~(pending /\ IFlag)
  /\ \/ thread_start \/ resume \/ yield \/ yield_returns
     \/ read \/ write \/ issue_operation \/ read_yields \/ write_data \/ read_data

InterruptNext == InterruptKernel \/ RaiseIRQ \/ handle_interrupt

\* The thread functions loop for ever, the drive answers every command, and
\* the CPU does not ignore an interrupt.
InterruptFairness ==
  /\ WF_<<vars, interruptVars>>(InterruptKernel)
  /\ WF_<<vars, interruptVars>>(RaiseIRQ)
  /\ WF_<<vars, interruptVars>>(handle_interrupt)

InterruptSpec ==
  InterruptInit /\ [][InterruptNext]_<<vars, interruptVars>> /\ InterruptFairness

----------------------------------------------------------------------------
\* Threads compute with interrupts on and touch the queues and the disk with
\* interrupts off, whatever path through yield, read, write or the handler
\* brought them there: a switch never leaves the next thread with the wrong
\* flag, and a thread that left with interrupts off gets them back off.
SectionsAreMasked ==
  IFlag <=> pc[current] \in {"run", "passing", "have_read", "wrote"}
=============================================================================
