---------------------------- MODULE MirroredDisk ----------------------------
(* The mirrored disk of MP6 (_MIRRORED_DISK): a write goes to one drive and *)
(* then to the other, a read is asked of both, and both answer through one  *)
(* set of ports, which shows the drive that was selected last. One thread   *)
(* uses the disk. The threads and their queues are those of BlockingDisk;   *)
(* the flags and the drive of BlockingDisk stay as they are.                *)
EXTENDS BlockingDisk

CONSTANTS
  Blocks,   \* block numbers
  Values    \* what a block can hold

Drives == {"MASTER", "DEPENDENT"}
NoCommand == [op |-> "none", block |-> CHOOSE b \in Blocks : TRUE, drq |-> FALSE]

VARIABLES
  selected,   \* the drive whose status and data the ports show
  command,    \* what every drive executes
  contents,   \* what is on every drive
  resumed,    \* wait_CPU of the MirroredDisk
  request,    \* the block number, and the buffer, of the thread's call
  latest      \* for the properties: what was last written to every block

mirrorVars == <<selected, command, contents, resumed, request, latest>>
diskOfOthers == <<build, wait_CPU, issued, done, device>>

\* The images on the two drives are equal when the kernel starts.
MirrorInit ==
  /\ build \in {b \in Builds : ~b.safe}
  /\ current = Order[1]
  /\ ready_queue = Tail(Order)
  /\ block_queue = <<>>
  /\ pc = [t \in Threads |-> "run"]
  /\ wait_CPU = FALSE /\ issued = FALSE /\ done = TRUE /\ device = Idle
  /\ status = "running"
  /\ selected = "MASTER"
  /\ command = [d \in Drives |-> NoCommand]
  /\ latest \in [Blocks -> Values]
  /\ contents = [d \in Drives |-> latest]
  /\ resumed = FALSE
  /\ request \in [block : Blocks, buf : Values]

----------------------------------------------------------------------------
\* Slip: any drive that is ready will do.
is_ready_any == \E d \in Drives : command[d].drq

\* is_ready reads the status of the drive that is selected.
is_ready == command[selected].drq

\* Scheduler::yield over the mirrored disk, called with these two queues.
MirrorYield(ready, blocked) ==
  LET polled == is_ready /\ blocked # <<>> /\ ~resumed
      queue == IF polled THEN Append(ready, Head(blocked)) ELSE ready
  IN  /\ block_queue' = IF polled THEN Tail(blocked) ELSE blocked
      /\ resumed' = (resumed \/ polled)
      /\ IF queue # <<>>
           THEN current' = Head(queue) /\ ready_queue' = Tail(queue) /\ status' = status
           ELSE status' = "assert" /\ UNCHANGED <<current, ready_queue>>

\* The thread that computes, and the one that uses the disk, between calls.
mirror_pass_on_CPU ==
  /\ At("run")
  /\ MirrorYield(Append(ready_queue, current), block_queue)
  /\ UNCHANGED <<pc, selected, command, contents, request, latest, diskOfOthers>>

\* issue_operation selects the drive, which forgets what it was doing.
mirror_issue_operation(op, b, d) ==
  /\ command' = [command EXCEPT ![d] = [op |-> op, block |-> b, drq |-> FALSE]]
  /\ selected' = d

\* read: first to MASTER ...
mirror_read ==
  /\ At("run") /\ current \in build.io
  /\ \E b \in Blocks :
       /\ request' = [request EXCEPT !.block = b]
       /\ mirror_issue_operation("read", b, "MASTER")
  /\ GoTo("read_dependent")
  /\ UNCHANGED <<current, ready_queue, block_queue, status, contents, resumed, latest,
                 diskOfOthers>>

\* ... then to DEPENDENT.
read_dependent ==
  /\ At("read_dependent")
  /\ mirror_issue_operation("read", request.block, "DEPENDENT")
  /\ GoTo("read_wait")
  /\ UNCHANGED <<current, ready_queue, block_queue, status, contents, resumed, request,
                 latest, diskOfOthers>>

\* Slip: both halves go to the same drive.
second_drive_first == "MASTER"

\* The drive that the second half of a write goes to.
second_drive == "DEPENDENT"

\* write, and _wtite for MASTER.
mirror_write ==
  /\ At("run") /\ current \in build.io
  /\ \E b \in Blocks, v \in Values :
       /\ request' = [block |-> b, buf |-> v]
       /\ latest' = [latest EXCEPT ![b] = v]
       /\ mirror_issue_operation("write", b, "MASTER")
  /\ GoTo("master_wait")
  /\ UNCHANGED <<current, ready_queue, block_queue, status, contents, resumed,
                 diskOfOthers>>

\* wait_until_ready: the caller enters block_queue and yields.
Resumes == [read_wait |-> "read_data", master_wait |-> "master_data",
            dependent_wait |-> "dependent_data"]
wait_until_ready ==
  /\ status = "running" /\ pc[current] \in DOMAIN Resumes
  /\ MirrorYield(ready_queue, Append(block_queue, current))
  /\ GoTo(Resumes[pc[current]])
  /\ UNCHANGED <<selected, command, contents, request, latest, diskOfOthers>>

\* What one pass over the data port moves: a drive that is not ready gives
\* anything, and takes nothing.
Received(v) ==
  IF command[selected].drq THEN v = contents[selected][command[selected].block] ELSE v \in Values
Stored ==
  IF command[selected].drq THEN [contents EXCEPT ![selected][command[selected].block] = request.buf]
  ELSE contents

mirror_read_data ==
  /\ At("read_data")
  /\ \E v \in Values : Received(v) /\ request' = [request EXCEPT !.buf = v]
  /\ command' = [command EXCEPT ![selected] = NoCommand]
  /\ resumed' = FALSE
  /\ GoTo("run")
  /\ UNCHANGED <<current, ready_queue, block_queue, status, selected, contents, latest,
                 diskOfOthers>>

\* The words for MASTER, and the command for the other drive.
master_data ==
  /\ At("master_data")
  /\ contents' = Stored
  /\ resumed' = FALSE
  /\ mirror_issue_operation("write", request.block, second_drive)
  /\ GoTo("dependent_wait")
  /\ UNCHANGED <<current, ready_queue, block_queue, status, request, latest, diskOfOthers>>

dependent_data ==
  /\ At("dependent_data")
  /\ contents' = Stored
  /\ command' = [command EXCEPT ![selected] = NoCommand]
  /\ resumed' = FALSE
  /\ GoTo("run")
  /\ UNCHANGED <<current, ready_queue, block_queue, status, selected, request, latest,
                 diskOfOthers>>

\* A drive is ready for the data of its command, in its own time.
DriveReady(d) ==
  /\ command[d].op # "none" /\ ~command[d].drq
  /\ command' = [command EXCEPT ![d].drq = TRUE]
  /\ UNCHANGED <<current, ready_queue, block_queue, pc, status, selected, contents,
                 resumed, request, latest, diskOfOthers>>

MirrorKernel ==
  \/ mirror_pass_on_CPU \/ mirror_read \/ read_dependent \/ mirror_write
  \/ wait_until_ready \/ mirror_read_data \/ master_data \/ dependent_data

MirrorNext == MirrorKernel \/ \E d \in Drives : DriveReady(d)

MirrorFairness ==
  /\ WF_<<vars, mirrorVars>>(MirrorKernel)
  /\ \A d \in Drives : WF_<<vars, mirrorVars>>(DriveReady(d))

----------------------------------------------------------------------------
\* When no call of the disk is under way, both drives hold what was last
\* written to every block: the second half of a write neither goes to the
\* wrong drive, nor is lost because the other drive was ready first.
MirrorsAgree ==
  (\A t \in build.io : pc[t] = "run") =>
    \A d \in Drives, b \in Blocks : contents[d][b] = latest[b]

\* A read returns what was last written to its block, although two drives
\* answer it, the ports show only one of them, and the other is left with its
\* answer when the next command comes.
ReadsReturnLatest ==
  [][(\E t \in build.io : pc[t] = "read_data" /\ pc'[t] = "run")
       => request'.buf = latest[request.block]]_<<vars, mirrorVars>>
=============================================================================
