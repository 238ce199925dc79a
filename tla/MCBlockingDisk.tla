--------------------------- MODULE MCBlockingDisk ---------------------------
(* The disk kernel: its class Queue by itself, and its four builds:          *)
(* thread-safe, with up to three threads that use the disk and one that      *)
(* computes; the default one, the one with interrupts and the mirrored one,  *)
(* where one thread uses it. What a part does not have keeps its first       *)
(* value.                                                                    *)
EXTENDS InterruptDisk, MirroredDisk, RingQueue

CONSTANTS t1, t2, t3, t4, b1, b2

VARIABLE kind   \* "queue", or which scheduler and disk were compiled

MCThreads == {t1, t2, t3, t4}
MCOrder == <<t1, t2, t3, t4>>
MCBuilds == {[safe |-> TRUE, io |-> {t2, t3, t4}], [safe |-> TRUE, io |-> {t2, t3}],
             [safe |-> FALSE, io |-> {t2}]}
MCBlocks == {b1, b2}
MCQueueThreads == {t1, t2, t3}

Uninterrupted ==
  /\ IFlag = FALSE /\ pending = FALSE
  /\ enable = [t \in Threads |-> [yield |-> FALSE, disk |-> FALSE]]
Unmirrored ==
  /\ selected = "MASTER" /\ command = [d \in Drives |-> NoCommand]
  /\ latest = [b \in Blocks |-> 0] /\ contents = [d \in Drives |-> latest]
  /\ resumed = FALSE /\ request = [block |-> b1, buf |-> 0]

allVars == <<vars, interruptVars, mirrorVars, ringVars, kind>>

AllInit ==
  /\ RingInit
  /\ \/ kind = "polling" /\ Init /\ Uninterrupted /\ Unmirrored
     \/ kind = "interrupt" /\ InterruptInit /\ Unmirrored
     \/ kind = "mirrored" /\ MirrorInit /\ Uninterrupted
     \/ /\ kind = "queue" /\ Init /\ Uninterrupted /\ Unmirrored
        /\ build = CHOOSE c \in Builds : TRUE

DiskNext ==
  \/ kind = "polling" /\ Next /\ UNCHANGED <<interruptVars, mirrorVars>>
  \/ kind = "interrupt" /\ InterruptNext /\ UNCHANGED mirrorVars
  \/ kind = "mirrored" /\ MirrorNext /\ UNCHANGED interruptVars

AllNext ==
  /\ UNCHANGED kind
  /\ \/ DiskNext /\ UNCHANGED ringVars
     \/ kind = "queue" /\ RingNext /\ UNCHANGED <<vars, interruptVars, mirrorVars>>

AllSpec ==
  /\ AllInit /\ [][AllNext]_allVars
  /\ kind = "polling" => WF_vars(Kernel) /\ WF_vars(RaiseDRQ)
  /\ kind = "interrupt" => InterruptFairness
  /\ kind = "mirrored" => MirrorFairness

----------------------------------------------------------------------------
\* SectionsAreMasked of the build it is about: interrupts are on exactly while
\* a thread computes, whichever way it came back from a switch.
MaskedSections == kind = "interrupt" => SectionsAreMasked

\* MirrorsAgree of the build it is about: between calls both drives hold what
\* was last written.
MirrorsHoldLatest == kind = "mirrored" => MirrorsAgree

\* OperationsComplete of the builds: every read and write completes, whatever
\* the other threads do with the disk, and every thread gets the CPU again.
OperationsEnd == kind # "queue" => OperationsComplete
=============================================================================
