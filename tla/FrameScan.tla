----------------------------- MODULE FrameScan -----------------------------
(* The search loop of ContFramePool::get_frames, one test of a bitmap entry *)
(* at a time. FramePool takes the first fit in one step; this module shows  *)
(* that the loop, which jumps past the entry that stopped it, finds it.     *)
EXTENDS Integers

CONSTANTS
  n_frames,     \* frames of the pool
  ScanEntries,  \* entries of its bitmap
  ScanRequests  \* bound on the argument of get_frames

ASSUME ScanAssumption ==
  /\ n_frames \in Nat \ {0}
  /\ ScanRequests \in Nat \ {0}
  /\ ScanEntries \in Nat
  /\ n_frames + ScanRequests <= ScanEntries

ScanSlots == 0..(ScanEntries - 1)
FrameState == {"Free", "Used", "HoS"}

VARIABLES
  state,     \* the state of every entry
  before,    \* the same when get_frames was called
  n,         \* _n_frames
  frame_no,  \* the outer loop's candidate
  i,         \* the inner loop's offset; 0 while no candidate is under test
  pc,        \* "outer", "inner", "mark", "found" or "failed"
  result     \* what get_frames returns, relative to the base frame

scanVars == <<state, before, n, frame_no, i, pc, result>>
Searching == {"outer", "inner", "mark"}

ScanInit ==
  /\ state \in [ScanSlots -> FrameState]
  /\ before = state
  /\ n \in 1..ScanRequests
  /\ frame_no = 0
  /\ i = 0
  /\ pc = "outer"
  /\ result = -1

\* The outer loop's condition.
InPool == frame_no < n_frames

\* Slips: the jump skips an untested entry, or stays where it is.
Jump_too_far == frame_no + i + 2
Jump_nowhere == frame_no

\* Where the search goes on after the entry at offset i turned out taken.
Jump == frame_no + i + 1

\* The outer loop tests its candidate, or runs off the end of the pool.
TestCandidate ==
  /\ pc = "outer" /\ InPool
  /\ IF state[frame_no] = "Free"
       THEN pc' = "inner" /\ i' = 1 /\ UNCHANGED frame_no
       ELSE frame_no' = frame_no + 1 /\ UNCHANGED <<pc, i>>
  /\ UNCHANGED <<state, before, n, result>>

ScanFails ==
  /\ pc = "outer" /\ ~InPool
  /\ pc' = "failed"
  /\ UNCHANGED <<state, before, n, frame_no, i, result>>

\* The inner loop tests the next entry; one that is taken moves the candidate
\* past it.
TestNext ==
  /\ pc = "inner" /\ i < n
  /\ IF state[frame_no + i] = "Free"
       THEN i' = i + 1 /\ UNCHANGED <<frame_no, pc>>
       ELSE frame_no' = Jump /\ i' = 0 /\ pc' = "outer"
  /\ UNCHANGED <<state, before, n, result>>

RunFound ==
  /\ pc = "inner" /\ i >= n
  /\ pc' = "mark" /\ i' = 0
  /\ UNCHANGED <<state, before, n, frame_no, result>>

\* The marking loop, and the return when it is done.
MarkNext ==
  /\ pc = "mark" /\ i < n
  /\ state' = [state EXCEPT ![frame_no + i] = IF i = 0 THEN "HoS" ELSE "Used"]
  /\ i' = i + 1
  /\ UNCHANGED <<before, n, frame_no, pc, result>>

ScanReturns ==
  /\ pc = "mark" /\ i >= n
  /\ pc' = "found"
  /\ result' = frame_no
  /\ UNCHANGED <<state, before, n, frame_no, i>>

ScanDone == pc \in {"found", "failed"} /\ UNCHANGED scanVars

ScanNext == TestCandidate \/ ScanFails \/ TestNext \/ RunFound \/ MarkNext \/ ScanReturns \/ ScanDone

ScanSpec == ScanInit /\ [][ScanNext]_scanVars /\ WF_scanVars(ScanNext)

----------------------------------------------------------------------------
\* The loop variables stay in range; no entry outside the bitmap is read.
ScanTypeOK ==
  /\ state \in [ScanSlots -> FrameState]
  /\ before \in [ScanSlots -> FrameState]
  /\ n \in 1..ScanRequests
  /\ frame_no \in 0..(n_frames + ScanRequests)
  /\ i \in 0..n
  /\ pc \in Searching \union {"found", "failed"}
  /\ result \in -1..(n_frames - 1)
  /\ pc \in {"inner", "mark", "found"} => frame_no < n_frames

FitsAt(f) == \A k \in f..(f + n - 1) : before[k] = "Free"

\* The bitmap with the m entries from f on marked as one allocation.
Marked(f, m) ==
  [k \in ScanSlots |-> IF k \notin f..(f + m - 1) THEN before[k]
                   ELSE IF k = f THEN "HoS" ELSE "Used"]

\* get_frames returns the first fit and marks exactly that run, or it fails,
\* changes nothing, and no run of n Free entries starts in the pool.
FirstFit ==
  /\ pc = "found" =>
       /\ FitsAt(result)
       /\ \A f \in 0..(result - 1) : ~FitsAt(f)
       /\ state = Marked(result, n)
  /\ pc = "failed" =>
       /\ state = before
       /\ \A f \in 0..(n_frames - 1) : ~FitsAt(f)

\* The search ends: the loop has no increment of its own, and every path
\* through its body must advance it.
Terminates == <>(pc \in {"found", "failed"})

----------------------------------------------------------------------------
\* The loop invariant behind FirstFit: candidates already passed do not fit,
\* the entries tested since are Free, and the entries marked are those below i.
LoopInvariant ==
  /\ \A f \in 0..(frame_no - 1) : f < n_frames => ~FitsAt(f)
  /\ pc = "outer" => i = 0
  /\ pc = "inner" => i >= 1 /\ \A k \in frame_no..(frame_no + i - 1) : before[k] = "Free"
  /\ pc \in {"mark", "found"} => FitsAt(frame_no)
  /\ pc = "failed" => frame_no >= n_frames
  /\ pc \in {"outer", "inner", "failed"} => state = before
  /\ pc = "found" => i = n /\ result = frame_no
  /\ pc \in {"mark", "found"} =>
       state = Marked(frame_no, i)
=============================================================================
