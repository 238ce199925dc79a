------------------------------ MODULE FrameSet -----------------------------
(* What the page tables of MP3 and MP4 take a frame pool for: a set of free *)
(* frames. A request gets the lowest one, a release gives exactly the       *)
(* released one back, and reserved frames never come up. Modules PageTable  *)
(* and VirtualMemory take frames from such sets.                            *)
EXTENDS Integers

CONSTANTS
  NPools,   \* number of pools
  NFrames,  \* [1..NPools -> Nat]: frames of every pool
  Hole      \* [1..NPools -> SUBSET Nat]: frames main() withholds

VARIABLES
  free,     \* the free frames of every pool
  taken     \* the frames somebody has got: their pools and numbers

vars == <<free, taken>>

Pools == 1..NPools

Init ==
  /\ free = [p \in Pools |-> {}]
  /\ taken = {}

\* A pool comes with all of its frames; the first one stores its own bitmap in
\* the lowest.
Open(p) ==
  /\ free[p] = {}
  /\ free' = [free EXCEPT ![p] = (0..(NFrames[p] - 1)) \ (IF p = 1 THEN {0} ELSE {})]
  /\ taken' = taken

Withhold(p) ==
  /\ free' = [free EXCEPT ![p] = @ \ Hole[p]]
  /\ taken' = taken

Get(p) ==
  \E f \in free[p] :
    /\ \A g \in free[p] : f <= g
    /\ free' = [free EXCEPT ![p] = @ \ {f}]
    /\ taken' = taken \union {<<p, f>>}

Release(p, f) ==
  /\ <<p, f>> \in taken
  /\ free' = [free EXCEPT ![p] = @ \union {f}]
  /\ taken' = taken \ {<<p, f>>}

Next ==
  \E p \in Pools :
    \/ Open(p) \/ Withhold(p) \/ Get(p)
    \/ \E f \in 0..(NFrames[p] - 1) : Release(p, f)

Spec == Init /\ [][Next]_vars
=============================================================================
