------------------------------ MODULE MCMemory -----------------------------
(* The memory of the first kernels, one part at a time; what a part does not *)
(* use keeps its first value. Frame pools: two adjacent ones, as main() lays *)
(* them out, the first ends where the second begins, and the second has a    *)
(* hole in the middle; memory contains anything behind the last frame of a   *)
(* pool, and one thing in all of the frames that the constructor clears. The *)
(* search of get_frames over a bitmap. Paging: in MP4 two pools whose pages  *)
(* need several page table pages, with a gap between them as between the     *)
(* code pool and the heap pool of main(); in MP3 frames and tables for some  *)
(* of the pages that are touched.                                            *)
EXTENDS PagingFrames, FrameScan, VirtualMemory, PageTable

VARIABLE part   \* "frames", "search" or "paging"

MCBase == <<4, 8>>
MCNFrames == <<4, 5>>
MCHole == <<{}, {2}>>
MCGarbage == {{}, {"used"}, {"head"}}
MCClean == {{}}

MCBasePage == <<0, 6>>
MCSize == <<4, 2>>
MCKernelPool == 1..5
MCProcessPool == 6..8
MCTouched == {6, 7, 8, 12, 18}
MCValues == {1, 2}

allVars == <<part, useVars, scanVars, vmVars, pagingVars>>

Slack == [Pools -> [4..(Entries - 1) -> Garbage]]

BitmapOf(cleared, slack) ==
  [p \in Pools |-> [f \in Slots |-> IF f \in Frames(p) THEN cleared ELSE slack[p][f]]]

NoFrames == UseInit /\ kernel = "MP2" /\ bits = [p \in Pools |-> [f \in Slots |-> {}]]
NoSearch == ScanInit /\ n = 1 /\ state = [f \in ScanSlots |-> "Free"]
NoPaging == PagingInit /\ memory = [f \in AllFrames |-> [w \in Words |-> Invalid]]

MemoryInit ==
  /\ VMInit
  /\ \/ /\ part = "frames" /\ NoSearch /\ NoPaging
        /\ \E cleared \in Garbage, slack \in Slack : bits = BitmapOf(cleared, slack)
        /\ UseInit
     \/ part = "search" /\ NoFrames /\ ScanInit /\ NoPaging
     \/ /\ part = "paging" /\ NoSearch
        /\ bits = BitmapOf({}, [p \in Pools |-> [f \in 4..(Entries - 1) |-> {}]])
        /\ UseInit
        /\ \/ kernel = "MP3" /\ PagingInit
           \/ kernel = "MP4" /\ NoPaging

MP3_paging == part = "paging" /\ kernel = "MP3"
MP4_paging == part = "paging" /\ kernel = "MP4"

MemoryNext ==
  /\ part' = part
  /\ \/ part = "frames" /\ UseNext /\ UNCHANGED <<scanVars, vmVars, pagingVars>>
     \/ part = "search" /\ ScanNext /\ UNCHANGED <<useVars, vmVars, pagingVars>>
     \/ MP3_paging /\ PagingNext /\ UNCHANGED <<useVars, scanVars, vmVars>>
     \/ MP4_paging /\ VMNext /\ UNCHANGED <<useVars, scanVars, pagingVars>>

MemorySpec ==
  /\ MemoryInit /\ [][MemoryNext]_allVars
  /\ WF_scanVars(part = "search" /\ ScanNext)
  /\ WF_vmVars(MP4_paging /\ Fault)
  /\ WF_pagingVars(MP3_paging /\ PagingCPU)

----------------------------------------------------------------------------
\* Terminates of the search: the loop of get_frames ends.
SearchEnds == part = "search" => Terminates

\* In MP4 a legitimate access completes unless frames run out (FaultsResolve),
\* in MP3 every access does (AccessesComplete).
EveryFaultResolves == FaultsResolve /\ AccessesComplete
=============================================================================
