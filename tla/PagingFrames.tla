---------------------------- MODULE PagingFrames ---------------------------
(* How three kernels use their frame pools. The tests of MP2 take runs of   *)
(* any length and release them in any order. The paging of MP3 takes single *)
(* frames of both of its pools and keeps them. The paging of MP4 takes      *)
(* single frames of the process pool, which is the last one, keeps the      *)
(* first two (the page directory and the table of the first pages) and      *)
(* releases others. Each kernel has its own copy of cont_frame_pool.C.      *)
EXTENDS FramePool

VARIABLE kernel

useVars == <<kernel, vars>>

Kernels == {"MP2", "MP3", "MP4"}

UseInit == kernel \in Kernels /\ Init

MP3_ContFramePool == \E p \in Pools : Construct(p)
MP3_mark_inaccessible == \E p \in Constructed : MarkInaccessible(p)
MP3_get_frames ==
  \/ \E p \in Pools : AllocateInfo(p)
  \/ \E p \in Usable : GetFrames(p, 1) \/ AssertFree(p, 1)

MP3_Next == ~aborted /\ (MP3_ContFramePool \/ MP3_mark_inaccessible \/ MP3_get_frames)

MP4_ContFramePool == \E p \in Pools : Construct(p)
MP4_mark_inaccessible == \E p \in Constructed : MarkInaccessible(p)
MP4_get_frames ==
  \/ \E p \in Pools : AllocateInfo(p)
  \/ NPools \in Usable /\ (GetFrames(NPools, 1) \/ AssertFree(NPools, 1))

\* Slip: no frame is kept.
KeptForever_none(a) == FALSE

\* One of the first two frames: at most one allocation lies below it.
KeptForever(a) ==
  \A b, c \in held :
    b.pool = a.pool /\ b.first < a.first /\ c.pool = a.pool /\ c.first < a.first => b = c

\* free_page releases the frame of a page.
MP4_release_frames ==
  \E a \in held \ pinned : a.pool = NPools /\ ~KeptForever(a) /\ ReleaseFrames(a)

MP4_Next ==
  ~aborted /\ (MP4_ContFramePool \/ MP4_mark_inaccessible \/ MP4_get_frames \/ MP4_release_frames)

UseNext ==
  /\ kernel' = kernel
  /\ \/ kernel = "MP2" /\ Next
     \/ kernel = "MP3" /\ (MP3_Next \/ Halted)
     \/ kernel = "MP4" /\ (MP4_Next \/ Halted)

UseSpec == UseInit /\ [][UseNext]_useVars

----------------------------------------------------------------------------
FreeFrames(p) == {f \in Frames(p) : p \in Constructed /\ get_state(p, f) = "Free"}

FS == INSTANCE FrameSet
        WITH free <- [p \in Pools |-> FreeFrames(p)],
             taken <- {<<a.pool, a.first>> : a \in held}

\* In the kernels that page, a pool is a set of frames: what one request gets
\* is the lowest free frame and nothing else changes hands, and a release
\* reaches the pool the frame came from and makes that frame free, only that
\* one, although release_frame goes on through the marks behind it and a
\* neighbouring pool may claim the frame.
FramesAreASet ==
  /\ kernel # "MP2" => FS!Init
  /\ [][kernel # "MP2" => FS!Next]_(FS!vars)
=============================================================================
