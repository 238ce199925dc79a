---------------------------- MODULE MCFileSystem ----------------------------
(* Four blocks besides the reserved ones: either two files of one data      *)
(* block, and none is left to grow into, or one file of two data blocks,    *)
(* and too few are left to create the other.                                *)
EXTENDS FileSystem, TLC

CONSTANTS f1, f2, x, y

MCIds == {f1, f2}
MCValues == {x, y}
Symmetric == Permutations(MCIds) \union Permutations(MCValues)
=============================================================================
