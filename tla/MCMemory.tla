------------------------------ MODULE MCMemory ------------------------------
(***************************************************************************)
(* Instances of Memory for TLC: an increment of 4 bytes for 64 KB and an   *)
(* alignment of 2 for 8, in a heap with up to two blocks of the OS.        *)
(***************************************************************************)
EXTENDS Memory

OsBlock == [start : {5, 6, 12, 14}, size : {1, 2}]
MCOsBlocks ==
  {{}} \cup {{b} : b \in OsBlock}
       \cup {{b, c} : <<b, c>> \in {p \in OsBlock \X OsBlock :
                                      p[1].start + p[1].size <= p[2].start}}
=============================================================================
