------------------------------- MODULE MCAtag -------------------------------
(***************************************************************************)
(* Instances of Atag for TLC: every combination of the optional tags, with *)
(* command lines of every length around a word and a buffer that the       *)
(* longest list fills to the last word.                                    *)
(***************************************************************************)
EXTENDS Atag

MCCmdlineMax == 6
Cmdline(n) == [i \in 1 .. n |-> 96 + i]

MCSettings ==
  [phys          : [start : {268435456}, size : {0, 33554432}],
   cmdline       : {Cmdline(n) : n \in 0 .. MCCmdlineMax},
   initrd_loaded : BOOLEAN,
   initrd        : {[addr |-> 4096, size |-> 2048]},
   ramdisk_size  : {0, 8192},
   serialnr      : {<<11, 12>>},
   rev           : {0, 1}]
=============================================================================
