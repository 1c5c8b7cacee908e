------------------------------ MODULE MCImages ------------------------------
(***************************************************************************)
(* Instances of Images for TLC: an address space of 18 bytes in pages of   *)
(* 2, with boot_param below mem_block, which ends on no page boundary.     *)
(***************************************************************************)
EXTENDS Images

(* Files of up to more than half of mem_block: reloading one makes the     *)
(* space of load.c wrap.  The small and the large one fill mem_block; that *)
(* leaves no room for the rounding if the initrd is the small one.  The    *)
(* huge one is larger than the address of the end of mem_block.            *)
LargeFiles == {"dtb", "small", "large", "huge"}
LargeSize == [dtb |-> 1, small |-> 2, large |-> 7, huge |-> 15]

(* No file is larger than a third of mem_block (SmallImages, which is for  *)
(* any layout, asks for the rounding of two pages less than that).         *)
SmallFiles == {"dtb", "empty", "small", "medium"}
SmallSize == [dtb |-> 1, empty |-> 0, small |-> 2, medium |-> 3]

(* fread fails at once, stops at the first byte, or delivers the file.     *)
NoneOneAll(size) == [f \in DOMAIN size |-> {0, size[f]} \cup {IF size[f] > 0 THEN 1 ELSE 0}]
LargeReads == NoneOneAll(LargeSize)
SmallReads == NoneOneAll(SmallSize)

Layout(m, b) == [mem_block |-> m, boot_param |-> b]
MCMemBlock == [start |-> 4, size |-> 9]
MCBootParam == [start |-> 2, size |-> 2]
MCLayouts == {Layout(MCMemBlock, MCBootParam)}

(* Either allocation, or both, may fail. *)
MCLayoutsOrNone == {Layout(m, b) : m \in {MCMemBlock, NoBlock},
                                   b \in {MCBootParam, NoBlock}}
=============================================================================
