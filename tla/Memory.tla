------------------------------- MODULE Memory -------------------------------
(***************************************************************************)
(* How the loader gets its memory: alloc_memory, max_malloc and            *)
(* free_memory of memory.c, and the buffer update_fdt of fdt.c allocates   *)
(* at the first boot with a DTB.                                           *)
(*                                                                         *)
(* The heap belongs to the calculator's OS, which has blocks of its own in *)
(* it.  The C library's allocator is external: it never fails while a gap  *)
(* is large enough, and places a block either in the first such gap or,    *)
(* when first_fit is FALSE, anywhere.  live is its own record of what the  *)
(* loader holds; the loader only knows the pointers it was given.          *)
(*                                                                         *)
(* Each call of the allocator is an action: between two of them the code   *)
(* holds pointers that realloc may have moved.                             *)
(***************************************************************************)
EXTENDS Words, FiniteSets

CONSTANTS
  HeapStart, HeapEnd,   \* the heap is HeapStart .. HeapEnd - 1
  OsBlocks,             \* the sets of blocks the OS can have in it
  INC_BLOCK_SIZE,       \* memory.c
  MAX_BOOT_PARAM_SIZE,  \* memory.h
  FDT_SIZE_MAX,         \* fdt.h; also what max_malloc reserves, 64 * 1024
  FdtAlign              \* the alignment of libfdt, 8

ASSUME HeapAssumption ==
  /\ HeapStart \in Word \ {NULL}
  /\ HeapEnd \in Word
  /\ HeapEnd + INC_BLOCK_SIZE < WordSize
  /\ HeapEnd + FDT_SIZE_MAX < WordSize
  /\ HeapStart <= HeapEnd
  /\ \A os \in OsBlocks :
       os \subseteq {b \in Block : b.start + b.size <= HeapEnd}

ASSUME SizesAssumption ==
  /\ INC_BLOCK_SIZE \in Nat \ {0}
  /\ FDT_SIZE_MAX \in Nat \ {0}
  /\ FDT_SIZE_MAX % INC_BLOCK_SIZE = 0
  /\ MAX_BOOT_PARAM_SIZE \in Nat \ {0}
  /\ FdtAlign \in Nat \ {0}

VARIABLES
  first_fit,   \* whether the allocator takes the first gap that fits
  pc,          \* where alloc_memory is, or "prompt"
  os,          \* the blocks of the OS
  live,        \* the blocks of the loader, as the allocator knows them
  boot_param,  \* settings.boot_param
  mem_block,   \* settings.mem_block
  ptr,         \* the locals of max_malloc
  curr_size,
  fdt          \* the static pointer of update_fdt

vars == <<first_fit, pc, os, live, boot_param, mem_block, ptr, curr_size, fdt>>

Steps == {"boot_param", "grow", "reserve", "mem_block", "prompt"}

-----------------------------------------------------------------------------
(* The allocator.  Starts(n, busy) are the addresses a block of n bytes    *)
(* can have among the busy blocks; a failed call returns NoBlock.          *)
Starts(n, busy) ==
  {a \in HeapStart .. HeapEnd :
     /\ a + n <= HeapEnd
     /\ \A b \in busy : Disjoint([start |-> a, size |-> n], b)}

Lowest(S) == {a \in S : \A b \in S : a <= b}

Place(n, busy) ==
  LET starts == Starts(n, busy) IN
  IF starts = {} THEN {NoBlock}
  ELSE {[start |-> a, size |-> n] :
          a \in IF first_fit THEN Lowest(starts) ELSE starts}

(* A block of no bytes is the null pointer or a block nobody else has. *)
malloc(n) ==
  IF n = 0 THEN {NoBlock} \cup Place(1, os \cup live)
           ELSE Place(n, os \cup live)

BlockAt(p) == {b \in live : b.start = p}

(* realloc grows a block where it is if it can, and otherwise moves it,    *)
(* for which the new block and the old one must fit at the same time.      *)
realloc(p, n) ==
  LET grown == [start |-> p, size |-> n]
      here  == p \in Starts(n, (os \cup live) \ BlockAt(p)) IN
  CASE p = NULL         -> malloc(n)
    [] here /\ first_fit -> {grown}
    [] here /\ ~first_fit -> {grown} \cup (malloc(n) \ {NoBlock})
    [] OTHER            -> malloc(n)

Allocated(b) == IF b = NoBlock THEN {} ELSE {b}

ALIGN(p) == ((p + (FdtAlign - 1)) \div FdtAlign) * FdtAlign

-----------------------------------------------------------------------------
Init ==
  /\ first_fit \in BOOLEAN
  /\ pc = "boot_param"
  /\ os \in OsBlocks
  /\ live = {}
  /\ boot_param = NoBlock /\ mem_block = NoBlock
  /\ ptr = NULL /\ curr_size = 0
  /\ fdt = NULL

(* alloc_memory: the first free_memory frees null pointers. *)
AllocBootParam ==
  /\ pc = "boot_param"
  /\ \E b \in malloc(MAX_BOOT_PARAM_SIZE) :
       /\ boot_param' = b
       /\ live' = live \cup Allocated(b)
  /\ ptr' = NULL /\ curr_size' = 0
  /\ pc' = "grow"
  /\ UNCHANGED <<first_fit, os, mem_block, fdt>>

(* As it would be if curr_size were not added up. *)
new_size_Stuck == INC_BLOCK_SIZE
new_size == AddW(curr_size, INC_BLOCK_SIZE)

(* The loop of max_malloc. *)
Grow ==
  /\ pc = "grow"
  /\ \E tmp \in realloc(ptr, new_size) :
       IF tmp = NoBlock
       THEN /\ pc' = "reserve"
            /\ UNCHANGED <<live, ptr, curr_size>>
       ELSE /\ live' = (live \ BlockAt(ptr)) \cup {tmp}
            /\ ptr' = tmp.start
            /\ curr_size' = new_size
            /\ UNCHANGED pc
  /\ UNCHANGED <<first_fit, os, boot_param, mem_block, fdt>>

(* The reservation, with the slack for the alignment taken off as well. *)
Reserve_WithSlack ==
  /\ pc = "reserve"
  /\ live' = live \ BlockAt(ptr)
  /\ curr_size' = SubW(curr_size, FDT_SIZE_MAX + (FdtAlign - 1))
  /\ pc' = "mem_block"
  /\ UNCHANGED <<first_fit, os, boot_param, mem_block, ptr, fdt>>

(* As it would be without the reservation. *)
Reserve_Nothing ==
  /\ pc = "reserve"
  /\ live' = live \ BlockAt(ptr)
  /\ pc' = "mem_block"
  /\ UNCHANGED <<first_fit, os, boot_param, mem_block, ptr, curr_size, fdt>>

(* The reservation, before the block is freed. *)
Reserve_NoFree ==
  /\ pc = "reserve"
  /\ curr_size' = SubW(curr_size, FDT_SIZE_MAX)
  /\ pc' = "mem_block"
  /\ UNCHANGED <<first_fit, os, live, boot_param, mem_block, ptr, fdt>>

(* free(ptr), and the reservation for the FDT, which may wrap. *)
Reserve ==
  /\ pc = "reserve"
  /\ live' = live \ BlockAt(ptr)
  /\ curr_size' = SubW(curr_size, FDT_SIZE_MAX)
  /\ pc' = "mem_block"
  /\ UNCHANGED <<first_fit, os, boot_param, mem_block, ptr, fdt>>

(* *size = !!ptr ? curr_size : 0, and without the test of ptr. *)
size_Untested(p) == curr_size
size(p) == IF p # NULL THEN curr_size ELSE 0

AllocMemBlock ==
  /\ pc = "mem_block"
  /\ \E b \in malloc(curr_size) :
       /\ mem_block' = [start |-> b.start, size |-> size(b.start)]
       /\ ptr' = b.start
       /\ live' = live \cup Allocated(b)
  /\ pc' = "prompt"
  /\ UNCHANGED <<first_fit, os, boot_param, curr_size, fdt>>

(* What update_fdt asks for, and without the slack for the alignment. *)
fdt_request_NoSlack == FDT_SIZE_MAX
fdt_request == FDT_SIZE_MAX + (FdtAlign - 1)

(* update_fdt, in a boot that fails after it: the buffer is allocated once *)
(* and aligned each time.                                                  *)
AllocFdt ==
  /\ pc = "prompt"
  /\ IF fdt = NULL
     THEN \E b \in malloc(fdt_request) :
            /\ fdt' = ALIGN(b.start)
            /\ live' = live \cup Allocated(b)
     ELSE /\ fdt' = ALIGN(fdt)
          /\ UNCHANGED live
  /\ UNCHANGED <<first_fit, pc, os, boot_param, mem_block, ptr, curr_size>>

(* free_memory and the end of the process, which starts again.  Nothing    *)
(* frees the buffer of update_fdt: the OS may reclaim it or not.           *)
Exit ==
  /\ pc = "prompt"
  /\ pc' = "boot_param"
  /\ LET left == live \ (BlockAt(boot_param.start) \cup BlockAt(mem_block.start))
     IN os' \in {os, os \cup left}
  /\ live' = {}
  /\ boot_param' = NoBlock /\ mem_block' = NoBlock
  /\ ptr' = NULL /\ curr_size' = 0
  /\ fdt' = NULL
  /\ UNCHANGED first_fit

Next ==
  \/ AllocBootParam \/ Grow \/ Reserve \/ AllocMemBlock
  \/ AllocFdt \/ Exit

(* The loader runs alone: a step of alloc_memory it can take, it takes. *)
Fairness == WF_vars(AllocBootParam \/ Grow \/ Reserve \/ AllocMemBlock)

Spec == Init /\ [][Next]_vars
FairSpec == Spec /\ Fairness

-----------------------------------------------------------------------------
TypeOK ==
  /\ first_fit \in BOOLEAN
  /\ pc \in Steps
  /\ os \subseteq Block
  /\ live \subseteq Block
  /\ boot_param \in Block /\ mem_block \in Block
  /\ ptr \in Word /\ curr_size \in Word
  /\ fdt \in Word

(* max_malloc "will always be a multiple of INC_BLOCK_SIZE", also when the *)
(* reservation is taken from nothing and wraps.                            *)
Multiple == mem_block.size % INC_BLOCK_SIZE = 0

(* Every block the allocator gave the loader is one the loader knows how   *)
(* to find, and what settings says of a block is true of it: nothing leaks *)
(* when realloc moves the block, and no pointer dangles.                   *)
IsBootParam(b) == b.start = boot_param.start /\ b.size = boot_param.size
IsMemBlock(b) ==
  /\ b.start = mem_block.start
  /\ b.size = mem_block.size \/ mem_block.size = 0
IsFdt(b) ==
  /\ fdt # NULL
  /\ fdt % FdtAlign = 0
  /\ b.start <= fdt
  /\ fdt + FDT_SIZE_MAX <= b.start + b.size

Accounted ==
  pc = "prompt" =>
    /\ \A b \in live : IsBootParam(b) \/ IsMemBlock(b) \/ IsFdt(b)
    /\ boot_param.start # NULL => \E b \in live : IsBootParam(b)
    /\ mem_block.start # NULL => \E b \in live : IsMemBlock(b)
    /\ fdt # NULL => \E b \in live : IsFdt(b)

(* What Images assumes of the two blocks. *)
GoodBlocks ==
  pc = "prompt" => /\ Allocatable(boot_param) /\ Allocatable(mem_block)
                   /\ Disjoint(mem_block, boot_param)

(* The largest gap mem_block could have been put in. *)
LargestGap(busy) ==
  CHOOSE n \in 0 .. HeapEnd :
    /\ Starts(n, busy) # {}
    /\ \A m \in n + 1 .. HeapEnd : Starts(m, busy) = {}

(* max_malloc finds "the biggest contiguous section of memory possible":   *)
(* with a first-fit allocator mem_block is the largest gap, in whole       *)
(* increments, less the reservation.                                       *)
Largest ==
  first_fit /\ pc = "prompt" /\ fdt = NULL =>
    LET gap == LargestGap(os \cup Allocated(boot_param))
        incs == (gap \div INC_BLOCK_SIZE) * INC_BLOCK_SIZE IN
    mem_block.size = IF incs <= FDT_SIZE_MAX THEN 0 ELSE incs - FDT_SIZE_MAX

(* alloc_memory always reaches the prompt. *)
ReachesPrompt == []<>(pc = "prompt")

(* "Reserve some space for FDT": with a first-fit allocator FDT_SIZE_MAX   *)
(* bytes in one piece are left when there is a mem_block, wherever realloc *)
(* has moved the block meanwhile.  (update_fdt asks for FdtAlign - 1 more, *)
(* which need not be there.)                                               *)
FdtReserved ==
  first_fit /\ pc = "prompt" /\ fdt = NULL /\ mem_block.size # 0 =>
    NoBlock \notin malloc(FDT_SIZE_MAX)

=============================================================================
