---------------------------- MODULE MemoryProofs ----------------------------
(***************************************************************************)
(* Proofs about Memory, for every heap, every set of OS blocks and every   *)
(* placement the allocator may choose.                                     *)
(***************************************************************************)
EXTENDS Memory, WellFoundedInduction, TLAPS

(* A block the allocator handed out: not empty, and inside the heap.       *)
InHeap(b) ==
  /\ b \in Block
  /\ HeapStart <= b.start /\ b.size # 0
  /\ b.start + b.size <= HeapEnd

Grown == IF ptr = NULL THEN {} ELSE {[start |-> ptr, size |-> curr_size]}

(* While alloc_memory runs the loader holds boot_param and the block that  *)
(* max_malloc grows, whose size is a whole number of increments that fits  *)
(* into the heap.                                                          *)
GrowInv ==
  /\ mem_block = NoBlock /\ fdt = NULL
  /\ live = Allocated(boot_param) \cup Grown
  /\ ptr = NULL => curr_size = 0
  /\ ptr # NULL => ptr # boot_param.start
  /\ curr_size % INC_BLOCK_SIZE = 0
  /\ curr_size <= HeapEnd

(* After the reservation the size may have wrapped, but then it is larger  *)
(* than the heap.                                                          *)
MemBlockInv ==
  /\ mem_block = NoBlock /\ fdt = NULL
  /\ live = Allocated(boot_param)
  /\ curr_size % INC_BLOCK_SIZE = 0 \/ curr_size > HeapEnd

(* At the prompt: Accounted, and the two blocks are not the same. *)
PromptInv ==
  /\ \A b \in live : IsBootParam(b) \/ IsMemBlock(b) \/ IsFdt(b)
  /\ mem_block.start # NULL => \E b \in live : IsMemBlock(b)
  /\ fdt # NULL => \E b \in live : IsFdt(b)
  /\ mem_block.start = NULL => mem_block.size = 0
  /\ mem_block.start # NULL => mem_block.start # boot_param.start
  /\ mem_block.size % INC_BLOCK_SIZE = 0

StepInv ==
  /\ pc = "boot_param" => /\ live = {} /\ boot_param = NoBlock
                          /\ mem_block = NoBlock /\ fdt = NULL
  /\ pc \in {"grow", "reserve"} => GrowInv
  /\ pc = "mem_block" => MemBlockInv
  /\ pc = "prompt" => PromptInv

(* Blocks of the loader do not overlap, and boot_param, when it was        *)
(* allocated, is one of them.                                              *)
BlocksInv ==
  /\ \A b \in live : InHeap(b)
  /\ \A b, c \in live : b = c \/ Disjoint(b, c)
  /\ boot_param = NoBlock \/ boot_param \in live

Inv == TypeOK /\ BlocksInv /\ StepInv

-----------------------------------------------------------------------------
(* Multiples stay multiples. *)
LEMMA MultipleMod ==
  ASSUME NEW n \in Nat \ {0}, NEW k \in Int
  PROVE  (k * n) % n = 0
  <1> DEFINE q == (k * n) \div n
             r == (k * n) % n
  <1>1. q \in Int /\ r \in 0 .. n - 1 /\ k * n = q * n + r
    OBVIOUS
  <1> HIDE DEF q, r
  <1>2. (k - q) * n = r
    BY <1>1
  <1>3. k - q >= 1 => (k - q) * n >= n
    BY <1>1
  <1>4. k - q <= -1 => (k - q) * n <= -n
    BY <1>1
  <1>5. k = q
    BY <1>1, <1>2, <1>3, <1>4
  <1>6. r = 0
    BY <1>1, <1>5
  <1> QED BY <1>6 DEF r

LEMMA MultipleSum ==
  ASSUME NEW n \in Nat \ {0}, NEW a \in Int, NEW b \in Int,
         a % n = 0, b % n = 0
  PROVE  (a + b) % n = 0 /\ (a - b) % n = 0
  <1>1. PICK k \in Int : a = k * n
    OBVIOUS
  <1>2. PICK m \in Int : b = m * n
    OBVIOUS
  <1>3. a + b = (k + m) * n /\ a - b = (k - m) * n
    BY <1>1, <1>2
  <1>4. k + m \in Int /\ k - m \in Int
    BY <1>1, <1>2
  <1>5. ((k + m) * n) % n = 0 /\ ((k - m) * n) % n = 0
    BY <1>4, MultipleMod
  <1> QED BY <1>3, <1>5

(* What the allocator promises of a block it returns: it is as long as it  *)
(* was asked for, in the heap, and overlaps no other block.                *)
Fresh(b, n, busy) ==
  /\ InHeap(b) /\ b.size = n
  /\ \A c \in busy : Disjoint(b, c)

LEMMA PlaceFresh ==
  ASSUME NEW n \in Nat \ {0}, NEW busy, NEW b \in Place(n, busy)
  PROVE  b = NoBlock \/ Fresh(b, n, busy)
  <1> SUFFICES ASSUME Starts(n, busy) # {} PROVE Fresh(b, n, busy)
    BY DEF Place
  <1>1. PICK a \in Starts(n, busy) : b = [start |-> a, size |-> n]
    BY DEF Place, Lowest
  <1>2. /\ a \in HeapStart .. HeapEnd /\ a + n <= HeapEnd
        /\ \A c \in busy : Disjoint([start |-> a, size |-> n], c)
    BY <1>1 DEF Starts
  <1>3. a \in Word /\ n \in Word
    BY <1>2, HeapAssumption, WordSizeAssumption DEF Word
  <1> QED BY <1>1, <1>2, <1>3 DEF Fresh, InHeap, Block

LEMMA MallocFresh ==
  ASSUME NEW n \in Nat, NEW b \in malloc(n)
  PROVE  \/ b = NoBlock
         \/ Fresh(b, IF n = 0 THEN 1 ELSE n, os \cup live)
  <1>1. CASE n = 0
    <2>1. b = NoBlock \/ b \in Place(1, os \cup live)
      BY <1>1 DEF malloc
    <2> QED BY <1>1, <2>1, PlaceFresh
  <1>2. CASE n # 0
    BY <1>2, PlaceFresh DEF malloc
  <1> QED BY <1>1, <1>2

LEMMA ReallocFresh ==
  ASSUME NEW n \in Nat \ {0}, NEW p \in Word, NEW b \in realloc(p, n)
  PROVE  b = NoBlock \/ Fresh(b, n, live \ BlockAt(p))
  <1>1. b \in malloc(n) => b = NoBlock \/ Fresh(b, n, live \ BlockAt(p))
    BY MallocFresh DEF Fresh
  <1>2. ASSUME p \in Starts(n, (os \cup live) \ BlockAt(p)),
               b = [start |-> p, size |-> n]
        PROVE  Fresh(b, n, live \ BlockAt(p))
    <2>1. /\ p \in HeapStart .. HeapEnd /\ p + n <= HeapEnd
          /\ \A c \in live \ BlockAt(p) : Disjoint(b, c)
      BY <1>2 DEF Starts
    <2>2. p \in Word /\ n \in Word
      BY <2>1, HeapAssumption, WordSizeAssumption DEF Word
    <2> QED BY <1>2, <2>1, <2>2 DEF Fresh, InHeap, Block
  <1> QED BY <1>1, <1>2 DEF realloc

(* Two blocks in the heap that do not overlap start at different places. *)
LEMMA DisjointStarts ==
  ASSUME NEW b, NEW c, InHeap(b), InHeap(c), Disjoint(b, c)
  PROVE  b.start # c.start
  BY HeapAssumption, WordSizeAssumption DEF InHeap, Disjoint, Block, Word

LEMMA InHeapFacts ==
  ASSUME NEW b, InHeap(b)
  PROVE  /\ b # NoBlock /\ b.start # NULL /\ b.start \in Word
         /\ b.size \in Word /\ b.size # 0 /\ Allocatable(b)
  BY HeapAssumption, WordSizeAssumption
  DEF InHeap, NoBlock, Block, NULL, Allocatable, Word

(* Rounding up to the alignment: it adds less than the alignment, and      *)
(* nothing to what is aligned already.                                     *)
LEMMA AlignUp ==
  ASSUME NEW p \in Nat
  PROVE  /\ ALIGN(p) \in Nat
         /\ ALIGN(p) % FdtAlign = 0
         /\ p <= ALIGN(p) /\ ALIGN(p) <= p + (FdtAlign - 1)
         /\ p % FdtAlign = 0 => ALIGN(p) = p
  <1> DEFINE n == FdtAlign
             x == p + (n - 1)
  <1>1. n \in Nat \ {0} /\ x \in Nat
    BY SizesAssumption
  <1>2. ALIGN(p) = (x \div n) * n
    BY DEF ALIGN
  <1>3. x = p + (n - 1)
    OBVIOUS
  <1> HIDE DEF n, x
  <1>4. /\ x \div n \in Int /\ x % n \in 0 .. n - 1
        /\ x % n = x - (x \div n) * n
    BY <1>1
  <1> DEFINE q == x \div n
             y == q * n
  <1>5. y \in Int /\ y % n = 0 /\ ALIGN(p) = y
    <2>1. ALIGN(p) = y /\ q \in Int
      BY <1>2, <1>4
    <2>2. y % n = 0
      BY <2>1, <1>1, MultipleMod, Zenon
    <2> HIDE DEF q
    <2>3. y \in Int
      BY <2>1, <1>1
    <2> QED BY <2>1, <2>2, <2>3
  <1>6. x % n = x - y
    BY <1>4
  <1> HIDE DEF q, y
  <1>7. ALIGN(p) \in Nat /\ p <= ALIGN(p) /\ ALIGN(p) <= p + (n - 1)
    BY <1>1, <1>3, <1>4, <1>5, <1>6
  <1>8. ASSUME p % n = 0 PROVE ALIGN(p) = p
    <2>1. (y - p) % n = 0
      <3>1. p \in Int
        OBVIOUS
      <3> QED BY <1>1, <1>5, <1>8, <3>1, MultipleSum, Zenon
    <2>2. y - p \in 0 .. n - 1
      BY <1>1, <1>5, <1>7
    <2> QED BY <2>1, <2>2, <1>1, <1>5
  <1> QED BY <1>5, <1>7, <1>8 DEF n

-----------------------------------------------------------------------------
LEMMA InitInv == Init => Inv
  <1> SUFFICES ASSUME Init PROVE Inv
    OBVIOUS
  <1>1. 0 \in Word
    BY WordSizeAssumption DEF Word
  <1>2. TypeOK
    BY <1>1, HeapAssumption
    DEF Init, TypeOK, Steps, NoBlock, NULL, Block
  <1> QED BY <1>2 DEF Init, Inv, BlocksInv, StepInv

LEMMA BootParamInv == Inv /\ AllocBootParam => Inv'
  <1> SUFFICES ASSUME Inv, AllocBootParam PROVE Inv'
    OBVIOUS
  <1> USE DEF Inv
  <1>1. PICK b \in malloc(MAX_BOOT_PARAM_SIZE) :
          boot_param' = b /\ live' = live \cup Allocated(b)
    BY DEF AllocBootParam
  <1>2. b = NoBlock \/ InHeap(b)
    BY MallocFresh, SizesAssumption DEF Fresh
  <1>3. 0 \in Word /\ NoBlock \in Block
    BY WordSizeAssumption DEF Word, NoBlock, NULL, Block
  <1>4. live = {} /\ mem_block = NoBlock /\ fdt = NULL
    BY DEF AllocBootParam, StepInv
  <1>5. live' = Allocated(b) /\ Allocated(b) \subseteq {b}
    BY <1>1, <1>4 DEF Allocated
  <1>6. TypeOK'
    BY <1>1, <1>2, <1>3, <1>5
    DEF AllocBootParam, TypeOK, Steps, NULL, InHeap, Allocated
  <1>7. BlocksInv'
    BY <1>1, <1>2, <1>5 DEF BlocksInv, Allocated
  <1>8. 0 % INC_BLOCK_SIZE = 0 /\ 0 <= HeapEnd
    BY SizesAssumption, HeapAssumption, WordSizeAssumption DEF Word
  <1>9. StepInv'
    BY <1>1, <1>4, <1>5, <1>8
    DEF AllocBootParam, StepInv, GrowInv, Grown, Allocated
  <1> QED BY <1>6, <1>7, <1>9

LEMMA GrowStepInv == Inv /\ Grow => Inv'
  <1> SUFFICES ASSUME Inv, Grow PROVE Inv'
    OBVIOUS
  <1> USE DEF Inv
  <1>1. GrowInv /\ curr_size \in Word /\ ptr \in Word
    BY DEF Grow, StepInv, TypeOK
  <1>2. /\ new_size = curr_size + INC_BLOCK_SIZE
        /\ new_size \in Word /\ new_size # 0
    BY <1>1, HeapAssumption, SizesAssumption, WordSizeAssumption
    DEF new_size, AddW, GrowInv, Word
  <1>3. new_size % INC_BLOCK_SIZE = 0
    <2>1. INC_BLOCK_SIZE % INC_BLOCK_SIZE = 0
      <3>1. INC_BLOCK_SIZE = 1 * INC_BLOCK_SIZE
        BY SizesAssumption
      <3>2. (1 * INC_BLOCK_SIZE) % INC_BLOCK_SIZE = 0
        BY SizesAssumption, MultipleMod
      <3> QED BY <3>1, <3>2
    <2>2. curr_size \in Int /\ curr_size % INC_BLOCK_SIZE = 0
      BY <1>1, WordSizeAssumption DEF GrowInv, Word
    <2>3. (curr_size + INC_BLOCK_SIZE) % INC_BLOCK_SIZE = 0
      <3>1. INC_BLOCK_SIZE \in Nat \ {0} /\ INC_BLOCK_SIZE \in Int
        BY SizesAssumption
      <3> QED BY <2>1, <2>2, <3>1, MultipleSum, Zenon
    <2> QED BY <1>2, <2>3
  <1>4. PICK tmp \in realloc(ptr, new_size) :
          IF tmp = NoBlock
          THEN pc' = "reserve" /\ UNCHANGED <<live, ptr, curr_size>>
          ELSE /\ live' = (live \ BlockAt(ptr)) \cup {tmp}
               /\ ptr' = tmp.start
               /\ curr_size' = new_size
               /\ UNCHANGED pc
    BY DEF Grow
  <1>5. UNCHANGED <<first_fit, os, boot_param, mem_block, fdt>>
    BY DEF Grow
  <1>6. CASE tmp = NoBlock
    <2>1. TypeOK'
      BY <1>4, <1>5, <1>6 DEF TypeOK, Steps
    <2>2. BlocksInv'
      BY <1>4, <1>5, <1>6 DEF BlocksInv
    <2>3. StepInv'
      BY <1>1, <1>4, <1>5, <1>6 DEF StepInv, GrowInv, Grown
    <2> QED BY <2>1, <2>2, <2>3
  <1>7. CASE tmp # NoBlock
    <2>1. Fresh(tmp, new_size, live \ BlockAt(ptr))
      BY <1>1, <1>2, <1>4, <1>7, ReallocFresh, WordSizeAssumption DEF Word
    <2>2. InHeap(tmp) /\ tmp.start \in Word /\ tmp.start # NULL
          /\ tmp \in Block /\ tmp.size = new_size
      BY <2>1, InHeapFacts DEF Fresh, InHeap
    <2>3. boot_param # NoBlock => boot_param \in live \ BlockAt(ptr)
      <3> SUFFICES ASSUME boot_param # NoBlock
                   PROVE  boot_param \in live /\ boot_param.start # ptr
        BY DEF BlockAt
      <3>1. boot_param \in live /\ boot_param.start # NULL
        BY InHeapFacts DEF BlocksInv
      <3> QED BY <3>1, <1>1 DEF GrowInv
    <2>4. live \ BlockAt(ptr) = Allocated(boot_param)
      <3>1. Grown \subseteq BlockAt(ptr)
        BY <1>1 DEF Grown, BlockAt, GrowInv
      <3>2. Allocated(boot_param) \subseteq live \ BlockAt(ptr)
        BY <2>3 DEF Allocated
      <3> QED BY <3>1, <3>2, <1>1 DEF GrowInv
    <2>5. live' = Allocated(boot_param) \cup {tmp}
      BY <1>4, <1>7, <2>4
    <2>6. TypeOK'
      BY <1>2, <1>4, <1>5, <1>7, <2>2 DEF TypeOK
    <2>7. BlocksInv'
      <3>1. \A b \in live' : InHeap(b)
        BY <1>4, <1>7, <2>2 DEF BlocksInv
      <3>2. \A b \in live \ BlockAt(ptr) : Disjoint(tmp, b) /\ Disjoint(b, tmp)
        BY <2>1 DEF Fresh, Disjoint
      <3>3. \A b, c \in live' : b = c \/ Disjoint(b, c)
        BY <1>4, <1>7, <3>2 DEF BlocksInv
      <3>4. boot_param' = NoBlock \/ boot_param' \in live'
        BY <1>4, <1>5, <1>7, <2>3
      <3> QED BY <3>1, <3>3, <3>4 DEF BlocksInv
    <2>8. tmp.start # boot_param.start
      <3>1. CASE boot_param = NoBlock
        BY <3>1, <2>2 DEF NoBlock
      <3>2. CASE boot_param # NoBlock
        <4>1. InHeap(boot_param) /\ Disjoint(tmp, boot_param)
          BY <3>2, <2>1, <2>3 DEF Fresh, BlocksInv
        <4> QED BY <4>1, <2>2, DisjointStarts
      <3> QED BY <3>1, <3>2
    <2>9. new_size <= HeapEnd
      BY <2>2, HeapAssumption, WordSizeAssumption DEF InHeap, Block, Word
    <2>10. tmp = [start |-> tmp.start, size |-> new_size]
      BY <2>2 DEF Block
    <2>11. GrowInv'
      BY <1>1, <1>3, <1>4, <1>5, <1>7, <2>2, <2>5, <2>8, <2>9, <2>10
      DEF GrowInv, Grown, Allocated
    <2>12. StepInv'
      BY <1>4, <1>7, <2>11 DEF StepInv, Grow
    <2> QED BY <2>6, <2>7, <2>12
  <1> QED BY <1>6, <1>7

LEMMA ReserveInv == Inv /\ Reserve => Inv'
  <1> SUFFICES ASSUME Inv, Reserve PROVE Inv'
    OBVIOUS
  <1> USE DEF Inv
  <1>1. /\ GrowInv /\ curr_size \in Word
        /\ live' = live \ BlockAt(ptr)
        /\ curr_size' = SubW(curr_size, FDT_SIZE_MAX)
        /\ UNCHANGED <<first_fit, os, boot_param, mem_block, ptr, fdt>>
    BY DEF Reserve, StepInv, TypeOK
  <1>2. live' = Allocated(boot_param)
    <2>1. Grown \subseteq BlockAt(ptr)
      BY <1>1 DEF Grown, BlockAt, GrowInv
    <2>2. ASSUME boot_param # NoBlock PROVE boot_param \notin BlockAt(ptr)
      <3>1. boot_param.start # NULL
        BY <2>2, InHeapFacts DEF BlocksInv
      <3> QED BY <3>1, <1>1 DEF GrowInv, BlockAt
    <2> QED BY <2>1, <2>2, <1>1 DEF GrowInv, Allocated
  <1>3. FDT_SIZE_MAX \in Word
    BY HeapAssumption, SizesAssumption, WordSizeAssumption DEF Word
  <1>4. curr_size' \in Word
    BY <1>1, <1>3, WordSizeAssumption DEF SubW, Word
  <1>5. curr_size' % INC_BLOCK_SIZE = 0 \/ curr_size' > HeapEnd
    <2>1. CASE FDT_SIZE_MAX <= curr_size
      <3>1. curr_size' = curr_size - FDT_SIZE_MAX
        BY <2>1, <1>1 DEF SubW
      <3>2. /\ INC_BLOCK_SIZE \in Nat \ {0}
            /\ curr_size \in Int /\ FDT_SIZE_MAX \in Int
            /\ curr_size % INC_BLOCK_SIZE = 0
            /\ FDT_SIZE_MAX % INC_BLOCK_SIZE = 0
        BY <1>1, SizesAssumption, WordSizeAssumption DEF GrowInv, Word
      <3>3. (curr_size - FDT_SIZE_MAX) % INC_BLOCK_SIZE = 0
        BY <3>2, MultipleSum, Zenon
      <3> QED BY <3>1, <3>3
    <2>2. CASE ~(FDT_SIZE_MAX <= curr_size)
      <3>1. curr_size' = curr_size - FDT_SIZE_MAX + WordSize
        BY <2>2, <1>1 DEF SubW
      <3>2. curr_size' > HeapEnd
        BY <3>1, <1>1, <1>3, HeapAssumption, WordSizeAssumption DEF Word
      <3> QED BY <3>2
    <2> QED BY <2>1, <2>2
  <1>6. Allocated(boot_param) \subseteq live
    BY <1>1 DEF GrowInv
  <1>7. TypeOK'
    BY <1>1, <1>2, <1>4, <1>6 DEF Reserve, TypeOK, Steps
  <1>8. BlocksInv'
    BY <1>1, <1>2, <1>6 DEF BlocksInv, Allocated
  <1>9. StepInv'
    BY <1>1, <1>2, <1>5 DEF Reserve, StepInv, GrowInv, MemBlockInv
  <1> QED BY <1>7, <1>8, <1>9

LEMMA AllocMemBlockInv == Inv /\ AllocMemBlock => Inv'
  <1> SUFFICES ASSUME Inv, AllocMemBlock PROVE Inv'
    OBVIOUS
  <1> USE DEF Inv
  <1>1. /\ MemBlockInv /\ curr_size \in Word /\ curr_size \in Nat
        /\ UNCHANGED <<first_fit, os, boot_param, curr_size, fdt>>
        /\ pc' = "prompt"
    BY WordSizeAssumption DEF AllocMemBlock, StepInv, TypeOK, Word
  <1>2. PICK b \in malloc(curr_size) :
          /\ mem_block' = [start |-> b.start, size |-> size(b.start)]
          /\ ptr' = b.start
          /\ live' = live \cup Allocated(b)
    BY DEF AllocMemBlock
  <1>3. 0 \in Word /\ 0 % INC_BLOCK_SIZE = 0
    BY SizesAssumption, WordSizeAssumption DEF Word
  <1>4. CASE b = NoBlock
    <2>1. mem_block' = NoBlock /\ live' = live /\ ptr' = NULL
      BY <1>2, <1>4 DEF NoBlock, size, Allocated
    <2>2. TypeOK'
      BY <1>1, <1>3, <2>1 DEF TypeOK, Steps, NoBlock, NULL, Block
    <2>3. BlocksInv'
      BY <1>1, <2>1 DEF BlocksInv
    <2>4. StepInv'
      BY <1>1, <1>3, <2>1
      DEF StepInv, PromptInv, MemBlockInv, Allocated, IsBootParam, NoBlock
    <2> QED BY <2>2, <2>3, <2>4
  <1>5. CASE b # NoBlock
    <2> DEFINE n == IF curr_size = 0 THEN 1 ELSE curr_size
    <2>1. Fresh(b, n, os \cup live)
      BY <1>1, <1>2, <1>5, MallocFresh
    <2>2. /\ InHeap(b) /\ b \in Block /\ b.start # NULL
          /\ b.start \in Word /\ b.size = n
      BY <2>1, InHeapFacts DEF Fresh, InHeap
    <2>3. /\ mem_block' = [start |-> b.start, size |-> curr_size]
          /\ live' = live \cup {b}
      BY <1>2, <1>5, <2>2 DEF size, Allocated
    <2>4. TypeOK'
      BY <1>1, <1>2, <2>2, <2>3 DEF TypeOK, Steps, Block
    <2>5. BlocksInv'
      <3>1. \A c \in live : Disjoint(b, c) /\ Disjoint(c, b)
        BY <2>1 DEF Fresh, Disjoint
      <3> QED BY <1>1, <2>2, <2>3, <3>1 DEF BlocksInv
    <2>6. curr_size % INC_BLOCK_SIZE = 0
      <3>1. CASE curr_size = 0
        BY <3>1, <1>3
      <3>2. CASE curr_size # 0
        <4>1. curr_size <= HeapEnd
          BY <3>2, <1>1, <2>2, HeapAssumption, WordSizeAssumption
          DEF InHeap, Block, Word
        <4> QED
          BY <4>1, <1>1, HeapAssumption, WordSizeAssumption
          DEF MemBlockInv, Word
      <3> QED BY <3>1, <3>2
    <2>7. IsMemBlock(b)'
      BY <2>2, <2>3 DEF IsMemBlock
    <2>8. \A c \in live : c = boot_param
      BY <1>1 DEF MemBlockInv, Allocated
    <2>9. b.start # boot_param.start
      <3>1. CASE boot_param = NoBlock
        BY <3>1, <2>2 DEF NoBlock
      <3>2. CASE boot_param # NoBlock
        <4>1. InHeap(boot_param) /\ Disjoint(b, boot_param)
          BY <3>2, <2>1 DEF Fresh, BlocksInv
        <4> QED BY <4>1, <2>2, DisjointStarts
      <3> QED BY <3>1, <3>2
    <2>10. PromptInv'
      BY <1>1, <2>2, <2>3, <2>6, <2>7, <2>8, <2>9
      DEF PromptInv, MemBlockInv, IsBootParam
    <2>11. StepInv'
      BY <1>1, <2>10 DEF StepInv
    <2> QED BY <2>4, <2>5, <2>11
  <1> QED BY <1>4, <1>5

LEMMA AllocFdtInv == Inv /\ AllocFdt => Inv'
  <1> SUFFICES ASSUME Inv, AllocFdt PROVE Inv'
    OBVIOUS
  <1> USE DEF Inv
  <1>1. /\ PromptInv /\ pc = "prompt"
        /\ UNCHANGED <<first_fit, pc, os, boot_param, mem_block, ptr,
                       curr_size>>
    BY DEF AllocFdt, StepInv
  <1>2. /\ fdt_request \in Nat \ {0} /\ FDT_SIZE_MAX \in Nat \ {0}
        /\ FdtAlign \in Nat \ {0}
        /\ fdt_request = FDT_SIZE_MAX + (FdtAlign - 1)
    BY SizesAssumption DEF fdt_request
  <1>3. CASE fdt # NULL
    <2>1. \E b \in live : IsFdt(b)
      BY <1>1, <1>3 DEF PromptInv
    <2>2. fdt' = fdt /\ live' = live
      <3>1. fdt \in Nat /\ fdt % FdtAlign = 0
        BY <2>1, WordSizeAssumption DEF IsFdt, TypeOK, Word
      <3> QED BY <3>1, <1>3, AlignUp DEF AllocFdt
    <2>3. Inv'
      BY <1>1, <2>2
      DEF TypeOK, BlocksInv, StepInv, PromptInv, IsBootParam, IsMemBlock,
          IsFdt
    <2> QED BY <2>3
  <1>4. CASE fdt = NULL
    <2>1. PICK b \in malloc(fdt_request) :
            fdt' = ALIGN(b.start) /\ live' = live \cup Allocated(b)
      BY <1>4 DEF AllocFdt
    <2>2. CASE b = NoBlock
      <3>1. ALIGN(0) = 0
        <4>1. ALIGN(0) \in Nat /\ 0 % FdtAlign = 0
          BY <1>2, AlignUp
        <4> QED BY <4>1, AlignUp
      <3>2. fdt' = fdt /\ live' = live
        BY <2>1, <2>2, <3>1, <1>4 DEF NoBlock, NULL, Allocated
      <3>3. Inv'
        BY <1>1, <3>2
        DEF TypeOK, BlocksInv, StepInv, PromptInv, IsBootParam, IsMemBlock,
            IsFdt
      <3> QED BY <3>3
    <2>3. CASE b # NoBlock
      <3>1. Fresh(b, fdt_request, os \cup live)
        BY <1>2, <2>1, <2>3, MallocFresh
      <3>2. /\ InHeap(b) /\ b \in Block /\ b.start \in Nat
            /\ b.size = FDT_SIZE_MAX + (FdtAlign - 1)
            /\ b.start # NULL
        BY <1>2, <3>1, InHeapFacts, WordSizeAssumption
        DEF Fresh, InHeap, Block, Word
      <3>3. /\ fdt' \in Nat /\ fdt' % FdtAlign = 0
            /\ b.start <= fdt' /\ fdt' <= b.start + (FdtAlign - 1)
        BY <2>1, <3>2, AlignUp
      <3>4. fdt' # NULL /\ IsFdt(b)'
        <4>1. fdt' # NULL
          BY <3>2, <3>3 DEF NULL
        <4>2. fdt' + FDT_SIZE_MAX <= b.start + b.size
          <5> DEFINE F == FDT_SIZE_MAX
                     A == FdtAlign
                     s == b.start
                     q == fdt'
          <5>1. /\ F \in Nat /\ A \in Nat /\ s \in Nat /\ q \in Nat
                /\ q <= s + (A - 1) /\ b.size = F + (A - 1)
            BY <1>2, <3>2, <3>3
          <5> HIDE DEF F, A, s, q
          <5>2. q + F <= s + (F + (A - 1))
            BY <5>1
          <5> QED BY <5>1, <5>2 DEF F, s, q
        <4> QED BY <3>3, <4>1, <4>2, Zenon DEF IsFdt
      <3>5. fdt' \in Word
        BY <1>2, <3>2, <3>3, HeapAssumption, WordSizeAssumption
        DEF InHeap, Word
      <3>6. live' = live \cup {b}
        BY <2>1, <2>3 DEF Allocated
      <3>7. TypeOK'
        BY <1>1, <3>2, <3>5, <3>6 DEF TypeOK
      <3>8. BlocksInv'
        <4>1. \A c \in live : Disjoint(b, c) /\ Disjoint(c, b)
          BY <3>1 DEF Fresh, Disjoint
        <4> QED BY <1>1, <3>2, <3>6, <4>1 DEF BlocksInv
      <3>9. PromptInv'
        BY <1>1, <1>4, <3>4, <3>6
        DEF PromptInv, IsBootParam, IsMemBlock, IsFdt
      <3>10. StepInv'
        BY <1>1, <3>9 DEF StepInv
      <3> QED BY <3>7, <3>8, <3>10
    <2> QED BY <2>2, <2>3
  <1> QED BY <1>3, <1>4

LEMMA ExitInv == Inv /\ Exit => Inv'
  <1> SUFFICES ASSUME Inv, Exit PROVE Inv'
    OBVIOUS
  <1>1. 0 \in Word /\ NoBlock \in Block
    BY WordSizeAssumption DEF Word, NoBlock, NULL, Block
  <1>2. TypeOK'
    BY <1>1 DEF Inv, Exit, TypeOK, Steps, NULL
  <1> QED BY <1>2 DEF Inv, Exit, BlocksInv, StepInv

LEMMA NextInv == Inv /\ [Next]_vars => Inv'
  <1>1. Inv /\ UNCHANGED vars => Inv'
    BY DEF vars, Inv, TypeOK, BlocksInv, StepInv, GrowInv, Grown, MemBlockInv,
       PromptInv, IsBootParam, IsMemBlock, IsFdt
  <1> QED
    BY <1>1, BootParamInv, GrowStepInv, ReserveInv, AllocMemBlockInv,
       AllocFdtInv, ExitInv
    DEF Next

THEOREM InvHolds == Spec => []Inv
  BY InitInv, NextInv, PTL DEF Spec

(* Every pointer and size of the allocation stays a word, whatever wraps. *)
THEOREM TypeCorrect == Spec => []TypeOK
  BY InvHolds, PTL DEF Inv

(* mem_block is a multiple of INC_BLOCK_SIZE for every heap and every      *)
(* allocator, as long as the reservation is one.                           *)
THEOREM AlwaysMultiple == Spec => []Multiple
  <1>1. Inv => Multiple
    <2>1. 0 % INC_BLOCK_SIZE = 0
      BY SizesAssumption
    <2> QED
      BY <2>1
      DEF Inv, TypeOK, Steps, StepInv, GrowInv, MemBlockInv, PromptInv,
          Multiple, NoBlock
  <1> QED BY <1>1, InvHolds, PTL

(* No block is leaked and no pointer dangles, and the buffer for the FDT   *)
(* is aligned and as long as libfdt is told, at every boot.                *)
THEOREM AlwaysAccounted == Spec => []Accounted
  <1>1. Inv => Accounted
    <2> SUFFICES ASSUME Inv, pc = "prompt", boot_param.start # NULL
                 PROVE  \E b \in live : IsBootParam(b)
      BY DEF Inv, StepInv, PromptInv, Accounted
    <2>1. boot_param \in live
      BY DEF Inv, BlocksInv, NoBlock
    <2> QED BY <2>1 DEF IsBootParam
  <1> QED BY <1>1, InvHolds, PTL

(* The two blocks satisfy what Images assumes of them. *)
THEOREM AlwaysGoodBlocks == Spec => []GoodBlocks
  <1>1. Inv => GoodBlocks
    <2> SUFFICES ASSUME Inv, pc = "prompt"
                 PROVE  /\ Allocatable(boot_param) /\ Allocatable(mem_block)
                        /\ Disjoint(mem_block, boot_param)
      BY DEF GoodBlocks
    <2>1. PromptInv /\ BlocksInv /\ TypeOK
      BY DEF Inv, StepInv
    <2>2. 0 \in Word /\ Allocatable(NoBlock)
      BY WordSizeAssumption DEF Word, Allocatable, NoBlock, NULL, Block
    <2>3. Allocatable(boot_param)
      BY <2>1, <2>2, InHeapFacts DEF BlocksInv
    <2>4. CASE mem_block.start = NULL
      <3>1. mem_block = NoBlock
        BY <2>1, <2>4 DEF PromptInv, TypeOK, Block, NoBlock
      <3>2. Disjoint(NoBlock, boot_param)
        BY <2>3, WordSizeAssumption
        DEF Disjoint, NoBlock, NULL, Allocatable, Block, Word
      <3> QED BY <2>2, <2>3, <3>1, <3>2
    <2>5. CASE mem_block.start # NULL
      <3>1. PICK b \in live : IsMemBlock(b)
        BY <2>1, <2>5 DEF PromptInv
      <3>2. InHeap(b) /\ b.start = mem_block.start
            /\ mem_block.size \in 0 .. b.size
        BY <2>1, <3>1, WordSizeAssumption
        DEF BlocksInv, IsMemBlock, TypeOK, InHeap, Block, Word
      <3>3. Allocatable(mem_block)
        <4>1. /\ mem_block \in Block /\ mem_block.start \in Nat
              /\ b.size \in Nat /\ mem_block.size \in Nat
              /\ HeapEnd \in Nat /\ HeapEnd < WordSize
          BY <2>1, <3>2, HeapAssumption, WordSizeAssumption
          DEF TypeOK, InHeap, Block, Word
        <4>2. mem_block.start + mem_block.size < WordSize
          BY <4>1, <3>2, WordSizeAssumption DEF InHeap
        <4> QED BY <4>1, <4>2, <2>5 DEF Allocatable
      <3>4. CASE boot_param = NoBlock
        <4>1. Disjoint(mem_block, NoBlock)
          BY <3>3, WordSizeAssumption
          DEF Disjoint, NoBlock, NULL, Allocatable, Block, Word
        <4> QED BY <2>3, <3>3, <3>4, <4>1
      <3>5. CASE boot_param # NoBlock
        <4>1. boot_param \in live /\ b # boot_param
          BY <2>1, <2>5, <3>2, <3>5 DEF BlocksInv, PromptInv
        <4>2. Disjoint(b, boot_param)
          BY <2>1, <4>1 DEF BlocksInv
        <4>3. Disjoint(mem_block, boot_param)
          BY <3>2, <4>2, <2>3, WordSizeAssumption
          DEF Disjoint, InHeap, Allocatable, Block, Word
        <4> QED BY <2>3, <3>3, <4>3
      <3> QED BY <3>4, <3>5
    <2> QED BY <2>4, <2>5
  <1> QED BY <1>1, InvHolds, PTL

-----------------------------------------------------------------------------
(***************************************************************************)
(* What a first-fit allocator does for the largest gap.  The block that    *)
(* max_malloc grows is always at the beginning of a gap, so that it is     *)
(* never in the way of a larger one: what realloc does not find with the   *)
(* block in place is not there without it either.                          *)
(***************************************************************************)
Busy == os \cup Allocated(boot_param)

GapStart(p, busy) == p = HeapStart \/ \E b \in busy : b.start + b.size = p

(* c is the largest number of whole increments that fits. *)
Biggest(c) ==
  /\ c \in Nat /\ c % INC_BLOCK_SIZE = 0
  /\ c # 0 => Starts(c, Busy) # {}
  /\ Starts(c + INC_BLOCK_SIZE, Busy) = {}

GapGrow == ptr # NULL => ptr \in Starts(curr_size, Busy) /\ GapStart(ptr, Busy)

GapMemBlock ==
  \E c \in Nat : Biggest(c) /\ curr_size = SubW(c, FDT_SIZE_MAX)

GapPrompt ==
  /\ \E c \in Nat :
       /\ Biggest(c)
       /\ mem_block.size = IF c <= FDT_SIZE_MAX THEN 0 ELSE c - FDT_SIZE_MAX
  /\ mem_block.size # 0 =>
       mem_block.start \in Lowest(Starts(mem_block.size, Busy))

OsInHeap == \A b \in os : b \in Block /\ b.start + b.size <= HeapEnd

GapInv ==
  /\ OsInHeap
  /\ first_fit =>
       /\ pc \in {"grow", "reserve"} => GapGrow
       /\ pc = "reserve" => Biggest(curr_size)
       /\ pc = "mem_block" => GapMemBlock
       /\ pc = "prompt" /\ fdt = NULL => GapPrompt

(* What a block of n bytes fits in, a smaller one does. *)
LEMMA StartsLess ==
  ASSUME NEW busy, \A b \in busy : b \in Block,
         NEW n \in Nat, NEW m \in 0 .. n
  PROVE  Starts(n, busy) \subseteq Starts(m, busy)
  <1> SUFFICES ASSUME NEW a \in Starts(n, busy) PROVE a \in Starts(m, busy)
    OBVIOUS
  <1>1. /\ a \in HeapStart .. HeapEnd /\ a \in Nat /\ a + n <= HeapEnd
        /\ HeapEnd \in Nat
    BY HeapAssumption, WordSizeAssumption DEF Starts, Word
  <1>2. ASSUME NEW b \in busy PROVE Disjoint([start |-> a, size |-> m], b)
    <2>1. Disjoint([start |-> a, size |-> n], b)
      BY DEF Starts
    <2>2. b.start \in Nat /\ b.size \in Nat
      BY WordSizeAssumption DEF Block, Word
    <2> QED
      BY <1>1, <2>1, <2>2 DEF Disjoint
  <1> QED
    BY <1>1, <1>2 DEF Starts

(* The first place that fits is at the beginning of a gap. *)
LEMMA LowestAtGapStart ==
  ASSUME NEW busy, \A b \in busy : b \in Block,
         NEW n \in Nat \ {0}, NEW p \in Lowest(Starts(n, busy))
  PROVE  GapStart(p, busy)
  <1> SUFFICES ASSUME p # HeapStart
               PROVE  \E b \in busy : b.start + b.size = p
    BY DEF GapStart
  <1>1. p \in Starts(n, busy) /\ \A a \in Starts(n, busy) : p <= a
    BY DEF Lowest
  <1>2. /\ p \in HeapStart .. HeapEnd /\ p \in Nat /\ p + n <= HeapEnd
        /\ HeapStart \in Nat /\ HeapEnd \in Nat
    BY <1>1, HeapAssumption, WordSizeAssumption DEF Starts, Word
  <1>3. p - 1 \notin Starts(n, busy)
    BY <1>1, <1>2
  <1>4. p - 1 \in HeapStart .. HeapEnd /\ (p - 1) + n <= HeapEnd
    BY <1>2
  <1>5. PICK b \in busy : ~Disjoint([start |-> p - 1, size |-> n], b)
    BY <1>3, <1>4 DEF Starts
  <1>6. Disjoint([start |-> p, size |-> n], b)
    BY <1>1 DEF Starts
  <1>7. b.start \in Nat /\ b.size \in Nat
    BY WordSizeAssumption DEF Block, Word
  <1>8. b.start + b.size = p
    BY <1>2, <1>5, <1>6, <1>7 DEF Disjoint
  <1> QED
    BY <1>8

(* A block at the beginning of a gap that cannot grow there is not in the  *)
(* way of a larger one.                                                    *)
LEMMA NotInTheWay ==
  ASSUME NEW busy, \A b \in busy : b \in Block,
         NEW c \in Nat \ {0}, NEW p \in Starts(c, busy), GapStart(p, busy),
         NEW n \in Nat, c <= n, p \notin Starts(n, busy),
         NEW a \in Starts(n, busy)
  PROVE  Disjoint([start |-> a, size |-> n], [start |-> p, size |-> c])
  <1> SUFFICES ASSUME a < p + c, p < a + n PROVE FALSE
    <2>1. a \in Nat /\ p \in Nat
      BY HeapAssumption, WordSizeAssumption DEF Starts, Word
    <2> QED
      BY <2>1 DEF Disjoint
  <1>1. /\ a \in HeapStart .. HeapEnd /\ p \in HeapStart .. HeapEnd
        /\ a + n <= HeapEnd /\ p \in Nat /\ a \in Nat
        /\ HeapStart \in Nat /\ HeapEnd \in Nat
    BY HeapAssumption, WordSizeAssumption DEF Starts, Word
  <1>2. \A b \in busy : /\ Disjoint([start |-> a, size |-> n], b)
                        /\ Disjoint([start |-> p, size |-> c], b)
                        /\ b.start \in Nat /\ b.size \in Nat
    BY WordSizeAssumption DEF Starts, Block, Word
  <1>3. p <= a
    <2> SUFFICES ASSUME a < p PROVE FALSE
      BY <1>1
    <2>1. PICK b \in busy : b.start + b.size = p
      BY <1>1 DEF GapStart
    <2> QED
      BY <1>1, <1>2, <2>1 DEF Disjoint
  <1>4. p + n <= HeapEnd
    BY <1>1, <1>3
  <1>5. ASSUME NEW b \in busy PROVE Disjoint([start |-> p, size |-> n], b)
    BY <1>1, <1>2, <1>3 DEF Disjoint
  <1>6. p \in Starts(n, busy)
    BY <1>1, <1>4, <1>5 DEF Starts
  <1> QED
    BY <1>6

(* Where a block ends that cannot grow, something else does.               *)
LEMMA PastTheBlock ==
  ASSUME NEW busy, \A b \in busy : b \in Block,
         NEW c \in Nat \ {0}, NEW p \in Starts(c, busy),
         NEW n \in Nat, p \notin Starts(n, busy), p + c \in Starts(n, busy)
  PROVE  GapStart(p + c, busy)
  <1>1. /\ p \in HeapStart .. HeapEnd /\ p \in Nat /\ (p + c) + n <= HeapEnd
        /\ HeapStart \in Nat /\ HeapEnd \in Nat
    BY HeapAssumption, WordSizeAssumption DEF Starts, Word
  <1>2. p + n <= HeapEnd
    BY <1>1
  <1>3. PICK b \in busy : ~Disjoint([start |-> p, size |-> n], b)
    BY <1>1, <1>2 DEF Starts
  <1>4. /\ Disjoint([start |-> p, size |-> c], b)
        /\ Disjoint([start |-> p + c, size |-> n], b)
        /\ b.start \in Nat /\ b.size \in Nat
    BY WordSizeAssumption DEF Starts, Block, Word
  <1>5. b.start + b.size = p + c
    BY <1>1, <1>3, <1>4 DEF Disjoint
  <1> QED
    BY <1>5 DEF GapStart

(* What the allocator answers when it takes the first gap. *)
LEMMA FirstFitMalloc ==
  ASSUME first_fit, NEW n \in Nat \ {0}, NEW b \in malloc(n)
  PROVE  \/ b = NoBlock /\ Starts(n, os \cup live) = {}
         \/ /\ b # NoBlock /\ b.size = n
            /\ b.start \in Lowest(Starts(n, os \cup live))
            /\ b.start \in Starts(n, os \cup live)
  <1>1. b \in Place(n, os \cup live)
    BY DEF malloc
  <1>2. CASE Starts(n, os \cup live) = {}
    BY <1>1, <1>2 DEF Place
  <1>3. CASE Starts(n, os \cup live) # {}
    <2>1. PICK a \in Lowest(Starts(n, os \cup live)) : b = [start |-> a, size |-> n]
      BY <1>1, <1>3 DEF Place
    <2> QED
      BY <2>1 DEF Lowest, NoBlock
  <1> QED
    BY <1>2, <1>3

LEMMA FirstFitRealloc ==
  ASSUME first_fit, NEW p, NEW n, NEW b \in realloc(p, n)
  PROVE  IF p # NULL /\ p \in Starts(n, (os \cup live) \ BlockAt(p))
         THEN b = [start |-> p, size |-> n]
         ELSE b \in malloc(n)
  <1> DEFINE here == p \in Starts(n, (os \cup live) \ BlockAt(p))
             grown == [start |-> p, size |-> n]
  <1>1. p = NULL => ~here
    BY HeapAssumption, WordSizeAssumption DEF Starts, NULL, Word
  <1>2. b \in CASE p = NULL           -> malloc(n)
               [] here /\ first_fit  -> {grown}
               [] here /\ ~first_fit -> {grown} \cup (malloc(n) \ {NoBlock})
               [] OTHER              -> malloc(n)
    BY DEF realloc
  <1> HIDE DEF here, grown
  <1>3. IF p # NULL /\ here THEN b = grown ELSE b \in malloc(n)
    BY <1>1, <1>2
  <1> QED
    BY <1>3 DEF here, grown

LEMMA BusyBlocks ==
  ASSUME Inv, OsInHeap, NEW b \in Busy
  PROVE  b \in Block /\ b.start + b.size <= HeapEnd
  <1>1. CASE b \in os
    BY <1>1 DEF OsInHeap
  <1>2. CASE b \in Allocated(boot_param)
    <2>1. InHeap(b)
      BY <1>2 DEF Inv, BlocksInv, Allocated
    <2> QED
      BY <2>1 DEF InHeap
  <1> QED
    BY <1>1, <1>2 DEF Busy

(* While max_malloc grows its block the heap is busy with that block and   *)
(* what was there before.                                                  *)
LEMMA GrowBusy ==
  ASSUME Inv, GapInv, first_fit, pc = "grow"
  PROVE  /\ curr_size \in Nat
         /\ ptr = NULL => curr_size = 0 /\ os \cup live = Busy
         /\ ptr # NULL =>
              /\ curr_size # 0
              /\ ptr \in Starts(curr_size, Busy) /\ GapStart(ptr, Busy)
              /\ os \cup live = Busy \cup {[start |-> ptr, size |-> curr_size]}
              /\ (os \cup live) \ BlockAt(ptr) = Busy
  <1>1. GrowInv /\ GapGrow /\ curr_size \in Nat
    BY WordSizeAssumption DEF Inv, StepInv, GapInv, TypeOK, Word
  <1>2. ptr = NULL => os \cup live = Busy
    BY <1>1 DEF GrowInv, Grown, Busy
  <1>3. ASSUME ptr # NULL
        PROVE  /\ curr_size # 0
               /\ os \cup live = Busy \cup {[start |-> ptr, size |-> curr_size]}
               /\ (os \cup live) \ BlockAt(ptr) = Busy
    <2> DEFINE B == [start |-> ptr, size |-> curr_size]
    <2>1. live = Allocated(boot_param) \cup {B}
      BY <1>1, <1>3 DEF GrowInv, Grown
    <2>2. InHeap(B) /\ curr_size # 0
      BY <2>1 DEF Inv, BlocksInv, InHeap
    <2>3. BlockAt(ptr) = {B}
      <3>1. B \in BlockAt(ptr)
        BY <2>1 DEF BlockAt
      <3>2. \A b \in Allocated(boot_param) : b.start # ptr
        BY <1>1, <1>3 DEF GrowInv, Allocated
      <3> QED
        BY <2>1, <3>1, <3>2 DEF BlockAt
    <2>4. ptr \in Starts(curr_size, Busy)
      BY <1>1, <1>3 DEF GapGrow
    <2>5. B \notin Busy
      <3> SUFFICES ASSUME B \in Busy PROVE FALSE
        OBVIOUS
      <3>1. Disjoint(B, B)
        BY <2>4 DEF Starts
      <3> QED
        BY <2>2, <3>1, WordSizeAssumption DEF Disjoint, InHeap, Block, Word
    <2> QED
      BY <2>1, <2>2, <2>3, <2>5 DEF Busy
  <1> QED
    BY <1>1, <1>2, <1>3 DEF GapGrow, GrowInv

-----------------------------------------------------------------------------
LEMMA GapInitInv == Init => GapInv
  BY HeapAssumption DEF Init, GapInv, OsInHeap

LEMMA GapGrowInv == ASSUME Inv, GapInv, Grow PROVE GapInv'
  <1>1. /\ pc = "grow" /\ UNCHANGED <<first_fit, os, boot_param, mem_block, fdt>>
        /\ OsInHeap' /\ Busy' = Busy
    BY DEF Grow, GapInv, OsInHeap, Busy
  <1> SUFFICES ASSUME first_fit
               PROVE  /\ pc' \in {"grow", "reserve"} /\ GapGrow'
                      /\ pc' = "reserve" => Biggest(curr_size)'
    BY <1>1 DEF GapInv
  <1>2. \A b \in Busy : b \in Block
    BY BusyBlocks DEF GapInv
  <1>3. /\ new_size = curr_size + INC_BLOCK_SIZE
        /\ new_size \in Nat \ {0} /\ curr_size \in Nat /\ curr_size <= new_size
        /\ curr_size % INC_BLOCK_SIZE = 0
        /\ ptr = NULL => curr_size = 0
    BY <1>1, HeapAssumption, SizesAssumption, WordSizeAssumption
    DEF new_size, AddW, Inv, StepInv, TypeOK, GrowInv, Word
  <1>4. PICK tmp \in realloc(ptr, new_size) :
          IF tmp = NoBlock
          THEN pc' = "reserve" /\ UNCHANGED <<live, ptr, curr_size>>
          ELSE /\ ptr' = tmp.start
               /\ curr_size' = new_size
               /\ UNCHANGED pc
    BY DEF Grow
  <1> DEFINE B == [start |-> ptr, size |-> curr_size]
  <1>5. CASE tmp = NoBlock
    <2>1. pc' = "reserve" /\ UNCHANGED <<ptr, curr_size>>
      BY <1>4, <1>5
    <2>2. GapGrow'
      BY <1>1, <2>1 DEF GapGrow, GapInv, GapStart
    <2>3. Starts(new_size, Busy) = {}
      <3>1. CASE ptr = NULL
        <4>1. tmp \in malloc(new_size)
          BY <1>4, <3>1, FirstFitRealloc
        <4>2. os \cup live = Busy
          BY <1>1, <3>1, GrowBusy
        <4> QED
          BY <1>3, <1>5, <4>1, <4>2, FirstFitMalloc
      <3>2. CASE ptr # NULL
        <4>1. /\ curr_size \in Nat \ {0}
              /\ ptr \in Starts(curr_size, Busy) /\ GapStart(ptr, Busy)
              /\ os \cup live = Busy \cup {B}
              /\ (os \cup live) \ BlockAt(ptr) = Busy
          BY <1>1, <3>2, GrowBusy
        <4>2. ptr \notin Starts(new_size, Busy) /\ tmp \in malloc(new_size)
          <5>1. [start |-> ptr, size |-> new_size] # NoBlock
            BY <3>2 DEF NoBlock
          <5> QED
            BY <1>4, <1>5, <3>2, <4>1, <5>1, FirstFitRealloc
        <4>3. Starts(new_size, Busy \cup {B}) = {}
          BY <1>3, <1>5, <4>1, <4>2, FirstFitMalloc
        <4>4. ASSUME NEW a \in Starts(new_size, Busy) PROVE FALSE
          <5>1. Disjoint([start |-> a, size |-> new_size], B)
            BY <1>2, <1>3, <4>1, <4>2, NotInTheWay
          <5>2. a \in Starts(new_size, Busy \cup {B})
            BY <5>1 DEF Starts
          <5> QED
            BY <4>3, <5>2
        <4> QED
          BY <4>4
      <3> QED
        BY <3>1, <3>2
    <2>4. curr_size # 0 => Starts(curr_size, Busy) # {}
      BY <1>1, <1>3, GrowBusy
    <2>5. Biggest(curr_size)'
      BY <1>1, <1>3, <2>1, <2>3, <2>4 DEF Biggest
    <2> QED
      BY <2>1, <2>2, <2>5
  <1>6. CASE tmp # NoBlock
    <2>1. ptr' = tmp.start /\ curr_size' = new_size /\ pc' = "grow"
      BY <1>1, <1>4, <1>6
    <2>2. tmp.start \in Starts(new_size, Busy) /\ GapStart(tmp.start, Busy)
      <3>1. CASE ptr = NULL
        <4>1. tmp \in malloc(new_size)
          BY <1>4, <3>1, FirstFitRealloc
        <4>2. os \cup live = Busy
          BY <1>1, <3>1, GrowBusy
        <4>3. /\ tmp.start \in Starts(new_size, Busy)
              /\ tmp.start \in Lowest(Starts(new_size, Busy))
          BY <1>3, <1>6, <4>1, <4>2, FirstFitMalloc
        <4> QED
          BY <1>2, <1>3, <4>3, LowestAtGapStart
      <3>2. CASE ptr # NULL
        <4>1. /\ curr_size \in Nat \ {0}
              /\ ptr \in Starts(curr_size, Busy) /\ GapStart(ptr, Busy)
              /\ os \cup live = Busy \cup {B}
              /\ (os \cup live) \ BlockAt(ptr) = Busy
          BY <1>1, <3>2, GrowBusy
        <4>2. CASE ptr \in Starts(new_size, Busy)
          <5>1. tmp = [start |-> ptr, size |-> new_size]
            BY <1>4, <3>2, <4>1, <4>2, FirstFitRealloc
          <5> QED
            BY <4>1, <4>2, <5>1
        <4>3. CASE ptr \notin Starts(new_size, Busy)
          <5>1. tmp \in malloc(new_size)
            BY <1>4, <3>2, <4>1, <4>3, FirstFitRealloc
          <5>2. /\ tmp.start \in Starts(new_size, Busy \cup {B})
                /\ tmp.start \in Lowest(Starts(new_size, Busy \cup {B}))
            BY <1>3, <1>6, <4>1, <5>1, FirstFitMalloc
          <5>3. tmp.start \in Starts(new_size, Busy)
            BY <5>2 DEF Starts
          <5>4. \A b \in Busy \cup {B} : b \in Block
            <6>1. B \in Block
              BY <1>1 DEF Inv, TypeOK, Block
            <6> QED
              BY <1>2, <6>1
          <5>5. GapStart(tmp.start, Busy \cup {B})
            <6> HIDE DEF B
            <6> QED
              BY <1>3, <5>2, <5>4, LowestAtGapStart
          <5>6. CASE tmp.start = ptr + curr_size
            <6>1. ptr + curr_size \in Starts(new_size, Busy)
              BY <5>3, <5>6
            <6>2. GapStart(ptr + curr_size, Busy)
              BY <1>2, <1>3, <4>1, <4>3, <6>1, PastTheBlock
            <6> QED
              BY <5>3, <5>6, <6>2
          <5>7. CASE tmp.start # ptr + curr_size
            BY <5>3, <5>5, <5>7 DEF GapStart
          <5> QED
            BY <5>3, <5>6, <5>7
        <4> QED
          BY <4>2, <4>3
      <3> QED
        BY <3>1, <3>2
    <2>3. GapGrow'
      BY <1>1, <2>1, <2>2 DEF GapGrow, GapStart
    <2> QED
      BY <2>1, <2>3
  <1> QED
    BY <1>5, <1>6

LEMMA GapAllocMemBlockInv == ASSUME Inv, GapInv, AllocMemBlock PROVE GapInv'
  <1>1. /\ pc = "mem_block" /\ pc' = "prompt"
        /\ UNCHANGED <<first_fit, os, boot_param, curr_size, fdt>>
        /\ OsInHeap' /\ Busy' = Busy
    BY DEF AllocMemBlock, GapInv, OsInHeap, Busy
  <1> SUFFICES ASSUME first_fit PROVE GapPrompt'
    BY <1>1 DEF GapInv
  <1>2. PICK c \in Nat : Biggest(c) /\ curr_size = SubW(c, FDT_SIZE_MAX)
    BY <1>1 DEF GapInv, GapMemBlock
  <1>3. PICK b \in malloc(curr_size) :
          mem_block' = [start |-> b.start, size |-> size(b.start)]
    BY DEF AllocMemBlock
  <1>4. Biggest(c)'
    BY <1>1, <1>2 DEF Biggest
  <1>5. os \cup live = Busy
    BY <1>1 DEF Inv, StepInv, MemBlockInv, Busy
  <1>6. \A a \in Busy : a \in Block
    BY BusyBlocks DEF GapInv
  <1>7. /\ FDT_SIZE_MAX \in Nat \ {0} /\ HeapEnd \in Nat /\ HeapStart \in Nat \ {0}
        /\ HeapEnd + FDT_SIZE_MAX < WordSize
    BY HeapAssumption, SizesAssumption, WordSizeAssumption DEF Word, NULL
  <1>8. CASE c < FDT_SIZE_MAX
    <2>1. curr_size \in Nat \ {0} /\ curr_size > HeapEnd
      BY <1>2, <1>7, <1>8, WordSizeAssumption DEF SubW
    <2>2. Starts(curr_size, Busy) = {}
      BY <1>7, <2>1 DEF Starts
    <2>3. b = NoBlock
      BY <1>5, <2>1, <2>2, FirstFitMalloc DEF Lowest
    <2>4. mem_block'.size = 0
      BY <1>3, <2>3 DEF NoBlock, size
    <2> QED
      BY <1>4, <1>7, <1>8, <2>4 DEF GapPrompt
  <1>9. CASE c = FDT_SIZE_MAX
    <2>1. curr_size = 0
      BY <1>2, <1>7, <1>9 DEF SubW
    <2>2. mem_block'.size = 0
      BY <1>3, <2>1 DEF size
    <2> QED
      BY <1>4, <1>7, <1>9, <2>2 DEF GapPrompt
  <1>10. CASE c > FDT_SIZE_MAX
    <2>1. curr_size = c - FDT_SIZE_MAX /\ curr_size \in Nat \ {0} /\ curr_size \in 0 .. c
      BY <1>2, <1>7, <1>10 DEF SubW
    <2>2. Starts(curr_size, Busy) # {}
      <3>1. Starts(c, Busy) # {}
        BY <1>2, <1>7, <1>10 DEF Biggest
      <3> QED
        BY <1>6, <2>1, <3>1, StartsLess
    <2>3. /\ b.start \in Lowest(Starts(curr_size, Busy))
          /\ b.start \in Starts(curr_size, Busy)
      BY <1>5, <2>1, <2>2, FirstFitMalloc
    <2>4. b.start # NULL
      BY <1>7, <2>3 DEF Starts, NULL
    <2>5. mem_block'.size = curr_size /\ mem_block'.start = b.start
      BY <1>3, <2>4 DEF size
    <2> QED
      BY <1>1, <1>4, <1>7, <1>10, <2>1, <2>3, <2>5 DEF GapPrompt
  <1> QED
    BY <1>2, <1>7, <1>8, <1>9, <1>10

LEMMA GapNextInv == ASSUME Inv, GapInv, [Next]_vars PROVE GapInv'
  <1>1. CASE AllocBootParam
    BY <1>1 DEF AllocBootParam, GapInv, OsInHeap, GapGrow
  <1>2. CASE Reserve
    <2>1. /\ pc = "reserve" /\ pc' = "mem_block" /\ Busy' = Busy
          /\ curr_size' = SubW(curr_size, FDT_SIZE_MAX)
          /\ UNCHANGED <<first_fit, os>>
      BY <1>2 DEF Reserve, Busy
    <2>2. first_fit => Biggest(curr_size)
      BY <2>1 DEF GapInv
    <2>3. ASSUME NEW c, Biggest(c), Busy' = Busy PROVE Biggest(c)'
      BY <2>3 DEF Biggest
    <2>4. first_fit' => GapMemBlock'
      BY <2>1, <2>2, <2>3 DEF GapMemBlock, Biggest
    <2> QED
      BY <2>1, <2>4 DEF GapInv, OsInHeap
  <1>3. CASE AllocFdt
    <2>1. /\ UNCHANGED <<first_fit, pc, os, boot_param, mem_block>>
          /\ pc = "prompt" /\ Busy' = Busy
      BY <1>3 DEF AllocFdt, Busy
    <2>2. fdt # NULL => fdt' # NULL
      <3> SUFFICES ASSUME fdt # NULL PROVE fdt' # NULL
        OBVIOUS
      <3>1. fdt' = ALIGN(fdt) /\ fdt \in Nat
        BY <1>3, WordSizeAssumption DEF AllocFdt, Inv, TypeOK, Word
      <3>2. ALIGN(fdt) \in Nat /\ fdt <= ALIGN(fdt)
        BY <3>1, AlignUp
      <3> QED
        BY <3>1, <3>2 DEF NULL
    <2>3. ASSUME NEW c, Biggest(c), Busy' = Busy PROVE Biggest(c)'
      BY <2>3 DEF Biggest
    <2>4. GapPrompt => GapPrompt'
      BY <2>1, <2>3 DEF GapPrompt
    <2> QED
      BY <2>1, <2>2, <2>4 DEF GapInv, OsInHeap
  <1>4. CASE Exit
    <2>1. pc' = "boot_param" /\ os' \subseteq os \cup live
      BY <1>4 DEF Exit
    <2>2. \A b \in live : b \in Block /\ b.start + b.size <= HeapEnd
      BY DEF Inv, BlocksInv, InHeap
    <2> QED
      BY <2>1, <2>2 DEF GapInv, OsInHeap
  <1>5. CASE UNCHANGED vars
    BY <1>5 DEF vars, GapInv, OsInHeap, GapGrow, GapStart, GapMemBlock, GapPrompt, Biggest,
                Busy
  <1> QED
    BY <1>1, <1>2, <1>3, <1>4, <1>5, GapGrowInv, GapAllocMemBlockInv DEF Next

LEMMA GapInvHolds == Spec => []GapInv
  <1>1. Inv /\ GapInv /\ [Next]_vars => GapInv'
    BY GapNextInv
  <1> QED
    BY <1>1, GapInitInv, InvHolds, PTL DEF Spec

(* A gap that holds k whole increments, and not one more. *)
LEMMA DivUnique ==
  ASSUME NEW n \in Nat \ {0}, NEW k \in Nat, NEW g \in Nat,
         k * n <= g, g < k * n + n
  PROVE  g \div n = k
  <1> DEFINE q == g \div n
  <1>1. q \in Int /\ q * n <= g /\ g < q * n + n
    OBVIOUS
  <1> HIDE DEF q
  <1>2. (q - k) * n = q * n - k * n
    BY <1>1
  <1>3. -n < (q - k) * n /\ (q - k) * n < n
    <2>1. q * n \in Int /\ k * n \in Int
      BY <1>1
    <2> QED
      BY <1>1, <1>2, <2>1
  <1>4. q - k >= 1 => (q - k) * n >= n
    BY <1>1
  <1>5. q - k <= -1 => (q - k) * n <= -n
    BY <1>1
  <1>6. q = k
    BY <1>1, <1>3, <1>4, <1>5
  <1> QED
    BY <1>6 DEF q

Less == {ss \in Nat \X Nat : ss[1] < ss[2]}

(* A set of natural numbers that is not empty has a smallest element. *)
LEMMA Smallest ==
  ASSUME NEW T, T \subseteq Nat, T # {}
  PROVE  \E x \in T : \A y \in T : x <= y
  <1>1. IsWellFoundedOn(Less, Nat)
    BY NatLessThanWellFounded DEF OpToRel, Less
  <1>2. PICK x \in T : \A y \in T : <<y, x>> \notin Less
    BY <1>1, WFMin
  <1>3. ASSUME NEW y \in T PROVE x <= y
    <2>1. x \in Nat /\ y \in Nat /\ <<y, x>> \notin Less
      BY <1>2
    <2>2. ~(y < x)
      BY <2>1 DEF Less
    <2> QED
      BY <2>1, <2>2
  <1> QED
    BY <1>2, <1>3

(* A set of natural numbers that is bounded and not empty has a largest    *)
(* element.                                                                *)
LEMMA LargestOf ==
  ASSUME NEW n \in Nat, NEW T, T \subseteq 0 .. n, T # {}
  PROVE  \E x \in T : \A y \in T : y <= x
  <1> DEFINE D == {n - y : y \in T}
  <1>1. D \subseteq Nat /\ D # {}
    <2>1. \A y \in T : n - y \in Nat
      OBVIOUS
    <2> QED
      BY <2>1
  <1>2. PICK d \in D : \A e \in D : d <= e
    <2> HIDE DEF D
    <2> QED
      BY <1>1, Smallest
  <1>3. PICK x \in T : d = n - x
    OBVIOUS
  <1>4. ASSUME NEW y \in T PROVE y <= x
    <2>1. n - y \in D
      OBVIOUS
    <2>2. n - x <= n - y
      BY <1>2, <1>3, <2>1
    <2> QED
      BY <2>2
  <1> QED
    BY <1>4

(* There is a largest gap, even if it is empty. *)
LEMMA LargestGapIs ==
  ASSUME NEW busy,
         \A b \in busy : b \in Block /\ b.start + b.size <= HeapEnd
  PROVE  /\ LargestGap(busy) \in 0 .. HeapEnd
         /\ Starts(LargestGap(busy), busy) # {}
         /\ \A m \in LargestGap(busy) + 1 .. HeapEnd : Starts(m, busy) = {}
  <1> DEFINE T == {n \in 0 .. HeapEnd : Starts(n, busy) # {}}
  <1>1. HeapEnd \in Nat /\ HeapStart \in Nat /\ HeapStart <= HeapEnd
    BY HeapAssumption, WordSizeAssumption DEF Word
  <1>2. HeapEnd \in Starts(0, busy)
    <2>1. ASSUME NEW b \in busy PROVE Disjoint([start |-> HeapEnd, size |-> 0], b)
      BY DEF Disjoint
    <2> QED
      BY <1>1, <2>1 DEF Starts
  <1>3. T \subseteq 0 .. HeapEnd /\ T # {}
    BY <1>1, <1>2
  <1>4. PICK x \in T : \A y \in T : y <= x
    <2> HIDE DEF T
    <2> QED
      BY <1>1, <1>3, LargestOf
  <1>5. /\ x \in 0 .. HeapEnd /\ Starts(x, busy) # {}
        /\ \A m \in x + 1 .. HeapEnd : Starts(m, busy) = {}
    <2>1. x \in 0 .. HeapEnd /\ Starts(x, busy) # {}
      OBVIOUS
    <2>2. ASSUME NEW m \in x + 1 .. HeapEnd PROVE Starts(m, busy) = {}
      <3>1. m \in 0 .. HeapEnd /\ ~(m <= x)
        BY <1>1, <2>1
      <3> QED
        BY <1>4, <3>1
    <2> QED
      BY <2>1, <2>2
  <1> QED
    BY <1>5 DEF LargestGap

(* max_malloc finds the largest gap, as the comment before it says: with   *)
(* an allocator that takes the first gap that fits, for every heap, every  *)
(* increment and every set of blocks the OS has in the heap.               *)
THEOREM AlwaysLargest == Spec => []Largest
  <1>1. Inv /\ GapInv => Largest
    <2> SUFFICES ASSUME Inv, GapInv, first_fit, pc = "prompt", fdt = NULL
                 PROVE  LET incs == (LargestGap(Busy) \div INC_BLOCK_SIZE)
                                      * INC_BLOCK_SIZE IN
                        mem_block.size = IF incs <= FDT_SIZE_MAX THEN 0
                                         ELSE incs - FDT_SIZE_MAX
      BY DEF Largest, Busy
    <2> DEFINE g == LargestGap(Busy)
               n == INC_BLOCK_SIZE
    <2>1. PICK c \in Nat :
            /\ Biggest(c)
            /\ mem_block.size = IF c <= FDT_SIZE_MAX THEN 0 ELSE c - FDT_SIZE_MAX
      BY DEF GapInv, GapPrompt
    <2>2. \A b \in Busy : b \in Block /\ b.start + b.size <= HeapEnd
      BY BusyBlocks DEF GapInv
    <2>3. /\ g \in 0 .. HeapEnd /\ Starts(g, Busy) # {}
          /\ \A m \in g + 1 .. HeapEnd : Starts(m, Busy) = {}
      BY <2>2, LargestGapIs
    <2>4. n \in Nat \ {0} /\ HeapEnd \in Nat
      BY HeapAssumption, SizesAssumption, WordSizeAssumption DEF Word
    <2> HIDE DEF g
    <2>5. c <= g
      <3> SUFFICES ASSUME c # 0 PROVE c <= g
        BY <2>3
      <3>1. Starts(c, Busy) # {}
        BY <2>1 DEF Biggest
      <3>2. c <= HeapEnd
        <4>1. PICK a \in Starts(c, Busy) : TRUE
          BY <3>1
        <4>2. a \in Nat /\ a + c <= HeapEnd
          BY HeapAssumption, WordSizeAssumption DEF Starts, Word
        <4> QED
          BY <2>4, <4>2
      <3> QED
        BY <2>3, <2>4, <3>1, <3>2
    <2>6. g < c + n
      <3> SUFFICES ASSUME c + n <= g PROVE FALSE
        BY <2>3, <2>4
      <3>1. Starts(g, Busy) \subseteq Starts(c + n, Busy)
        BY <2>2, <2>3, <2>4, StartsLess
      <3> QED
        BY <2>1, <2>3, <3>1 DEF Biggest
    <2>7. PICK k \in Nat : c = k * n
      <3>1. c % n = 0
        BY <2>1 DEF Biggest
      <3> DEFINE q == c \div n
      <3>2. q \in Nat /\ c = q * n + (c % n)
        BY <2>4
      <3> HIDE DEF q
      <3>3. q * n \in Int
        BY <2>4, <3>2
      <3>4. c = q * n
        BY <3>1, <3>2, <3>3
      <3> QED
        BY <3>2, <3>4
    <2>8. g \div n = k
      <3>1. g \in Nat /\ k * n <= g /\ g < k * n + n
        BY <2>3, <2>5, <2>6, <2>7
      <3> HIDE DEF n
      <3> QED
        BY <2>4, <3>1, DivUnique
    <2>9. (g \div n) * n = c
      BY <2>7, <2>8
    <2> QED
      BY <2>1, <2>9 DEF g
  <1> QED
    BY <1>1, InvHolds, GapInvHolds, PTL

(* The reservation for the FDT does what its comment says: with such an    *)
(* allocator, after max_malloc has let its block go and mem_block has been *)
(* allocated, FDT_SIZE_MAX bytes are left in one piece.                    *)
THEOREM AlwaysFdtReserved == Spec => []FdtReserved
  <1>1. Inv /\ GapInv => FdtReserved
    <2> SUFFICES ASSUME Inv, GapInv, first_fit, pc = "prompt", fdt = NULL,
                        mem_block.size # 0
                 PROVE  NoBlock \notin malloc(FDT_SIZE_MAX)
      BY DEF FdtReserved
    <2> DEFINE F == FDT_SIZE_MAX
    <2>1. PICK c \in Nat : Biggest(c) /\ c > F /\ mem_block.size = c - F
      <3>1. PICK c \in Nat :
              /\ Biggest(c)
              /\ mem_block.size = IF c <= F THEN 0 ELSE c - F
        BY DEF GapInv, GapPrompt
      <3> QED
        BY <3>1, SizesAssumption
    <2>2. F \in Nat \ {0} /\ HeapEnd \in Nat /\ HeapStart \in Nat \ {0}
      BY HeapAssumption, SizesAssumption, WordSizeAssumption DEF Word, NULL
    <2> DEFINE a == mem_block.start
               s == c - F
    <2>3. a \in Starts(s, Busy) /\ \A x \in Starts(s, Busy) : a <= x
      BY <2>1 DEF GapInv, GapPrompt, Lowest
    <2>4. \A b \in Busy : b \in Block
      BY BusyBlocks DEF GapInv
    <2>5. PICK p \in Starts(c, Busy) : TRUE
      BY <2>1, <2>2 DEF Biggest
    <2>6. a <= p
      <3>1. p \in Starts(s, Busy)
        BY <2>1, <2>2, <2>4, StartsLess
      <3> QED
        BY <2>3, <3>1
    <2>7. /\ a \in Nat /\ p \in Nat /\ a >= HeapStart /\ p >= HeapStart
          /\ p <= HeapEnd /\ p + c <= HeapEnd
      BY <2>2, <2>3 DEF Starts
    <2>8. \A b \in os \cup live : b \in Busy \/ b = mem_block
      <3> SUFFICES ASSUME NEW b \in live PROVE b \in Busy \/ b = mem_block
        BY DEF Busy
      <3>1. IsBootParam(b) \/ IsMemBlock(b)
        BY DEF Inv, StepInv, PromptInv, IsFdt
      <3>2. b \in Block /\ b # NoBlock /\ mem_block \in Block /\ boot_param \in Block
        BY InHeapFacts DEF Inv, BlocksInv, TypeOK, InHeap
      <3>3. IsBootParam(b) => b = boot_param
        BY <3>2 DEF IsBootParam, Block
      <3>4. IsMemBlock(b) => b = mem_block
        BY <3>2 DEF IsMemBlock, Block
      <3> QED
        BY <3>1, <3>2, <3>3, <3>4 DEF Busy, Allocated
    <2> DEFINE r == IF a + s <= p THEN p ELSE p + s
    <2>9. r \in Starts(F, os \cup live)
      <3>1. r \in HeapStart .. HeapEnd /\ r + F <= HeapEnd
        BY <2>1, <2>2, <2>7
      <3>2. ASSUME NEW b \in Busy PROVE Disjoint([start |-> r, size |-> F], b)
        <4>1. Disjoint([start |-> p, size |-> c], b) /\ b.start \in Nat /\ b.size \in Nat
          BY <2>4, WordSizeAssumption DEF Starts, Block, Word
        <4> QED
          BY <2>1, <2>2, <2>7, <4>1 DEF Disjoint
      <3>3. Disjoint([start |-> r, size |-> F], mem_block)
        BY <2>1, <2>2, <2>6, <2>7 DEF Disjoint
      <3> HIDE DEF r
      <3> QED
        BY <2>8, <3>1, <3>2, <3>3 DEF Starts
    <2>10. ASSUME NoBlock \in malloc(F) PROVE FALSE
      <3>1. Starts(F, os \cup live) = {}
        BY <2>2, <2>10, FirstFitMalloc
      <3> QED
        BY <2>9, <3>1
    <2> QED
      BY <2>10
  <1> QED
    BY <1>1, InvHolds, GapInvHolds, PTL

=============================================================================
