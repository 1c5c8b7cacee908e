---------------------------- MODULE ImagesProofs ----------------------------
(***************************************************************************)
(* Proofs about Images, for every address space, page size, set of files   *)
(* and allocator result that satisfies the assumptions.                    *)
(***************************************************************************)
EXTENDS Images, TLAPS

(* The shape of the layout, which no command breaks, whether or not it     *)
(* should have been refused: the kernel is anchored at the start of        *)
(* mem_block, the initrd at its end, and the flags agree with the sizes.   *)
Anchored ==
  /\ Allocatable(mem_block) /\ Allocatable(boot_param)
  /\ Disjoint(mem_block, boot_param)
  /\ ~running => kernel = NoImage /\ initrd = NoImage
  /\ kernel_loaded <=> kernel.size # 0
  /\ kernel_loaded => kernel.addr = mem_block.start
  /\ delivered.kernel.count = kernel.size
  /\ initrd_loaded <=> initrd.size # 0
  /\ initrd_loaded => AddW(initrd.addr, initrd.size) = mem_block_end
  /\ delivered.initrd.count <= initrd.size

Inv == TypeOK /\ Anchored

-----------------------------------------------------------------------------
(* Words stay words, and a page boundary is at most a page below.          *)
LEMMA WordArithmetic ==
  ASSUME NEW a \in Word, NEW b \in Word
  PROVE  /\ AddW(a, b) \in Word
         /\ SubW(a, b) \in Word
         /\ AddW(SubW(a, b), b) = a
         /\ AddW(b, SubW(a, b)) = a
  BY WordSizeAssumption DEF Word, AddW, SubW

(* AddW and SubW are addition and subtraction modulo the word size.        *)
LEMMA WordsWrap ==
  ASSUME NEW a \in Word, NEW b \in Word
  PROVE  AddW(a, b) = (a + b) % WordSize /\ SubW(a, b) = (a - b) % WordSize
  <1>1. AddW(a, b) = (a + b) % WordSize
    BY WordSizeAssumption DEF Word, AddW
  <1>2. SubW(a, b) = (a - b) % WordSize
    BY WordSizeAssumption DEF Word, SubW
  <1> QED BY <1>1, <1>2

LEMMA PageDownBounds ==
  ASSUME NEW a \in Word
  PROVE  PageDown(a) \in Word /\ PageDown(a) <= a /\ a - PageDown(a) < PageSize
  <1>1. a % PageSize \in 0 .. PageSize - 1
    BY PageSizeAssumption DEF Word
  <1>2. a % PageSize <= a
    BY PageSizeAssumption DEF Word
  <1> QED BY <1>1, <1>2, WordSizeAssumption, PageSizeAssumption DEF Word, PageDown

(* A write of count bytes at dst touches no address outside them.          *)
LEMMA OutsideWrite ==
  ASSUME NEW a \in Word, NEW dst \in Word, NEW count \in Nat,
         dst + count <= WordSize, a < dst \/ dst + count <= a
  PROVE  ~(SubW(a, dst) < count)
  BY WordSizeAssumption DEF Word, SubW

(* The space load_initrd computes for a file holds the file, from a page   *)
(* boundary to the end of mem_block.                                       *)
LEMMA InitrdPlacement ==
  ASSUME TypeOK, NEW f \in Files
  PROVE  /\ mem_block_end \in Word
         /\ initrd_laddr(f) \in Word
         /\ needed_size(f) \in Word
         /\ FileSize[f] <= needed_size(f)
         /\ AddW(initrd_laddr(f), needed_size(f)) = mem_block_end
  <1> DEFINE fs == FileSize[f]
             below == SubW(mem_block_end, fs)
  <1>1. fs \in Word /\ fs + PageSize < WordSize
    BY FilesAssumption
  <1>2. mem_block_end \in Word
    BY WordArithmetic DEF mem_block_end, TypeOK, Block
  <1>3. below \in Word
    BY <1>1, <1>2, WordArithmetic
  <1>4. /\ initrd_laddr(f) \in Word
        /\ initrd_laddr(f) <= below
        /\ below - initrd_laddr(f) < PageSize
    BY <1>3, PageDownBounds DEF initrd_laddr
  <1>5. needed_size(f) \in Word
    BY <1>2, <1>4, WordArithmetic DEF needed_size
  <1>6. AddW(initrd_laddr(f), needed_size(f)) = mem_block_end
    BY <1>2, <1>4, WordArithmetic DEF needed_size
  <1>7. fs <= needed_size(f)
    <2> HIDE DEF fs
    <2> SUFFICES fs <= SubW(mem_block_end, initrd_laddr(f))
      BY DEF needed_size
    <2> QED
      BY <1>1, <1>2, <1>3, <1>4, PageSizeAssumption, WordSizeAssumption
      DEF Word, SubW
  <1> QED BY <1>2, <1>4, <1>5, <1>6, <1>7

-----------------------------------------------------------------------------
(* Reading a file into memory leaves the contents of memory well typed.    *)
LEMMA FreadType ==
  ASSUME TypeOK, NEW dst \in Word, NEW f \in Files, NEW count \in Nat,
         Fread(dst, f, count)
  PROVE  /\ ram' \in [Word -> Content]
         /\ \A a \in Word : ram'[a] = IF SubW(a, dst) < count
                                      THEN Byte(f, SubW(a, dst)) ELSE ram[a]
  <1>1. ASSUME NEW a \in Word PROVE SubW(a, dst) \in Word
    BY WordArithmetic
  <1>2. ASSUME NEW a \in Word
        PROVE (IF SubW(a, dst) < count THEN Byte(f, SubW(a, dst)) ELSE ram[a])
                \in Content
    BY <1>1, <1>2 DEF TypeOK, Content, Byte
  <1> QED BY <1>2 DEF Fread

LEMMA InitInv == Init => Inv
  <1> SUFFICES ASSUME Init PROVE Inv
    OBVIOUS
  <1> USE WordSizeAssumption
  <1>1. 0 \in Word
    BY DEF Word
  <1>2. TypeOK
    BY <1>1 DEF Init, TypeOK, NoImage, NoBlock, NULL, Nothing, Image, Block,
       Delivery, Content
  <1>3. Anchored
    BY <1>1 DEF Init, Anchored, NoImage, NoBlock, NULL, Nothing, Block,
       Allocatable, Disjoint, Word
  <1> QED BY <1>2, <1>3 DEF Inv

LEMMA StartUpInv == Inv /\ StartUp => Inv'
  <1> SUFFICES ASSUME Inv, StartUp PROVE Inv'
    OBVIOUS
  <1> USE WordSizeAssumption DEF Inv, StartUp
  <1>1. 0 \in Word
    BY DEF Word
  <1>2. /\ Allocatable(mem_block') /\ Allocatable(boot_param')
        /\ Disjoint(mem_block', boot_param')
    BY BlocksAssumption
  <1>3. TypeOK'
    BY <1>1, <1>2 DEF TypeOK, NoImage, NULL, Nothing, Image, Delivery,
       Allocatable
  <1>4. Anchored'
    BY <1>1, <1>2 DEF Anchored, NoImage, NULL, Nothing
  <1> QED BY <1>3, <1>4

LEMMA LoadKernelInv == ASSUME NEW f \in Files PROVE Inv /\ LoadKernel(f) => Inv'
  <1> SUFFICES ASSUME Inv, LoadKernel(f) PROVE Inv'
    OBVIOUS
  <1> USE DEF Inv
  <1>1. PICK count \in ReadCounts[f] :
          /\ kernel' = [addr |-> mem_block.start, size |-> count]
          /\ kernel_loaded' = (count # 0)
          /\ Fread(mem_block.start, f, count)
          /\ delivered' = [delivered EXCEPT
                             !.kernel = [file |-> f, count |-> count]]
    BY DEF LoadKernel
  <1>2. count \in Word
    BY FilesAssumption, WordSizeAssumption DEF Word
  <1>3. mem_block.start \in Word
    BY DEF TypeOK, Block
  <1>4. ram' \in [Word -> Content]
    BY <1>1, <1>2, <1>3, FreadType DEF Word
  <1>5. TypeOK'
    BY <1>1, <1>2, <1>3, <1>4 DEF LoadKernel, TypeOK, Image, Delivery
  <1>6. Anchored'
    BY <1>1, <1>2 DEF LoadKernel, Anchored, TypeOK, Delivery, mem_block_end
  <1> QED BY <1>5, <1>6

LEMMA LoadInitrdInv == ASSUME NEW f \in Files PROVE Inv /\ LoadInitrd(f) => Inv'
  <1> SUFFICES ASSUME Inv, LoadInitrd(f) PROVE Inv'
    OBVIOUS
  <1> USE DEF Inv
  <1>1. PICK count \in ReadCounts[f] :
          /\ Fread(initrd_laddr(f), f, count)
          /\ delivered' = [delivered EXCEPT
                             !.initrd = [file |-> f, count |-> count]]
    BY DEF LoadInitrd
  <1>2. count \in Word /\ count <= FileSize[f] /\ FileSize[f] \in Word
    BY FilesAssumption, WordSizeAssumption DEF Word
  <1>3. /\ initrd_laddr(f) \in Word
        /\ needed_size(f) \in Word
        /\ FileSize[f] <= needed_size(f)
        /\ AddW(initrd_laddr(f), needed_size(f)) = mem_block_end
    BY InitrdPlacement
  <1>4. ram' \in [Word -> Content]
    BY <1>1, <1>2, <1>3, FreadType DEF Word
  <1>5. TypeOK'
    BY <1>1, <1>2, <1>3, <1>4 DEF LoadInitrd, TypeOK, Image, Delivery
  <1>6. count <= needed_size(f)
    BY <1>2, <1>3 DEF Word
  <1>7. Anchored'
    BY <1>1, <1>2, <1>3, <1>6
    DEF LoadInitrd, InitrdAccepted, Anchored, TypeOK, Delivery, mem_block_end
  <1> QED BY <1>5, <1>7

LEMMA LoadDtbInv == ASSUME NEW f \in Files PROVE Inv /\ LoadDtb(f) => Inv'
  <1> SUFFICES ASSUME Inv, LoadDtb(f) PROVE Inv'
    OBVIOUS
  <1> USE DEF Inv
  <1>1. PICK count \in ReadCounts[f] : Fread(boot_param.start, f, count)
    BY DEF LoadDtb
  <1>2. count \in Word
    BY FilesAssumption, WordSizeAssumption DEF Word
  <1>3. ram' \in [Word -> Content]
    BY <1>1, <1>2, FreadType DEF Word, TypeOK, Block
  <1>4. TypeOK'
    BY <1>3 DEF LoadDtb, TypeOK
  <1>5. Anchored'
    BY DEF LoadDtb, Anchored, mem_block_end
  <1> QED BY <1>4, <1>5

LEMMA OtherInv == Inv /\ (UnloadInitrd \/ Exit \/ UNCHANGED vars) => Inv'
  <1> USE WordSizeAssumption DEF Inv
  <1>1. 0 \in Word
    BY DEF Word
  <1>2. Inv /\ UnloadInitrd => Inv'
    <2> SUFFICES ASSUME Inv, UnloadInitrd PROVE Inv'
      OBVIOUS
    <2>1. TypeOK'
      BY <1>1 DEF UnloadInitrd, TypeOK, NoImage, NULL, Nothing, Image, Delivery
    <2>2. Anchored'
      BY <1>1 DEF UnloadInitrd, TypeOK, Anchored, NoImage, NULL, Nothing,
         Delivery, mem_block_end
    <2> QED BY <2>1, <2>2
  <1>3. Inv /\ Exit => Inv'
    <2> SUFFICES ASSUME Inv, Exit PROVE Inv'
      OBVIOUS
    <2>1. TypeOK'
      BY <1>1 DEF Exit, TypeOK, NoImage, NoBlock, NULL, Nothing, Image, Block,
         Delivery
    <2>2. Anchored'
      BY <1>1 DEF Exit, Anchored, NoImage, NoBlock, NULL, Nothing, Block,
         Allocatable, Disjoint, Word
    <2> QED BY <2>1, <2>2
  <1>4. Inv /\ UNCHANGED vars => Inv'
    BY DEF vars, TypeOK, Anchored, mem_block_end
  <1> QED BY <1>2, <1>3, <1>4

LEMMA NextInv == Inv /\ [Next]_vars => Inv'
  BY StartUpInv, LoadKernelInv, LoadInitrdInv, LoadDtbInv, OtherInv
  DEF Next, Load

THEOREM InvHolds == Spec => []Inv
  BY InitInv, NextInv, PTL DEF Spec

(* Every field of settings keeps its type, whatever images are loaded and  *)
(* however large: no load stores an address or a size that is not a word.  *)
THEOREM TypeCorrect == Spec => []TypeOK
  BY InvHolds, PTL DEF Inv

-----------------------------------------------------------------------------
(* A write puts the bytes of the file where it says.                       *)
LEMMA Written ==
  ASSUME TypeOK, NEW dst \in Word, NEW f \in Files, NEW count \in Nat,
         Fread(dst, f, count), dst + count <= WordSize
  PROVE  \A i \in 0 .. count - 1 : ram'[AddW(dst, i)] = Byte(f, i)
  <1> SUFFICES ASSUME NEW i \in 0 .. count - 1
               PROVE  ram'[AddW(dst, i)] = Byte(f, i)
    OBVIOUS
  <1>1. /\ AddW(dst, i) \in Word
        /\ SubW(AddW(dst, i), dst) = i
    BY WordSizeAssumption DEF Word, AddW, SubW
  <1> QED BY <1>1, FreadType

(* A write leaves the bytes of an image alone that lies below or above it. *)
LEMMA Untouched ==
  ASSUME TypeOK, NEW dst \in Word, NEW f \in Files, NEW count \in Nat,
         Fread(dst, f, count), dst + count <= WordSize,
         NEW addr \in Word, NEW n \in Nat, addr + n <= WordSize,
         addr + n <= dst \/ dst + count <= addr
  PROVE  \A i \in 0 .. n - 1 : ram'[AddW(addr, i)] = ram[AddW(addr, i)]
  <1> SUFFICES ASSUME NEW i \in 0 .. n - 1
               PROVE  ram'[AddW(addr, i)] = ram[AddW(addr, i)]
    OBVIOUS
  <1>1. AddW(addr, i) \in Word /\ AddW(addr, i) = addr + i
    BY WordSizeAssumption DEF Word, AddW
  <1>2. AddW(addr, i) < dst \/ dst + count <= AddW(addr, i)
    BY <1>1 DEF Word
  <1>3. ~(SubW(AddW(addr, i), dst) < count)
    BY <1>1, <1>2, OutsideWrite
  <1> QED BY <1>1, <1>3, FreadType

(* Where images that fit next to each other lie: the addresses are sums of *)
(* integers, nothing wraps.                                                *)
LEMMA Layout ==
  ASSUME Inv, kernel.size + initrd.size <= mem_block.size
  PROVE  /\ mem_block.start \in Word /\ mem_block.size \in Word
         /\ mem_block.start + mem_block.size < WordSize
         /\ mem_block_end = mem_block.start + mem_block.size
         /\ kernel.size \in Word /\ initrd.size \in Word
         /\ kernel_loaded => kernel.addr = mem_block.start
         /\ initrd_loaded => /\ initrd.addr \in Word
                             /\ initrd.addr + initrd.size = mem_block_end
  <1>1. /\ mem_block.start \in Word /\ mem_block.size \in Word
        /\ mem_block.start + mem_block.size < WordSize
        /\ kernel.size \in Word /\ initrd.size \in Word
        /\ initrd.addr \in Word
    BY DEF Inv, TypeOK, Anchored, Allocatable, Block, Image
  <1>2. mem_block_end = mem_block.start + mem_block.size
    BY <1>1 DEF mem_block_end, AddW
  <1>3. initrd_loaded => AddW(initrd.addr, initrd.size) = mem_block_end
    BY DEF Inv, Anchored
  <1>4. initrd_loaded => initrd.addr + initrd.size = mem_block_end
    BY <1>1, <1>2, <1>3, WordSizeAssumption DEF AddW, Word
  <1> QED BY <1>1, <1>2, <1>4 DEF Inv, Anchored

(* The free memory of memory.h is what it says while the images fit.       *)
LEMMA SpaceExact ==
  ASSUME Inv, kernel.size + initrd.size <= mem_block.size
  PROVE  /\ ~KernelSpaceWraps
            => kernel_space = mem_block.size - 2 * kernel.size - initrd.size
         /\ ~InitrdSpaceWraps
            => initrd_space = mem_block.size - kernel.size - 2 * initrd.size
  <1>1. /\ mem_block.size \in Word /\ kernel.size \in Word
        /\ initrd.size \in Word
    BY DEF Inv, TypeOK, Block, Image
  <1>2. mem_block_size_free = mem_block.size - kernel.size - initrd.size
    BY <1>1 DEF mem_block_size_free, SubW, Word
  <1> QED
    BY <1>1, <1>2, WordSizeAssumption
    DEF KernelSpaceWraps, InitrdSpaceWraps, kernel_space, initrd_space, SubW,
        Word

LEMMA StillCovered == Inv' => Covered'
  BY WordSizeAssumption DEF Inv, Anchored, TypeOK, Image, Word, Covered

(* A kernel that is accepted without its space wrapping, or is as long as  *)
(* the last one, disturbs nothing.                                         *)
LEMMA KernelInPlace ==
  ASSUME Inv, InPlace, NEW f \in Files, LoadKernel(f),
         kernel'.size # kernel.size => ~KernelSpaceWraps
  PROVE  InPlace'
  <1> DEFINE M == mem_block
  <1>1. PICK count \in ReadCounts[f] :
          /\ kernel' = [addr |-> M.start, size |-> count]
          /\ Fread(M.start, f, count)
          /\ delivered' = [delivered EXCEPT
                             !.kernel = [file |-> f, count |-> count]]
    BY DEF LoadKernel
  <1>2. /\ count \in Nat /\ count <= FileSize[f] /\ FileSize[f] \in Word
    BY FilesAssumption, WordSizeAssumption DEF Word
  <1>3. kernel.size + initrd.size <= M.size
    BY DEF InPlace
  <1>4. /\ M.start \in Word /\ M.size \in Word
        /\ M.start + M.size < WordSize
        /\ kernel.size \in Word /\ initrd.size \in Word
        /\ initrd_loaded => /\ initrd.addr \in Word
                            /\ initrd.addr + initrd.size = M.start + M.size
    BY <1>3, Layout
  <1>5. kernel'.size = count /\ UNCHANGED <<initrd, initrd_loaded, mem_block>>
    BY <1>1 DEF LoadKernel
  <1>6. count + initrd.size <= M.size
    <2>1. CASE count = kernel.size
      BY <2>1, <1>3
    <2>2. CASE count # kernel.size
      <3>1. FileSize[f] <= M.size - 2 * kernel.size - initrd.size
        BY <2>2, <1>3, <1>5, SpaceExact DEF LoadKernel, KernelAccepted
      <3> QED BY <3>1, <1>2, <1>4 DEF Word
    <2> QED BY <2>1, <2>2
  <1>7. Intact(kernel, delivered.kernel)'
    <2>1. M.start + count <= WordSize
      BY <1>2, <1>4, <1>6, WordSizeAssumption DEF Word
    <2>2. \A i \in 0 .. count - 1 : ram'[AddW(M.start, i)] = Byte(f, i)
      BY <2>1, <1>1, <1>2, <1>4, Written DEF Inv
    <2>3. delivered'.kernel = [file |-> f, count |-> count]
      BY <1>1 DEF Inv, TypeOK
    <2> QED BY <2>2, <2>3, <1>1 DEF Intact
  <1>8. InitrdIntact'
    <2> SUFFICES ASSUME initrd_loaded PROVE Intact(initrd, delivered.initrd)'
      BY <1>5 DEF InitrdIntact
    <2>1. delivered'.initrd = delivered.initrd
      BY <1>1 DEF Inv, TypeOK
    <2>2. /\ delivered.initrd.count \in Nat
          /\ delivered.initrd.count <= initrd.size
      BY DEF Inv, TypeOK, Anchored, Delivery, Word
    <2>3. \A i \in 0 .. delivered.initrd.count - 1 :
            ram'[AddW(initrd.addr, i)] = ram[AddW(initrd.addr, i)]
      <3>1. /\ M.start + count <= WordSize
            /\ M.start + count <= initrd.addr
            /\ initrd.addr + delivered.initrd.count <= WordSize
        BY <2>2, <1>2, <1>4, <1>6, WordSizeAssumption DEF Word
      <3> QED BY <3>1, <2>2, <1>1, <1>2, <1>4, Untouched DEF Inv
    <2> QED BY <2>1, <2>3, <1>5 DEF InPlace, InitrdIntact, Intact
  <1>9. Covered'
    BY LoadKernelInv, StillCovered
  <1> QED BY <1>5, <1>6, <1>7, <1>8, <1>9 DEF InPlace, KernelIntact

(* The same of an initrd: it ends where mem_block ends, so it begins at    *)
(* or above the end of the kernel.                                         *)
LEMMA InitrdInPlace ==
  ASSUME Inv, InPlace, NEW f \in Files, LoadInitrd(f),
         initrd'.size # initrd.size => ~InitrdSpaceWraps
  PROVE  InPlace'
  <1> DEFINE M == mem_block
             dst == initrd_laddr(f)
             n == needed_size(f)
  <1>1. PICK count \in ReadCounts[f] :
          /\ Fread(dst, f, count)
          /\ delivered' = [delivered EXCEPT
                             !.initrd = [file |-> f, count |-> count]]
    BY DEF LoadInitrd
  <1>2. kernel.size + initrd.size <= M.size
    BY DEF InPlace
  <1>3. /\ M.start \in Word /\ M.size \in Word
        /\ M.start + M.size < WordSize
        /\ mem_block_end = M.start + M.size
        /\ kernel.size \in Word /\ initrd.size \in Word
        /\ kernel_loaded => kernel.addr = M.start
    BY <1>2, Layout
  <1>4. /\ dst \in Word /\ n \in Word /\ FileSize[f] <= n
        /\ AddW(dst, n) = mem_block_end
    BY InitrdPlacement DEF Inv
  <1>5. count \in Nat /\ count <= n
    BY <1>4, FilesAssumption, WordSizeAssumption DEF Word
  <1>6. /\ initrd' = [addr |-> dst, size |-> n]
        /\ UNCHANGED <<kernel, kernel_loaded, mem_block>>
    BY DEF LoadInitrd
  <1> HIDE DEF dst, n
  <1>7. kernel.size + n <= M.size
    <2>1. CASE n = initrd.size
      BY <2>1, <1>2
    <2>2. CASE n # initrd.size
      <3>1. n <= M.size - kernel.size - 2 * initrd.size
        BY <2>2, <1>2, <1>6, SpaceExact DEF LoadInitrd, InitrdAccepted, n
      <3> QED BY <3>1, <1>3, <1>4 DEF Word
    <2> QED BY <2>1, <2>2
  <1>8. dst + n = M.start + M.size
    BY <1>3, <1>4, <1>7, WordSizeAssumption DEF AddW, Word
  <1>9. dst + count <= WordSize
    BY <1>3, <1>4, <1>5, <1>8, WordSizeAssumption DEF Word
  <1>10. Intact(initrd, delivered.initrd)'
    <2>1. \A i \in 0 .. count - 1 : ram'[AddW(dst, i)] = Byte(f, i)
      BY <1>1, <1>4, <1>5, <1>9, Written DEF Inv
    <2>2. delivered'.initrd = [file |-> f, count |-> count]
      BY <1>1 DEF Inv, TypeOK
    <2> QED BY <2>1, <2>2, <1>6 DEF Intact
  <1>11. KernelIntact'
    <2> SUFFICES ASSUME kernel_loaded PROVE Intact(kernel, delivered.kernel)'
      BY <1>6 DEF KernelIntact
    <2>1. delivered'.kernel = delivered.kernel
      BY <1>1 DEF Inv, TypeOK
    <2>2. delivered.kernel.count = kernel.size
      BY DEF Inv, Anchored
    <2>3. M.start + kernel.size <= dst
      BY <1>3, <1>4, <1>7, <1>8, WordSizeAssumption DEF Word
    <2>4. M.start + kernel.size <= WordSize
      BY <1>3, <1>2, WordSizeAssumption DEF Word
    <2>5. kernel.size \in Nat
      BY <1>3, WordSizeAssumption DEF Word
    <2>6. \A i \in 0 .. kernel.size - 1 :
            ram'[AddW(M.start, i)] = ram[AddW(M.start, i)]
      BY <2>3, <2>4, <2>5, <1>1, <1>3, <1>4, <1>5, <1>9, Untouched DEF Inv
    <2> QED
      BY <2>1, <2>2, <2>6, <1>3, <1>6 DEF InPlace, KernelIntact, Intact
  <1>12. Covered'
    BY LoadInitrdInv, StillCovered
  <1> QED BY <1>6, <1>7, <1>10, <1>11, <1>12 DEF InPlace, InitrdIntact

(* A DTB is read into boot_param and stays inside it, so no byte of an     *)
(* image changes.                                                          *)
LEMMA DtbUntouched ==
  ASSUME Inv, InPlace, NEW f \in Files, LoadDtb(f)
  PROVE  /\ kernel_loaded =>
              \A i \in 0 .. kernel.size - 1 :
                ram'[AddW(kernel.addr, i)] = ram[AddW(kernel.addr, i)]
         /\ initrd_loaded =>
              \A i \in 0 .. initrd.size - 1 :
                ram'[AddW(initrd.addr, i)] = ram[AddW(initrd.addr, i)]
  <1> DEFINE M == mem_block
             B == boot_param
  <1>1. PICK count \in ReadCounts[f] : Fread(B.start, f, count)
    BY DEF LoadDtb
  <1>2. /\ B.start \in Word /\ B.size \in Word
        /\ B.start + B.size < WordSize
        /\ Disjoint(M, B)
    BY DEF Inv, Anchored, Allocatable, TypeOK, Block
  <1>3. FileSize[f] <= B.size /\ FileSize[f] \in Word
    BY FilesAssumption DEF LoadDtb, DtbAccepted
  <1>4. count \in Nat /\ count <= B.size
    BY <1>2, <1>3, FilesAssumption, WordSizeAssumption DEF Word
  <1>5. B.start + count <= WordSize
    BY <1>2, <1>4, WordSizeAssumption DEF Word
  <1>6. kernel.size + initrd.size <= M.size
    BY DEF InPlace
  <1>7. /\ M.start \in Word /\ M.size \in Word
        /\ M.start + M.size < WordSize
        /\ mem_block_end = M.start + M.size
        /\ kernel.size \in Nat /\ initrd.size \in Nat
        /\ kernel_loaded => kernel.addr = M.start
        /\ initrd_loaded => /\ initrd.addr \in Word
                            /\ initrd.addr + initrd.size = mem_block_end
    BY <1>6, Layout, WordSizeAssumption DEF Word
  <1>8. M.start + M.size <= B.start \/ B.start + count <= M.start
    BY <1>2, <1>4, <1>7, WordSizeAssumption DEF Disjoint, Word
  <1>9. ASSUME kernel_loaded
        PROVE  \A i \in 0 .. kernel.size - 1 :
                 ram'[AddW(kernel.addr, i)] = ram[AddW(kernel.addr, i)]
    <2>1. /\ kernel.addr \in Word
          /\ kernel.addr + kernel.size <= WordSize
          /\ \/ kernel.addr + kernel.size <= B.start
             \/ B.start + count <= kernel.addr
      BY <1>9, <1>2, <1>4, <1>6, <1>7, <1>8, WordSizeAssumption DEF Word
    <2> QED BY <2>1, <1>1, <1>2, <1>4, <1>5, <1>7, Untouched DEF Inv
  <1>10. ASSUME initrd_loaded
         PROVE  \A i \in 0 .. initrd.size - 1 :
                  ram'[AddW(initrd.addr, i)] = ram[AddW(initrd.addr, i)]
    <2>1. /\ initrd.addr + initrd.size <= WordSize
          /\ \/ initrd.addr + initrd.size <= B.start
             \/ B.start + count <= initrd.addr
      BY <1>10, <1>2, <1>4, <1>6, <1>7, <1>8, WordSizeAssumption DEF Word
    <2> QED BY <1>10, <2>1, <1>1, <1>2, <1>4, <1>5, <1>7, Untouched DEF Inv
  <1> QED BY <1>9, <1>10

LEMMA DtbInPlace ==
  ASSUME Inv, InPlace, NEW f \in Files, LoadDtb(f)
  PROVE  InPlace'
  <1>1. UNCHANGED <<kernel, initrd, mem_block, kernel_loaded, initrd_loaded,
                    delivered>>
    BY DEF LoadDtb
  <1>2. /\ delivered.kernel.count = kernel.size
        /\ delivered.initrd.count <= initrd.size
        /\ delivered.initrd.count \in Int /\ initrd.size \in Int
    BY WordSizeAssumption DEF Inv, Anchored, TypeOK, Delivery, Image, Word
  <1>3. KernelIntact'
    BY <1>1, <1>2, DtbUntouched DEF InPlace, KernelIntact, Intact
  <1>4. InitrdIntact'
    BY <1>1, <1>2, DtbUntouched DEF InPlace, InitrdIntact, Intact
  <1>5. Covered'
    BY LoadDtbInv, StillCovered
  <1> QED BY <1>1, <1>3, <1>4, <1>5 DEF InPlace

(* Commands that drop images, and start and exit, leave nothing to damage. *)
LEMMA OtherInPlace ==
  ASSUME Inv, InPlace, StartUp \/ UnloadInitrd \/ Exit \/ UNCHANGED vars
  PROVE  InPlace'
  <1>1. /\ mem_block.size \in Int /\ kernel.size \in Int
        /\ initrd.size \in Int /\ initrd.size >= 0
    BY WordSizeAssumption DEF Inv, TypeOK, Block, Image, Word
  <1> Covered'
    BY StartUpInv, OtherInv, StillCovered
  <1>2. CASE StartUp
    <2>1. mem_block'.size >= 0
      BY <1>2, BlocksAssumption, WordSizeAssumption
      DEF StartUp, Allocatable, Block, Word
    <2> QED
      BY <1>2, <2>1
      DEF StartUp, InPlace, KernelIntact, InitrdIntact, NoImage
  <1>3. CASE UnloadInitrd
    <2>1. delivered'.kernel = delivered.kernel
      BY <1>3 DEF UnloadInitrd, Inv, TypeOK
    <2>2. KernelIntact'
      BY <1>3, <2>1 DEF UnloadInitrd, InPlace, KernelIntact, Intact
    <2>3. (kernel.size + initrd.size <= mem_block.size)'
      BY <1>1, <1>3 DEF UnloadInitrd, InPlace, NoImage
    <2> QED
      BY <1>3, <2>2, <2>3 DEF UnloadInitrd, InPlace, InitrdIntact
  <1>4. CASE Exit
    BY <1>4 DEF Exit, InPlace, KernelIntact, InitrdIntact, NoImage, NoBlock
  <1>5. CASE UNCHANGED vars
    BY <1>5 DEF vars, InPlace, KernelIntact, InitrdIntact, Intact
  <1> QED BY <1>2, <1>3, <1>4, <1>5

LEMMA NextInPlace ==
  ASSUME Inv, InPlace, [Next]_vars,
         kernel'.size # kernel.size => ~KernelSpaceWraps,
         initrd'.size # initrd.size => ~InitrdSpaceWraps
  PROVE  InPlace'
  BY KernelInPlace, InitrdInPlace, DtbInPlace, OtherInPlace DEF Next, Load

(* For every address space and every set of files: as long as no image is  *)
(* exchanged for one of another size while the space load.c computes       *)
(* wraps, no command moves, truncates or overwrites an image.              *)
THEOREM ImagesStayInPlace == Spec => InPlaceKept
  <1>1. Inv /\ [Next]_vars
        => [ /\ InPlace
             /\ kernel'.size # kernel.size => ~KernelSpaceWraps
             /\ initrd'.size # initrd.size => ~InitrdSpaceWraps
             => InPlace' ]_vars
    BY NextInPlace
  <1> QED BY <1>1, InvHolds, PTL DEF Spec, InPlaceKept

-----------------------------------------------------------------------------
(* The first load of an image: nothing has been taken off twice.           *)
LEMMA FirstLoads == Inv => FirstLoadExact
  <1> SUFFICES ASSUME Inv, running, NEW f \in Files, FileSize[f] # 0
               PROVE
      /\ /\ kernel.size = 0
         /\ initrd.size <= mem_block.size
         => (KernelAccepted(f) <=> FileSize[f] + initrd.size <= mem_block.size)
      /\ /\ initrd.size = 0
         /\ kernel.size <= mem_block.size
         => (InitrdAccepted(f) <=>
               /\ FileSize[f] <= mem_block.start + mem_block.size
               /\ mem_block.start + kernel.size
                    <= PageDown(mem_block.start + mem_block.size - FileSize[f]))
    BY DEF FirstLoadExact
  <1>1. /\ mem_block.size \in Word /\ kernel.size \in Word
        /\ initrd.size \in Word /\ mem_block.start \in Word
        /\ mem_block.start + mem_block.size < WordSize
    BY DEF Inv, TypeOK, Block, Image, Anchored, Allocatable
  <1>2. FileSize[f] \in Word /\ FileSize[f] + PageSize < WordSize
    BY FilesAssumption
  <1>3. ASSUME kernel.size = 0, initrd.size <= mem_block.size
        PROVE  KernelAccepted(f) <=> FileSize[f] + initrd.size <= mem_block.size
    <2>1. kernel_space = mem_block.size - initrd.size
      BY <1>1, <1>3, WordSizeAssumption
      DEF kernel_space, mem_block_size_free, SubW, Word
    <2> QED BY <2>1, <1>1, <1>2, WordSizeAssumption DEF KernelAccepted, Word
  <1>4. ASSUME initrd.size = 0, kernel.size <= mem_block.size
        PROVE  InitrdAccepted(f) <=>
               /\ FileSize[f] <= mem_block.start + mem_block.size
               /\ mem_block.start + kernel.size
                    <= PageDown(mem_block.start + mem_block.size - FileSize[f])
    <2> DEFINE e == mem_block.start + mem_block.size
               fs == FileSize[f]
    <2>1. mem_block_end = e /\ e \in Word
      BY <1>1, WordSizeAssumption DEF mem_block_end, AddW, Word
    <2>2. initrd_space = mem_block.size - kernel.size
      BY <1>1, <1>4, WordSizeAssumption
      DEF initrd_space, mem_block_size_free, SubW, Word
    <2>3. CASE fs <= e
      <3>1. SubW(e, fs) = e - fs /\ e - fs \in Word
        BY <2>1, <2>3, <1>2, WordSizeAssumption DEF SubW, Word
      <3>2. initrd_laddr(f) = PageDown(e - fs)
        BY <3>1, <2>1 DEF initrd_laddr
      <3>3. PageDown(e - fs) \in Word /\ PageDown(e - fs) <= e - fs
        BY <3>1, PageDownBounds
      <3>4. needed_size(f) = e - PageDown(e - fs)
        BY <3>2, <3>3, <2>1, <1>2, WordSizeAssumption
        DEF needed_size, SubW, Word
      <3>5. InitrdAccepted(f)
            <=> e - PageDown(e - fs) <= mem_block.size - kernel.size
        BY <3>4, <2>2 DEF InitrdAccepted
      <3> DEFINE p == PageDown(e - fs)
      <3>6. p \in Int
        BY <3>3, WordSizeAssumption DEF Word
      <3>7. InitrdAccepted(f) <=> e - p <= mem_block.size - kernel.size
        BY <3>5
      <3> HIDE DEF p
      <3>8. InitrdAccepted(f) <=> mem_block.start + kernel.size <= p
        BY <3>6, <3>7, <1>1, WordSizeAssumption DEF Word
      <3>9. FileSize[f] <= mem_block.start + mem_block.size
        BY <2>3
      <3>10. e - fs = mem_block.start + mem_block.size - FileSize[f]
        BY <1>1, <1>2, WordSizeAssumption DEF Word
      <3>11. p = PageDown(mem_block.start + mem_block.size - FileSize[f])
        BY <3>10 DEF p
      <3> QED BY <3>8, <3>9, <3>11
    <2>4. CASE e < fs
      <3> DEFINE b == SubW(e, fs)
                 l == initrd_laddr(f)
      <3>1. b = e - fs + WordSize /\ b \in Word
        BY <2>1, <2>4, <1>2, WordSizeAssumption DEF SubW, Word
      <3>2. l \in Word /\ l <= b /\ b - l < PageSize
        BY <3>1, <2>1, PageDownBounds DEF initrd_laddr
      <3>3. l > e
        BY <3>1, <3>2, <1>2, <2>1, WordSizeAssumption, PageSizeAssumption
        DEF Word
      <3>4. needed_size(f) = e - l + WordSize
        BY <3>2, <3>3, <2>1, WordSizeAssumption DEF needed_size, SubW, Word
      <3>5. needed_size(f) >= fs
        BY <3>1, <3>2, <3>4, <1>2, <2>1, WordSizeAssumption DEF Word
      <3>6. needed_size(f) > mem_block.size - kernel.size
        BY <3>5, <2>4, <1>1, <1>2, <2>1, <3>2, <3>4, WordSizeAssumption
        DEF Word
      <3>7. initrd_space \in Int /\ needed_size(f) \in Int
        BY <2>1, <2>2, <3>2, <3>4, <1>1, WordSizeAssumption DEF Word
      <3>8. ~InitrdAccepted(f)
        BY <3>6, <3>7, <2>2 DEF InitrdAccepted
      <3>9. ~(fs <= e)
        BY <2>4, <2>1, <1>2, WordSizeAssumption DEF Word
      <3> QED BY <3>8, <3>9
    <2> QED BY <2>3, <2>4, <2>1, <1>2, WordSizeAssumption DEF Word
  <1> QED BY <1>3, <1>4

(* The first kernel and the first initrd are accepted exactly when they    *)
(* fit, whatever the sizes and wherever mem_block lies.                    *)
THEOREM FirstLoadsExact == Spec => []FirstLoadExact
  BY InvHolds, FirstLoads, PTL

-----------------------------------------------------------------------------
(* With files of at most a third of mem_block, nothing ever wraps: the     *)
(* inductive invariant also has to say that no image is larger than a file *)
(* and the rounding to a page.                                             *)
Sized ==
  /\ running => \E l \in Layouts : mem_block = l.mem_block
  /\ kernel.size # 0 => \E f \in Files : kernel.size <= FileSize[f]
  /\ initrd.size # 0
       => \E f \in Files : initrd.size <= FileSize[f] + PageSize - 1

SmallInv == Inv /\ InPlace /\ Sized

LEMMA NothingWraps ==
  ASSUME SmallImages, SmallInv, running
  PROVE  ~KernelSpaceWraps /\ ~InitrdSpaceWraps
  <1> DEFINE M == mem_block.size
             K == kernel.size
             I == initrd.size
  <1>1. M \in Nat /\ K \in Nat /\ I \in Nat /\ PageSize \in Nat \ {0}
    BY WordSizeAssumption, PageSizeAssumption
    DEF SmallInv, Inv, TypeOK, Block, Image, Word
  <1>2. (\E l \in Layouts : mem_block = l.mem_block) /\ K + I <= M
    BY DEF SmallInv, Sized, InPlace
  <1>3. \A f \in Files : FileSize[f] \in Nat
    BY FilesAssumption, WordSizeAssumption DEF Word
  <1> SUFFICES 2 * K + I <= M /\ K + 2 * I <= M
    BY <1>1 DEF KernelSpaceWraps, InitrdSpaceWraps
  <1>4. CASE M = 0
    BY <1>1, <1>2, <1>4
  <1>5. CASE M # 0
    <2>1. \A f \in Files : 3 * FileSize[f] + 2 * (PageSize - 1) <= M
      BY <1>2, <1>5 DEF SmallImages
    <2>2. 3 * K + 2 * (PageSize - 1) <= M \/ K = 0
      <3> SUFFICES ASSUME K # 0 PROVE 3 * K + 2 * (PageSize - 1) <= M
        OBVIOUS
      <3>1. PICK f \in Files : K <= FileSize[f]
        BY DEF SmallInv, Sized
      <3> QED BY <3>1, <2>1, <1>1, <1>3
    <2>3. 3 * I <= M + (PageSize - 1) \/ I = 0
      <3> SUFFICES ASSUME I # 0 PROVE 3 * I <= M + (PageSize - 1)
        OBVIOUS
      <3>1. PICK f \in Files : I <= FileSize[f] + PageSize - 1
        BY DEF SmallInv, Sized
      <3> QED BY <3>1, <2>1, <1>1, <1>3
    <2> HIDE DEF M, K, I
    <2>4. CASE K = 0 /\ I # 0
      <3>1. PICK f \in Files : I <= FileSize[f] + PageSize - 1
        BY <2>4 DEF SmallInv, Sized, I
      <3>2. FileSize[f] + 2 * (PageSize - 1) <= M
        BY <2>1, <1>1, <1>3
      <3> QED BY <3>1, <3>2, <2>1, <2>4, <1>1, <1>3
    <2>5. CASE I = 0
      BY <2>2, <2>5, <1>1, <1>2
    <2>6. CASE K # 0 /\ I # 0
      BY <2>2, <2>3, <2>6, <1>1
    <2> QED BY <2>4, <2>5, <2>6
  <1> QED BY <1>4, <1>5

LEMMA NextSmall ==
  ASSUME SmallImages, SmallInv, [Next]_vars
  PROVE  SmallInv'
  <1>1. Inv'
    BY NextInv DEF SmallInv
  <1>2. CASE StartUp
    <2>1. InPlace'
      BY <1>2, OtherInPlace DEF SmallInv
    <2> QED BY <1>1, <1>2, <2>1 DEF SmallInv, StartUp, Sized, NoImage
  <1>3. ASSUME NEW f \in Files, LoadKernel(f) PROVE SmallInv'
    <2>1. ~KernelSpaceWraps /\ UNCHANGED initrd
      BY <1>3, NothingWraps DEF LoadKernel
    <2>2. InPlace'
      BY <1>3, <2>1, KernelInPlace DEF SmallInv
    <2>3. PICK count \in ReadCounts[f] :
            kernel' = [addr |-> mem_block.start, size |-> count]
      BY <1>3 DEF LoadKernel
    <2>4. count <= FileSize[f]
      BY FilesAssumption, WordSizeAssumption DEF Word
    <2>5. Sized'
      BY <1>3, <2>3, <2>4 DEF SmallInv, Sized, LoadKernel
    <2> QED BY <1>1, <2>2, <2>5 DEF SmallInv
  <1>4. ASSUME NEW f \in Files, LoadInitrd(f) PROVE SmallInv'
    <2>1. ~InitrdSpaceWraps
      BY <1>4, NothingWraps DEF LoadInitrd
    <2>2. InPlace'
      BY <1>4, <2>1, InitrdInPlace DEF SmallInv
    <2>3. needed_size(f) <= FileSize[f] + PageSize - 1
      <3>1. /\ mem_block.start \in Word /\ mem_block.size \in Word
            /\ mem_block_end = mem_block.start + mem_block.size
            /\ mem_block_end < WordSize
            /\ kernel.size \in Word /\ initrd.size \in Word
        BY Layout DEF SmallInv, InPlace
      <3>2. initrd_space = mem_block.size - kernel.size - 2 * initrd.size
        BY <2>1, SpaceExact DEF SmallInv, InPlace
      <3>3. /\ initrd_laddr(f) \in Word /\ needed_size(f) \in Word
            /\ FileSize[f] <= needed_size(f) /\ FileSize[f] \in Word
        BY InitrdPlacement, FilesAssumption DEF SmallInv, Inv
      <3>4. FileSize[f] <= mem_block_end
        BY <1>4, <3>1, <3>2, <3>3, WordSizeAssumption
        DEF LoadInitrd, InitrdAccepted, Word
      <3> DEFINE b == mem_block_end - FileSize[f]
      <3>5. SubW(mem_block_end, FileSize[f]) = b /\ b \in Word
        BY <3>1, <3>3, <3>4, WordSizeAssumption DEF SubW, Word
      <3>6. /\ initrd_laddr(f) <= b
            /\ b - initrd_laddr(f) < PageSize
        BY <3>5, PageDownBounds DEF initrd_laddr
      <3>7. needed_size(f) = mem_block_end - initrd_laddr(f)
        BY <3>1, <3>3, <3>4, <3>6, WordSizeAssumption
        DEF needed_size, SubW, Word
      <3> QED
        BY <3>1, <3>3, <3>6, <3>7, WordSizeAssumption, PageSizeAssumption
        DEF Word
    <2>4. Sized'
      BY <1>4, <2>3 DEF SmallInv, Sized, LoadInitrd
    <2> QED BY <1>1, <2>2, <2>4 DEF SmallInv
  <1>5. ASSUME NEW f \in Files, LoadDtb(f) PROVE SmallInv'
    BY <1>1, <1>5, DtbInPlace DEF SmallInv, Sized, LoadDtb
  <1>6. CASE UnloadInitrd \/ Exit \/ UNCHANGED vars
    <2>1. InPlace'
      BY <1>6, OtherInPlace DEF SmallInv
    <2>2. Sized'
      BY <1>6 DEF SmallInv, Sized, UnloadInitrd, Exit, vars, NoImage
    <2> QED BY <1>1, <2>1, <2>2 DEF SmallInv
  <1> QED BY <1>2, <1>3, <1>4, <1>5, <1>6 DEF Next, Load

THEOREM SmallImagesInv == ASSUME SmallImages PROVE Spec => []SmallInv
  <1>1. Init => SmallInv
    <2> SUFFICES ASSUME Init PROVE SmallInv
      OBVIOUS
    <2>1. Inv
      BY InitInv
    <2> QED
      BY <2>1 DEF Init, SmallInv, Sized, InPlace, Covered, KernelIntact,
         InitrdIntact, NoImage, NoBlock, Nothing
  <1>2. SmallInv /\ [Next]_vars => SmallInv'
    BY NextSmall
  <1> QED BY <1>1, <1>2, PTL DEF Spec

(* For every address space: if no file is larger than a third of mem_block *)
(* (less the rounding), images are always in place, however often they are *)
(* loaded, reloaded and unloaded.                                          *)
THEOREM SmallImagesInPlace == ASSUME SmallImages PROVE Spec => []InPlace
  BY SmallImagesInv, PTL DEF SmallInv

-----------------------------------------------------------------------------
(* The bytes a load delivered: what memory holds at an image's address.    *)
Bytes(d) == [i \in 0 .. d.count - 1 |-> Byte(d.file, i)]

LEMMA BytesDelivered ==
  Inv /\ InPlace =>
    /\ BytesAt(kernel.addr, kernel.size) = Bytes(delivered.kernel)
    /\ BytesAt(initrd.addr, delivered.initrd.count) = Bytes(delivered.initrd)
  <1> SUFFICES ASSUME Inv, InPlace
               PROVE  /\ BytesAt(kernel.addr, kernel.size)
                           = Bytes(delivered.kernel)
                      /\ BytesAt(initrd.addr, delivered.initrd.count)
                           = Bytes(delivered.initrd)
    OBVIOUS
  <1>1. /\ delivered.kernel.count = kernel.size
        /\ kernel_loaded <=> kernel.size # 0
        /\ delivered.initrd.count <= initrd.size
        /\ delivered.initrd.count \in Nat /\ initrd.size \in Nat
        /\ initrd_loaded <=> initrd.size # 0
    BY WordSizeAssumption DEF Inv, Anchored, TypeOK, Delivery, Image, Word
  <1>2. \A i \in 0 .. kernel.size - 1 :
          ram[AddW(kernel.addr, i)] = Byte(delivered.kernel.file, i)
    BY <1>1 DEF InPlace, KernelIntact, Intact
  <1>3. \A i \in 0 .. delivered.initrd.count - 1 :
          ram[AddW(initrd.addr, i)] = Byte(delivered.initrd.file, i)
    BY <1>1 DEF InPlace, InitrdIntact, Intact
  <1> QED BY <1>1, <1>2, <1>3 DEF BytesAt, Bytes

(* A write inside mem_block leaves boot_param alone. *)
LEMMA ParamsKept ==
  ASSUME Inv, NEW dst \in Word, NEW f \in Files, NEW count \in Nat,
         Fread(dst, f, count), mem_block.start <= dst,
         dst + count <= mem_block.start + mem_block.size,
         boot_param' = boot_param
  PROVE  BytesAt(boot_param.start, boot_param.size)'
           = BytesAt(boot_param.start, boot_param.size)
  <1> DEFINE B == boot_param
             M == mem_block
  <1>1. /\ B.start \in Word /\ B.size \in Nat
        /\ B.start + B.size < WordSize
        /\ M.start \in Word /\ M.size \in Nat
        /\ M.start + M.size < WordSize
        /\ Disjoint(M, B)
    BY WordSizeAssumption DEF Inv, Anchored, Allocatable, TypeOK, Block, Word
  <1>2. B.start + B.size <= dst \/ dst + count <= B.start
    BY <1>1, WordSizeAssumption DEF Disjoint, Word
  <1>3. dst + count <= WordSize /\ B.start + B.size <= WordSize
    BY <1>1, WordSizeAssumption DEF Word
  <1>4. \A i \in 0 .. B.size - 1 :
          ram'[AddW(B.start, i)] = ram[AddW(B.start, i)]
    BY <1>1, <1>2, <1>3, Untouched DEF Inv
  <1> QED BY <1>4 DEF BytesAt

LEMMA StoreInit == ASSUME Init PROVE Store!Init
  BY DEF Init, Store!Init, Store!Empty, BytesAt, NoImage, NoBlock, Nothing

(* Each command is the operation of the store it names. *)
LEMMA StoreNext ==
  ASSUME SmallImages
  PROVE  SmallInv /\ SmallInv' /\ [Next]_vars => [Store!Next]_(Store!storeVars)
  <1> DEFINE KB == BytesAt(kernel.addr, kernel.size)
             IB == BytesAt(initrd.addr, delivered.initrd.count)
             PB == BytesAt(boot_param.start, boot_param.size)
  <1>1. (Inv /\ InPlace => KB = Bytes(delivered.kernel)
                           /\ IB = Bytes(delivered.initrd))'
    BY BytesDelivered, PTL
  <1> SUFFICES ASSUME SmallInv, SmallInv', [Next]_vars
               PROVE  [Store!Next]_(Store!storeVars)
    OBVIOUS
  <1>2. /\ KB = Bytes(delivered.kernel) /\ IB = Bytes(delivered.initrd)
        /\ KB' = Bytes(delivered.kernel)' /\ IB' = Bytes(delivered.initrd)'
    BY <1>1, BytesDelivered DEF SmallInv
  <1>3. TypeOK
    BY DEF SmallInv, Inv
  <1>4. ASSUME NEW f \in Files, LoadKernel(f)
        PROVE  Store!PutKernel
    <2>1. PICK count \in ReadCounts[f] :
            /\ kernel' = [addr |-> mem_block.start, size |-> count]
            /\ Fread(mem_block.start, f, count)
            /\ delivered' = [delivered EXCEPT
                               !.kernel = [file |-> f, count |-> count]]
      BY <1>4 DEF LoadKernel
    <2>2. count \in Word /\ count \in Nat
      BY FilesAssumption, WordSizeAssumption DEF Word
    <2>3. /\ delivered'.kernel = [file |-> f, count |-> count]
          /\ delivered'.initrd = delivered.initrd
      BY <2>1, <1>3 DEF TypeOK
    <2>4. KB' = Store!Prefix(f, count)
      BY <2>3, <1>2 DEF Bytes, Byte, Store!Prefix
    <2>5. IB' = IB
      BY <2>3, <1>2 DEF Bytes
    <2>6. PB' = PB
      <3>1. count <= mem_block.size /\ mem_block.start \in Word
        <4>1. (kernel.size + initrd.size <= mem_block.size)'
              /\ mem_block' = mem_block /\ kernel'.size = count
          BY <1>4, <2>1 DEF SmallInv, InPlace, LoadKernel
        <4>2. initrd'.size >= 0 /\ initrd'.size \in Int
          BY WordSizeAssumption DEF SmallInv, Inv, TypeOK, Image, Word
        <4>3. mem_block.size \in Int /\ mem_block.start \in Word
          BY <1>3, WordSizeAssumption DEF TypeOK, Block, Word
        <4> QED BY <4>1, <4>2, <4>3, <2>2
      <3>2. /\ mem_block.start <= mem_block.start
            /\ mem_block.start + count <= mem_block.start + mem_block.size
        BY <3>1, <2>2, <1>3, WordSizeAssumption DEF TypeOK, Block, Word
      <3>3. boot_param' = boot_param
        BY <1>4 DEF LoadKernel
      <3> QED BY <3>1, <3>2, <3>3, <2>1, <2>2, ParamsKept DEF SmallInv
    <2> QED BY <2>2, <2>4, <2>5, <2>6 DEF Store!PutKernel
  <1>5. ASSUME NEW f \in Files, LoadInitrd(f)
        PROVE  Store!PutInitrd
    <2> DEFINE dst == initrd_laddr(f)
    <2>1. PICK count \in ReadCounts[f] :
            /\ Fread(dst, f, count)
            /\ delivered' = [delivered EXCEPT
                               !.initrd = [file |-> f, count |-> count]]
      BY <1>5 DEF LoadInitrd
    <2>2. count \in Word /\ count \in Nat
      BY FilesAssumption, WordSizeAssumption DEF Word
    <2>3. /\ delivered'.initrd = [file |-> f, count |-> count]
          /\ delivered'.kernel = delivered.kernel
      BY <2>1, <1>3 DEF TypeOK
    <2>4. IB' = Store!Prefix(f, count)
      BY <2>3, <1>2 DEF Bytes, Byte, Store!Prefix
    <2>5. KB' = KB
      BY <2>3, <1>2 DEF Bytes
    <2>6. PB' = PB
      <3>1. /\ dst \in Word /\ needed_size(f) \in Word
            /\ FileSize[f] <= needed_size(f) /\ FileSize[f] \in Word
            /\ AddW(dst, needed_size(f)) = mem_block_end
        BY <1>3, InitrdPlacement, FilesAssumption
      <3>2. /\ mem_block.start \in Word /\ mem_block.size \in Word
            /\ mem_block.start + mem_block.size < WordSize
            /\ mem_block_end = mem_block.start + mem_block.size
        BY Layout DEF SmallInv, InPlace
      <3>3. needed_size(f) <= mem_block.size
        <4>1. kernel'.size + needed_size(f) <= mem_block.size
          BY <1>5 DEF SmallInv, InPlace, LoadInitrd
        <4>2. kernel'.size \in Nat
          BY WordSizeAssumption DEF SmallInv, Inv, TypeOK, Image, Word
        <4> QED BY <4>1, <4>2, <3>1, <3>2, WordSizeAssumption DEF Word
      <3> HIDE DEF dst
      <3>4. dst + needed_size(f) = mem_block.start + mem_block.size
        BY <3>1, <3>2, <3>3, WordSizeAssumption DEF AddW, Word
      <3>5. count <= FileSize[f]
        BY FilesAssumption, <3>1, WordSizeAssumption DEF Word
      <3>6. /\ mem_block.start <= dst
            /\ dst + count <= mem_block.start + mem_block.size
        BY <3>1, <3>2, <3>3, <3>4, <3>5, <2>2, WordSizeAssumption DEF Word
      <3>7. boot_param' = boot_param
        BY <1>5 DEF LoadInitrd
      <3> QED BY <3>1, <3>6, <3>7, <2>1, <2>2, ParamsKept DEF SmallInv
    <2> QED BY <2>2, <2>4, <2>5, <2>6 DEF Store!PutInitrd
  <1>6. ASSUME NEW f \in Files, LoadDtb(f)
        PROVE  Store!PutParams
    <2>1. PICK count \in ReadCounts[f] : Fread(boot_param.start, f, count)
      BY <1>6 DEF LoadDtb
    <2>2. count \in Word /\ count \in Nat
      BY FilesAssumption, WordSizeAssumption DEF Word
    <2>3. UNCHANGED <<KB, IB, boot_param>>
      BY <1>6, <1>2 DEF LoadDtb, Bytes
    <2>4. /\ boot_param.start \in Word /\ boot_param.size \in Nat
          /\ boot_param.start + boot_param.size < WordSize
      BY WordSizeAssumption
      DEF SmallInv, Inv, Anchored, Allocatable, TypeOK, Block, Word
    <2>5. ASSUME NEW i \in 0 .. boot_param.size - 1
          PROVE  ram'[AddW(boot_param.start, i)]
                   = IF i < count THEN <<f, i>>
                     ELSE ram[AddW(boot_param.start, i)]
      <3>1. /\ AddW(boot_param.start, i) \in Word
            /\ SubW(AddW(boot_param.start, i), boot_param.start) = i
        BY <2>4, WordSizeAssumption DEF AddW, SubW, Word
      <3>2. \A a \in Word :
              ram'[a] = IF SubW(a, boot_param.start) < count
                        THEN Byte(f, SubW(a, boot_param.start)) ELSE ram[a]
        BY <2>1, <2>2, <2>4, <1>3, FreadType
      <3> QED BY <3>1, <3>2 DEF Byte
    <2>6. PB' = [i \in DOMAIN PB |-> IF i < count THEN <<f, i>> ELSE PB[i]]
      BY <2>3, <2>5 DEF BytesAt
    <2> QED BY <2>2, <2>3, <2>6 DEF Store!PutParams
  <1>7. CASE StartUp \/ Exit
    <2>1. boot_param'.size \in Word
      BY DEF SmallInv, Inv, TypeOK, Block
    <2>2. KB' = Store!Empty /\ IB' = Store!Empty
      BY <1>7 DEF StartUp, Exit, NoImage, Nothing, BytesAt, Store!Empty
    <2>3. DOMAIN PB' = 0 .. boot_param'.size - 1
      BY DEF BytesAt
    <2> QED BY <2>1, <2>2, <2>3 DEF Store!Reset, Store!Next
  <1>8. CASE UnloadInitrd
    <2>1. /\ delivered'.initrd = Nothing
          /\ delivered'.kernel = delivered.kernel
      BY <1>8, <1>3 DEF UnloadInitrd, TypeOK
    <2>2. IB' = Store!Empty
      BY <2>1 DEF Nothing, BytesAt, Store!Empty
    <2>3. UNCHANGED <<KB, PB>>
      BY <1>8 DEF UnloadInitrd, BytesAt
    <2> QED BY <2>2, <2>3 DEF Store!DropInitrd, Store!Next
  <1>9. CASE UNCHANGED vars
    BY <1>9 DEF vars, Store!storeVars, BytesAt
  <1> QED
    BY <1>4, <1>5, <1>6, <1>7, <1>8, <1>9 DEF Next, Load, Store!Next

(* Images implements ImageStore: if no file is larger than a third of      *)
(* mem_block, a load changes exactly the bytes of what it loads, and every *)
(* image is found, complete, where settings says it is.                    *)
THEOREM SmallImagesStore == ASSUME SmallImages PROVE Spec => StoreImplemented
  <1>1. Init => Store!Init
    BY StoreInit
  <1>2. SmallInv /\ SmallInv' /\ [Next]_vars => [Store!Next]_(Store!storeVars)
    BY StoreNext
  <1> QED BY <1>1, <1>2, SmallImagesInv, PTL DEF Spec, StoreImplemented

=============================================================================
