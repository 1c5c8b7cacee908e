------------------------------- MODULE Images -------------------------------
(***************************************************************************)
(* The images the loader keeps in memory for the kernel it will boot:      *)
(* memory.c (alloc_memory, free_memory) and load.c (load_kernel,           *)
(* load_initrd, load_dtb).                                                 *)
(*                                                                         *)
(* The loader allocates two blocks when it starts: mem_block for the       *)
(* kernel and the initrd, boot_param for the boot parameters or a DTB.     *)
(* Images are loaded in place and never moved: the kernel at the start of  *)
(* mem_block, the initrd on a page boundary as high in mem_block as it     *)
(* fits.  The variables are the fields of struct params (common.h) the two *)
(* files use, and ram, the contents of memory.                             *)
(*                                                                         *)
(* The loader is one thread that executes one command at a time, so a      *)
(* command is one action; a command the code refuses changes nothing and   *)
(* is no step.  stat, fopen, fread and malloc are external: a file has the *)
(* size FileSize gives it (0 if it does not exist), opening it may fail,   *)
(* and reading it may deliver fewer bytes than asked for.                  *)
(***************************************************************************)
EXTENDS Words

CONSTANTS
  Files,            \* names that can be given to a load command
  FileSize,         \* the size stat reports for each of them
  ReadCounts,       \* how many bytes fread can return for each of them
  Dtbs,             \* the files whose header fdt_check_header accepts
  Layouts,          \* the pairs of blocks alloc_memory can have allocated
  MachineIds,       \* what detect_machine can find
  DtbMachId,        \* DTB_MACH_ID
  Junk              \* contents no file has

(* Files on the device are smaller than the address space by more than a   *)
(* page, so rounding a size up to a page does not wrap.                    *)
ASSUME FilesAssumption ==
  /\ FileSize \in [Files -> Word]
  /\ \A f \in Files : FileSize[f] + PageSize < WordSize
  /\ \A f \in Files : ReadCounts[f] \subseteq 0 .. FileSize[f]
  /\ Dtbs \subseteq Files

(* What Memory shows of the two blocks (GoodBlocks there). *)
ASSUME BlocksAssumption ==
  \A l \in Layouts :
    /\ Allocatable(l.boot_param) /\ Allocatable(l.mem_block)
    /\ Disjoint(l.mem_block, l.boot_param)

VARIABLES
  running,        \* the loader has started and has not exited
  kernel,         \* settings.kernel
  initrd,         \* settings.initrd
  boot_param,     \* settings.boot_param
  mem_block,      \* settings.mem_block
  kernel_loaded,  \* the flags
  initrd_loaded,
  dtb_loaded,
  machine_id,     \* settings.machine_id
  ram,            \* contents of memory: byte i of file f, or Junk
  delivered       \* history: what the last load of each image read

vars == <<running, kernel, initrd, boot_param, mem_block, kernel_loaded,
          initrd_loaded, dtb_loaded, machine_id, ram, delivered>>

Image == [addr : Word, size : Word]
NoImage == [addr |-> NULL, size |-> 0]

(* Byte i of file f, and the contents a cell of memory can have. *)
Byte(f, i) == <<f, i>>
Content == (Files \X Word) \cup {Junk}

(* What a load read: count bytes of a file. *)
Delivery == [file : Files \cup {Junk}, count : Word]
Nothing == [file |-> Junk, count |-> 0]

-----------------------------------------------------------------------------
(* As the same macro would be if it forgot the initrd. *)
mem_block_size_free_NoInitrd == SubW(mem_block.size, kernel.size)

(* mem_block_size_free(), memory.h: three words, two wrapping differences. *)
mem_block_size_free == SubW(SubW(mem_block.size, kernel.size), initrd.size)

(* The free memory load_kernel and load_initrd compare a new image with.   *)
(* The image that will be replaced is taken off once more.                 *)
kernel_space == SubW(mem_block_size_free, kernel.size)
initrd_space == SubW(mem_block_size_free, initrd.size)

(* Where load_initrd puts f, and the bytes from there to the end of        *)
(* mem_block.                                                              *)
mem_block_end == AddW(mem_block.start, mem_block.size)
initrd_laddr(f) == PageDown(SubW(mem_block_end, FileSize[f]))
needed_size(f) == SubW(mem_block_end, initrd_laddr(f))

(* The checks a file must pass to be opened: not empty, and not larger     *)
(* than the space load.c computed.                                         *)
KernelAccepted(f) == FileSize[f] # 0 /\ FileSize[f] <= kernel_space

(* As load_initrd would be if it compared the file, not the space needed. *)
InitrdAccepted_Unrounded(f) ==
  FileSize[f] # 0 /\ FileSize[f] <= initrd_space
InitrdAccepted(f) == FileSize[f] # 0 /\ needed_size(f) <= initrd_space

(* The check of load_dtb, with no lower bound: an empty file is opened.    *)
DtbAccepted_OffByOne(f) == FileSize[f] <= boot_param.size + 1
DtbAccepted(f) == FileSize[f] <= boot_param.size

(* fread of count bytes of f to address dst. *)
Fread(dst, f, count) ==
  ram' = [a \in Word |-> IF SubW(a, dst) < count
                         THEN Byte(f, SubW(a, dst)) ELSE ram[a]]

(* fdt_check_header on the contents m of memory.  The header is one cell,  *)
(* the first byte of the file it came with.                                *)
HeaderOk(m) == m[boot_param.start] \in {Byte(f, 0) : f \in Dtbs}

-----------------------------------------------------------------------------
Init ==
  /\ running = FALSE
  /\ kernel = NoImage /\ initrd = NoImage
  /\ boot_param = NoBlock /\ mem_block = NoBlock
  /\ kernel_loaded = FALSE /\ initrd_loaded = FALSE /\ dtb_loaded = FALSE
  /\ machine_id = 0
  /\ ram = [a \in Word |-> Junk]
  /\ delivered = [kernel |-> Nothing, initrd |-> Nothing]

(* main up to the prompt: the settings of a new process are zero,          *)
(* alloc_memory, detect_machine.  malloc does not clear memory, so ram     *)
(* keeps what an earlier run left in it.                                   *)
StartUp ==
  /\ ~running
  /\ running' = TRUE
  /\ \E l \in Layouts :
       mem_block' = l.mem_block /\ boot_param' = l.boot_param
  /\ machine_id' \in MachineIds
  /\ kernel' = NoImage /\ initrd' = NoImage
  /\ kernel_loaded' = FALSE /\ initrd_loaded' = FALSE /\ dtb_loaded' = FALSE
  /\ delivered' = [kernel |-> Nothing, initrd |-> Nothing]
  /\ UNCHANGED ram

(* load_kernel: the size of the kernel is what fread returned. *)
LoadKernel(f) ==
  /\ running
  /\ KernelAccepted(f)
  /\ \E count \in ReadCounts[f] :
       /\ kernel' = [addr |-> mem_block.start, size |-> count]
       /\ kernel_loaded' = (count # 0)
       /\ Fread(mem_block.start, f, count)
       /\ delivered' = [delivered EXCEPT
                          !.kernel = [file |-> f, count |-> count]]
  /\ UNCHANGED <<running, initrd, boot_param, mem_block, initrd_loaded,
                 dtb_loaded, machine_id>>

(* load_initrd of a file: the size of the initrd is the space from its     *)
(* page to the end of the block, whatever fread returned.                  *)
LoadInitrd(f) ==
  /\ running
  /\ InitrdAccepted(f)
  /\ initrd' = [addr |-> initrd_laddr(f), size |-> needed_size(f)]
  /\ initrd_loaded' = (needed_size(f) # 0)
  /\ \E count \in ReadCounts[f] :
       /\ Fread(initrd_laddr(f), f, count)
       /\ delivered' = [delivered EXCEPT
                          !.initrd = [file |-> f, count |-> count]]
  /\ UNCHANGED <<running, kernel, boot_param, mem_block, kernel_loaded,
                 dtb_loaded, machine_id>>

(* load_initrd without a file name unloads the initrd. *)
UnloadInitrd ==
  /\ running
  /\ initrd_loaded
  /\ initrd' = NoImage
  /\ initrd_loaded' = FALSE
  /\ delivered' = [delivered EXCEPT !.initrd = Nothing]
  /\ UNCHANGED <<running, kernel, boot_param, mem_block, kernel_loaded,
                 dtb_loaded, machine_id, ram>>

(* load_dtb: the file overwrites boot_param before its header is checked,  *)
(* and only a good header changes the settings.                            *)
LoadDtb(f) ==
  /\ running
  /\ DtbAccepted(f)
  /\ \E count \in ReadCounts[f] : Fread(boot_param.start, f, count)
  /\ IF HeaderOk(ram')
     THEN dtb_loaded' = TRUE /\ machine_id' = DtbMachId
     ELSE UNCHANGED <<dtb_loaded, machine_id>>
  /\ UNCHANGED <<running, kernel, initrd, boot_param, mem_block,
                 kernel_loaded, initrd_loaded, delivered>>

(* The commands exit and q: free_memory, and the process ends. *)
Exit ==
  /\ running
  /\ running' = FALSE
  /\ kernel' = NoImage /\ initrd' = NoImage
  /\ boot_param' = NoBlock /\ mem_block' = NoBlock
  /\ kernel_loaded' = FALSE /\ initrd_loaded' = FALSE
  /\ delivered' = [kernel |-> Nothing, initrd |-> Nothing]
  /\ UNCHANGED <<dtb_loaded, machine_id, ram>>

Load(f) == LoadKernel(f) \/ LoadInitrd(f) \/ LoadDtb(f)

Next == StartUp \/ (\E f \in Files : Load(f)) \/ UnloadInitrd \/ Exit

Spec == Init /\ [][Next]_vars

-----------------------------------------------------------------------------
TypeOK ==
  /\ running \in BOOLEAN
  /\ kernel \in Image /\ initrd \in Image
  /\ boot_param \in Block /\ mem_block \in Block
  /\ kernel_loaded \in BOOLEAN
  /\ initrd_loaded \in BOOLEAN
  /\ dtb_loaded \in BOOLEAN
  /\ machine_id \in MachineIds \cup {DtbMachId, 0}
  /\ ram \in [Word -> Content]
  /\ delivered \in [kernel : Delivery, initrd : Delivery]

(* An image that is loaded still has, at the address the kernel will be    *)
(* told, every byte that was read for it.                                  *)
Intact(image, d) ==
  \A i \in 0 .. d.count - 1 : ram[AddW(image.addr, i)] = Byte(d.file, i)

KernelIntact == kernel_loaded => Intact(kernel, delivered.kernel)
InitrdIntact == initrd_loaded => Intact(initrd, delivered.initrd)

(* The sizes the kernel will be told cover all that was read. *)
Covered ==
  /\ delivered.kernel.count <= kernel.size
  /\ delivered.initrd.count <= initrd.size

(* kernel.c boots on the premise that "kernels and initrds should already  *)
(* be loaded to their correct places": both lie in mem_block, one below    *)
(* the other, the sizes cover what was read, and nothing is overwritten.   *)
InPlace ==
  /\ kernel.size + initrd.size <= mem_block.size
  /\ Covered
  /\ KernelIntact
  /\ InitrdIntact

(* The space a load compares with has wrapped below zero: load.c takes the *)
(* image to be replaced off twice, so a large one makes any file fit.      *)
KernelSpaceWraps == 2 * kernel.size + initrd.size > mem_block.size
InitrdSpaceWraps == kernel.size + 2 * initrd.size > mem_block.size

(* No command disturbs images that are in place, as long as no image is    *)
(* exchanged for one of another size when the space of its command wraps.  *)
(* In particular loading each image once is always sound.                  *)
InPlaceKept ==
  [][ /\ InPlace
      /\ kernel'.size # kernel.size => ~KernelSpaceWraps
      /\ initrd'.size # initrd.size => ~InitrdSpaceWraps
      => InPlace' ]_vars

(* A first image of its kind is accepted exactly when it fits next to the  *)
(* other one: the page an initrd is rounded to never costs it its place,   *)
(* and never costs the kernel a byte.                                      *)
FirstLoadExact ==
  running =>
    \A f \in Files : FileSize[f] # 0 =>
      /\ /\ kernel.size = 0
         /\ initrd.size <= mem_block.size
         => (KernelAccepted(f) <=> FileSize[f] + initrd.size <= mem_block.size)
      /\ /\ initrd.size = 0
         /\ kernel.size <= mem_block.size
         => (InitrdAccepted(f) <=>
               /\ FileSize[f] <= mem_block.start + mem_block.size
               /\ mem_block.start + kernel.size
                    <= PageDown(mem_block.start + mem_block.size - FileSize[f]))

(* With files of at most a third of mem_block no space ever wraps. *)
SmallImages ==
  \A f \in Files, l \in Layouts :
    \/ l.mem_block.size = 0
    \/ 3 * FileSize[f] + 2 * (PageSize - 1) <= l.mem_block.size

-----------------------------------------------------------------------------
(* The store of images, as the kernel would find it: the bytes in memory   *)
(* at the addresses in settings.                                           *)
BytesAt(addr, count) == [i \in 0 .. count - 1 |-> ram[AddW(addr, i)]]

Store == INSTANCE ImageStore WITH
  Sizes <- Word,
  kernelBytes <- BytesAt(kernel.addr, kernel.size),
  initrdBytes <- BytesAt(initrd.addr, delivered.initrd.count),
  paramBytes <- BytesAt(boot_param.start, boot_param.size)

(* Loading one image, or a DTB, never changes a byte of another. *)
StoreImplemented == Store!Init /\ [][Store!Next]_(Store!storeVars)

=============================================================================
