# Verification of nspire-linux-loader2

The loader is a program for the TI-Nspire calculators that boots Linux from
the calculator's own OS: it asks the OS for memory, loads a kernel, an initrd
and a DTB into it at the user's commands, and hands the machine over. It is
sequential; what makes it hard is that addresses and sizes are kept in several
places that must agree (`struct params settings`, the allocator's record, the
contents of memory, the caches, what the kernel is told), that they are unsigned
words whose differences wrap, that commands can be given in any order, and that a
command can fail half-way. Nothing is retried or undone.

The modules here model the program's own code. Every definition that stands for
code is listed with its lines in `PROJECT.json` ("map").

## The system

| Part | Code | State | Operations | Status |
|---|---|---|---|---|
| Memory | `memory.c`, `memory.h` | `settings.mem_block`, `settings.boot_param`, the OS heap | `alloc_memory`, `max_malloc`, `free_memory` | `Memory`, proofs |
| Images | `load.c` | `settings.kernel`, `.initrd`, the three flags, `machine_id`, memory | `load_kernel`, `load_initrd`, `load_dtb` | `Images`, `ImageStore`, proofs |
| ATAG list | `atag.c`, `atag.h`, `atag_tags.h` | the buffer, `current` | `atag_build`, `atag_add`, the macro `ATAG` | `Atag`, proofs |
| Hand-over | `kernel.c`, `builtin_memcpy` in `common.c` | memory and D-cache, the locals of the copy, CPU mode | `kernel_boot` | `Boot`, `HandOver`, proofs |
| FDT update | `fdt.c` | the static buffer, the tree in it, `settings.boot_param.start` | `update_fdt`, `_fdt_make_node` | `FdtUpdate`, proofs; the allocation in `Memory`, the copy of the result in `Boot` |
| libfdt | `libfdt/` (vendored) | a flat tree: header, reserve map, structure block, strings block | all that write a blob, and the searches | `FdtFormat`, `FdtRead`, `FdtRw`, `FdtSw`, `Fdt`, `DeviceTree`; partly |
| Command loop | `main.c`, `cmd.c` | the open scripts and their positions, the line buffers | `main`, `process_cmd`, `load_script` | `Shell`, proofs |
| Settings | `common.c`, `kernel_cmdline` | `phys`, `ramdisk_size`, `machine_id`, `kernel_cmdline`, `break_on_entry` | `setget_*`, `kernel_cmdline`, `force_guess_memory`, `break_on_entry` | `Settings`, run by `Shell`, proofs |
| Detection | `mach.c` | `phys`, `machine_id`, `serialnr`, `rev` | `detect_*`, `guess_memory_size` | `Settings`, run by `Shell`, proofs |
| Exceptions | `trap.c`, `traphandler.S` | the vectors, `saved_regs`, banked registers | `trap_install`, `trap_remove`, the handler, `trap_enter` | `Trap`, proofs; its outcomes at a breakpoint in `Boot` |
| Printing | `show_mem`, `dump_settings`, `peek`, `poke` | none of their own | | not modelled |
| Build | makefiles | none | | not modelled |

How they interact: everything goes through the global `settings`. `main` calls
`alloc_memory` and the detection, then the command loop calls one function per
line. `load.c` reads the blocks `memory.c` has set, `atag.c` and `fdt.c` read what
the load commands have recorded, and `kernel.c` copies what they built to
`phys.start + 0x100` and enters the kernel with that address. There are no threads;
the concurrency there is comes from below: the allocator moves blocks, `fread`
delivers less than asked, the cache writes back when it likes, and an exception can
interrupt any instruction.

What makes each part correct:

- *Memory*: the blocks are disjoint, `settings` says of them what the allocator
  does, nothing leaks while `realloc` moves the block that grows, the loop ends,
  the block is the largest one there is, the space reserved for the FDT is enough.
- *Images*: kernel and initrd lie in `mem_block`, do not meet, have their bytes,
  and are not disturbed by another command; a file is accepted exactly if it fits;
  `dtb_loaded` says what is in `boot_param`.
- *ATAG list*: a reader finds the tags that were asked for, inside `boot_param`.
- *Hand-over*: the kernel, with the cache off, finds images and parameters.
- *libfdt*: a blob holds the tree the calls promise, an edit that does not fit
  leaves it as it was, the blocks keep apart, and the searches agree with the tree.
- *FDT update*: a kernel gets the DTB loaded last with the settings in it and no
  other change, however often a boot failed before; a boot fails only for a cause.
- *Command loop*: each line is executed once and in order, also in scripts that
  run scripts.
- *Settings, detection*: a setting is what the last command that gave it a value
  says; what is guessed of the memory is enough for what is in it.
- *Exceptions*: resuming continues with the registers of the interrupted code;
  the vectors are the loader's only while it runs.

`PROJECT.json` ("hazards") lists, with lines, where these can go wrong in a way a
test would hardly reach, and the properties that would notice.

## The modules

### Words

Machine words with wrapping addition and subtraction, `ROUND_PAGE_BOUND`, and
blocks. `WordSize` stands for 2^32 and `PageSize` for 4096; both are parameters, and
all arithmetic of `Images` on addresses and sizes is done with them.

### Images, ImageStore

One action per command that changes the state: `LoadKernel`, `LoadInitrd`,
`UnloadInitrd`, `LoadDtb`, and `StartUp` and `Exit` of the program. The loader is one
thread and runs a command to its end, so a command is one step; a refused command
changes nothing and is no step. `stat`, `fopen`, `fread` and `fdt_check_header` are
external: a file has a size, opening it may fail (no step), reading it may deliver
any of `ReadCounts`. Memory (`ram`) is a function from addresses to "byte i of file
f"; the header of a DTB is its first byte. Memory is not cleared between
runs of the program, as `malloc` does not clear it. `delivered` is a history
variable: what the last load of each image read. The blocks come from `Layouts`,
of which the module assumes what `Memory` proves of them (`BlocksAssumption`,
`GoodBlocks`).

`ImageStore` is the abstract promise: a store of three byte strings, and commands that
each replace one. `Images` implements it, with the strings read out of `ram` at the
addresses and sizes in `settings`, as a kernel would.

### Memory

`alloc_memory` with one action per call of the allocator: `AllocBootParam`, `Grow`
(the loop of `max_malloc`), `Reserve` (free, and the reservation of 64 KB, which may
wrap), `AllocMemBlock`; then `AllocFdt` (the buffer `update_fdt` allocates in a boot
that fails later) and `Exit`. The allocator is external: it fails only when no gap
is large enough, and places a block anywhere or, on a heap with `first_fit`, in the lowest gap;
`realloc` grows in place or moves. `live` is its own record, so a leak or a dangling
pointer is a disagreement between `live` and the loader's pointers. Whether an allocator is of
the one kind or the other is chosen in `Init`; `Largest` and `FdtReserved` speak of
first fit, since with any placement a block may be put into the middle of the largest
gap. The heap has
blocks of the OS in it, and after an exit the OS may or may not have reclaimed
the buffer that is never freed.

### Atag

`atag_build` with one `Call` per call of `atag_add`, on a buffer of 32-bit words that
holds anything before; words beyond `boot_param` are there to notice a write to
them. The check of the macro `ATAG` is modelled as it is: it looks at where the last
tag ended. `String`, `TagAt` and `TagsFrom` are a kernel's reader, which goes by the
sizes in the headers; `Asked` is what `settings` asks for.

### Boot, HandOver

`kernel_boot` from the parameters to the entry, `builtin_memcpy` byte by byte, on memory
behind a write-back data cache: `ram` is what a reader without the cache sees, `cache`
the bytes that are newer, `Evict` the cache writing one back at any time. Building the
parameters is one step here (`Atag` and, for a DTB, later modules have the detail) that
puts `length` bytes at `boot_param` or at the buffer of `update_fdt`, which becomes
`boot_param.start` while `boot_param.size` stays. The layout of memory is assumed such
that blocks of the loader do not meet and that the target of the copy is clear of the
images (`BootAssumption`): `phys.start` is the user's, and nothing in the code checks it.
Not modelled: the two stores to the bus controller and the instruction cache.

`HandOver` is the abstract promise: on a memory with no cache in front of it the parameters are written and moved
in one step, no other byte changes, and the kernel is entered on that memory. `Boot` implements it
(`HandsOver`). The memory of the refinement mapping (`Handed`) is what would be seen if the bytes still to be copied were
in place and the cache were written back, so that a byte copied, an eviction and the cleaning of the cache are all stutters.

### FdtFormat, FdtRead, FdtRw, FdtSw

libfdt on the bytes of a blob. The header is a record with the field names of `fdt.h`, and
`mem` the bytes of the buffer; a word has `FDT_TAGSIZE` bytes, 4 in the code, and sizes
that the code writes as 4, 8, 12 and 16 follow from it. Conversions between words and bytes
(`cpu_to_fdt32`, `BigEndian`), padding and the NUL of names are there, because sizes depend on them. An operator that stands for
a function that writes returns `[ret, fdt]`: the function's result and the blob after it, which differs from
the one before also where the function fails half way.

- `FdtFormat`: the tags, `fdt_check_header`, `fdt_next_tag`, `fdt_next_node` (`fdt.c`, `fdt.h`).
- `FdtRead`: `fdt_ro.c`. A loop over `fdt_next_node` is `Visit`, the sequence of what it comes by.
- `FdtRw`: `fdt_rw.c` and `fdt_wip.c`. Every edit is a `splice`, a move of all that is behind it,
  with the offsets and sizes of the header after it, in the order of the code.
- `FdtSw`: `fdt_sw.c` and `fdt_empty_tree.c`. While a blob is written the strings grow down from the
  end of the buffer.

`FdtTree` is a reader that walks the tags once; the properties compare with it. It lists the offsets of the tags
(`TagOffsets`) and what each says (`Items`), and makes a tree of that, item by item (`TreeOf`). It also has the format as
those who write a blob keep it (`Listed`, `Orderly`, `Named`), and `Rooted`: all nodes are in the one that the first tag begins. `FdtBlobs`
builds the DTBs the instances start from, in either order of blocks and of either version.

### DeviceTree, Fdt

`DeviceTree` is the abstract promise: a sequence of nodes with depths, names and properties, and the
reserved regions, with one action per function and no bytes. `Fdt` is a program that calls the functions of libfdt on
a buffer, one action per function: it writes a tree from the start, makes an empty one, or
is given one, and edits it. With each call it takes the action of `DeviceTree` of that name, unless
the call returns that there is no room or that the blob is of the wrong kind, when the abstract tree stays.
`Faithful` says that the tree in the blob is always the abstract one, which makes
`Tree(fdt)` a refinement mapping: every call implements a step of `DeviceTree` or none. A search that finds
nothing, or a second node of the same name, is not a refusal of that kind: the abstract action says itself that
it changes nothing.

What is behind the data is filled with garbage after each edit (`Forget`), since libfdt
leaves there whatever was moved; while a tree is written it is kept, as `fdt_sw.c` counts on it.
The calls that write a tree come in an order that makes one, which libfdt does not check.

### FdtUpdate

A boot with a DTB: `kernel_boot`'s call of `update_fdt` as the steps `Alloc`, `Open`, `FindChosen`,
`SetBootargs`, `SetInitrdStart`, `SetInitrdEnd`, `Pack`, with the operators of `FdtRw`; each may fail, and the
boot then returns to the prompt (`Return`), where the user changes command line, initrd or DTB and
boots again into the same static buffer with whatever the failed boot left there. `fdt_make_node` has the
comparison as it is in `fdt.c:10`, with the sign that is never met. `Expected` is the reference: the tree of
the DTB loaded last with the settings in its first node `chosen` (`HandedOver`); `RestAsLoaded` is about what is not
in the tree, the header, the reserve map and the boot CPU.

`FailsForCause` lists the causes a boot may fail for. Whether there is room is computed from the trees and not from the
edits: `RoomOpened` is what the DTB takes when it is opened, `Taken` what setting a property takes or gives back, and there is
a room for each edit (`RoomArgs`, `RoomStart`, `RoomEnd`), since an edit may fail for room that a later one
would have given back. A DTB that is not `Rooted` is a cause of its own: libfdt looks for the root at the
beginning of the structure block, so that with a NOP before the root, which the format allows, no node `chosen` is found.

A file with the header of a DTB is taken to be one (`WellFormed`): its blocks
are inside it, its reserve map has an end, and its structure block is as the format has it. `load_dtb` checks no more than the header; what libfdt does with a file that
has that and no tree is not modelled. `UpdateAssumption` has the rest: a DTB that was loaded fits `boot_param`, which is
smaller (0x3F00 bytes) than the buffer of `update_fdt`; the buffer's size is less than half a word; and the names in `fdt.c` are
C strings without a unit address.

### Trap

The handler of `traphandler.S`, instruction group by instruction group, on an ARM with `sp`, `lr` and `spsr` banked
by mode, and `trap.c`. The program and the interrupts of the OS are each a few instructions at
addresses, any of which can raise an exception. So can `trap_enter`, which prints; its
exception overwrites `saved_regs`. `own` is a history of the registers as they would be if the exception only skipped an
instruction. Of the sixteen registers the model has one that a call keeps and one that it does not, `sp`, `lr` and `pc`.

### Settings, Shell

`Settings` has the commands that set something and the detection as operators from settings to
settings: `strtoul` with what comes after a number, `strncpy` with its fill, the limits of
`guess_memory_size`, `detect_serialnr` on sets of bits.

`Shell` is `main` from the detection to its end, `process_cmd` and `load_script`, executing
`Settings`. The open scripts are a stack of positions, because
the two functions call each other; `ReadLine` is one round of `load_script`'s loop, which drops
what `process_cmd` returns: an `exit` in a script does nothing. A line is the
sequence of pieces `fgets` makes of it, one unless it is longer than the buffer. A command is known by its
operation and its argument: comparing the names character by character is left out. Loading, booting and printing
are commands without effect here, except that a good `dtb` sets `machine_id`; they are in the other modules.
`given` and `executed` are history variables. `Exec` is the
reference: what a command executes, with the scripts it runs expanded.

## The runs

| Run | Module | Shows |
|---|---|---|
| `large` | `MCImages` | `TypeOK`, `FirstLoadExact`, `InPlaceKept` with files up to more than half of `mem_block` |
| `small` | `MCImages` | `TypeOK`, `InPlace`, and `StoreImplemented` (refinement) with files up to a third of it; either allocation may have failed |
| `reload` | `MCImages` | violation: `InPlace` with large files |
| `memory` | `MCMemory` | `TypeOK`, `Multiple`, `Accounted`, `GoodBlocks`, `Largest`, `FdtReserved`, and the liveness property `ReachesPrompt`, for both kinds of allocators |
| `tight` | `MCAtag` | `TypeOK`, `ReadBack`, `NoOverrun` in a buffer with not a word to spare |
| `boot` | `MCBoot` | `TypeOK`, `ImagesArrive`, `ParamsArrive`, the liveness property `BootEnds`, and `HandsOver` (refinement of `HandOver`) |
| `truncated` | `MCBoot` | violation: `WholeParams` |
| `scripts` | `MCShell` | `TypeOK`, `OrderKept`, `LastOneCounts`, `CmdlineWhole`, `GuessFits`, `SerialKept`, and the liveness property `BackAtPrompt` |
| `edits` | `MCFdt` | `BlocksApart`, `Faithful`, `LookupsAgree`, `WaysUpAgree` |
| `update` | `MCFdtUpdate` | `HandedOver`, `RestAsLoaded`, `FailsForCause` |
| `chosen` | `MCFdtUpdate` | violation: `ChosenMade` |
| `trap` | `MCTrap` | `TypeOK`, `Transparent`, `VectorsOwned`, and the liveness property `HandlerEnds` |

Bounds. *Images*: 18 bytes of address space in pages of 2 bytes, `boot_param` of 2
bytes below `mem_block` of 9, which starts on a page and does not end on one, so that
rounding loses a byte; files of 1, 2 and 7 bytes (2 and 7 fill the block, but fit only if
rounding costs nothing, and reloading 7 wraps; one of 15 is beyond
the address of the block's end) or 0 to 3; reads of nothing, one byte or all. Loads can follow each other
without bound. *Memory*: a heap of 23 bytes with an increment and a reservation of 4 bytes,
up to two blocks of the OS, so that there are heaps with no room for the reservation
(it wraps), for one increment, and for many; restarts without bound. *Atag*: all eight
calls with every combination of the optional tags, and command lines of 0 to 6
characters, two more than a word. *Boot*: 18 bytes; `boot_param` of 3 bytes that the target
overlaps or not, FDTs of 2 and 4 bytes. *Shell*: three
scripts nested two deep, two of them run twice, one missing, and three commands given to `main`, on 26 machines: `mem_block` of a
size on either side of every limit of the guess, with megabytes of 4 bytes, and a serial number with
one bit at the ends of every field, or all bits. Command lines are up to twice the
length of the buffer of 5, after which a shorter one comes. *Fdt*: words of 2 bytes and a buffer of 58,
which is full after three or four edits, so that every function meets the lack of room, also in its
middle; names of which one has a unit address, names of properties of which one is the end of
the other, values that are a word and that need padding. A blob that was given may be
in a read-only place, in the buffer, or packed in it. The number of edits is not bounded. *FdtUpdate*: a
buffer of 84 bytes, which the longest command line and an initrd overfill; a DTB with defaults and
NOPs, one of version 16 with its blocks in the other order, `chosen` with a unit address and below another node, one with two nodes of that
name, one whose value of the initrd's start is longer than a word, so that setting it gives room back, one with a NOP before its root, one without `chosen`,
and a file that is none; an initrd that ends beyond the last word.
*Trap*: registers with one of two values; no bound on exceptions or interrupts, but one
exception nests at a time since the second overwrites the first.
The arithmetic does not depend on the sizes
beyond what these cases distinguish; for the modules with proofs these show that it does not.
The runs of `Atag`, `Boot`, `FdtUpdate`, `Shell` and `Trap` do not check for deadlock, because all five end: with a list,
in the kernel, in a reset, with `exit`. `Fdt` can be left with a blob in a place that cannot be edited, or with a buffer
too small to go on writing; a call is then refused, which is a step that changes nothing.

Fairness. `Memory`: weak fairness of the steps of `alloc_memory`, as nothing else
runs and no call blocks; nothing is assumed of `AllocFdt` and `Exit`, which are the user's.
`ReachesPrompt` needs the heap to be finite, and nothing else. `Boot`: weak fairness of the
statements of `kernel_boot` taken together, not of `Params` (the user's) or of `Evict`.
`Shell`: weak fairness of reading scripts on, not of the user's next command.
`Trap`: weak fairness of the handler's steps, as it runs with interrupts off and nothing
else can take the processor from it, and of the key the user presses; nothing is assumed of the program,
the interrupts or the exceptions.

### What disagrees with the code's own words

Three runs end in a violation:

- `reload`: `load.c` takes the size of the image to be replaced off
  `mem_block_size_free()`, which has it taken off already; with a large image the difference
  wraps and every file is accepted. `InPlaceKept` says exactly which loads are safe: those
  for which `KernelSpaceWraps` or `InitrdSpaceWraps` is false, in particular all first loads.
- `truncated`: `kernel_boot` copies `boot_param.size` bytes (0x3F00) of an FDT that may have
  64 KB.
- `chosen`: `fdt.c:10` compares with `FDT_ERR_NOTFOUND`, and the function returns it negated; a DTB
  without a node `chosen` cannot be booted.

The passing properties are stated around some more, which are worth a look:

- `load_dtb` reads a file into `boot_param` before it looks at its header, and
  `dtb_loaded` stays set from an earlier one: `FdtUpdate` boots that way, `update_fdt` then
  refuses the header (`NoDtb` in `FailsForCause`).
- `max_malloc` reserves `FDT_SIZE_MAX` bytes for the FDT; `update_fdt` asks for 7 more, to align the
  buffer. `FdtReserved` speaks of `FDT_SIZE_MAX`.
- The rest of a comment longer than the line buffer is executed as a command, where README.md:39 says that lines
  that begin with `#` are ignored; `Shell` counts it as a command of its own.
- `fdt_open_into` in place, of a blob whose blocks it has to reorder, reads `boot_cpuid_phys` when it has
  overwritten the header (`fdt_rw.c:475`). `update_fdt` reorders from another buffer, so that `RestAsLoaded` can include the field.
- After an exception in `irq` mode the handler's `ldm` puts that mode's `sp` and `lr` into those of `svc`
  mode: the interrupt goes on, the program behind it has lost its stack (`Transparent` excepts it).
- An exception inside `trap_enter` never gets back to the code that raised the first one: handler and
  `trap_enter` return to the latter for ever (`HandlerEnds` excepts it).

## What is proved

The proofs are in `ImagesProofs`, `MemoryProofs`, `AtagProofs`, `BootProofs`, `TrapProofs`, `ShellProofs`,
`FdtBlobProofs` and `FdtUpdateProofs`, for every value of the constants that satisfies the assumptions of the modules.
`FdtBlobProofs` has no theorem of a specification: it has the lemmas on blobs and trees that `FdtUpdateProofs` rests on.
Induction is a statement about sets of numbers (`Induct`, `InductUpTo`, `InductFromOne`: a set with 0 in it, and
with n + 1 for each n, has them all), which follows from the well-foundedness of `<` in the library and stands in for its
theorems with operator parameters; each module that needs it has the lemma. A recursive function is first shown to satisfy its
equation, by induction on how far it has been built, and only the equation is used after that (`RecursionExists` in
`FdtBlobProofs`; `FlattenIs` in `ShellProofs`, for the concatenations of `FlattenSeq`).

- **Images.** `ImagesStayInPlace` (`InPlaceKept`), `FirstLoadsExact`, `TypeCorrect`: from the
  types and `Anchored`, which says that an image that is loaded is where its command puts it. The wrapping differences are resolved by lemmas on
  `SubW` that say when a difference of three words is the arithmetic one.
  `SmallImagesInPlace` and `SmallImagesStore`: if every file, and the rounding of two pages, is at most a third of `mem_block`
  (`SmallImages`) no difference ever wraps, images are always in place, and the store is
  implemented, step by step.
- **Memory.** `AlwaysAccounted`, `AlwaysGoodBlocks`, `AlwaysMultiple`, `TypeCorrect`. The
  inductive invariant says for each place in `alloc_memory` which blocks are live and who points
  to them; `Multiple` needs the reservation to be a multiple of the increment, and survives its
  wrapping because `AllocMemBlock` sets the size to 0 when the request fails, which the invariant
  derives from the end of the heap.
  `AlwaysLargest` (`Largest`) and `AlwaysFdtReserved` (`FdtReserved`) are about a first-fit allocator, and follow from `GapInv`: the
  block that `max_malloc` grows always lies at the beginning of a gap (`LowestAtGapStart`, `GapGrow`), so that it is never in the way of a
  larger one, and what `realloc` does not find with it in place is not there without it (`Biggest`). `mem_block` then
  starts that gap, and what is left of it behind `mem_block` is the reservation. That there is a largest gap at all is an induction over sizes.
- **Atag.** `NeverOverruns` (`NoOverrun`) and `TypeCorrect`, if boot_param has room for the longest
  list: after n calls the list is no longer than `Reach[n]`. For the real sizes the assumption is
  58 words of 4032. `ReadsBack` (`ReadBack`), with the same room: `ListInv` says where each of the tags that were
  asked for begins (`Heads`) and what its words are (`Stored`), which no later call disturbs since the heads ascend; the string
  that `strcpy` wrote is read back byte by byte; and the reader, which follows the sizes, goes from head to
  head, by induction from the last tag to the first.
- **Boot.** `ImagesAlwaysArrive`, `ParamsAlwaysArrive`, `TypeCorrect`: the invariant speaks of what the
  loader sees through the cache, which no eviction changes; while bytes are copied, those done are at
  the target and those to come are still at the source, which is where the direction of the copy matters.
  `HandOverImplemented` (`HandsOver`): under the same invariant every step of `Boot` is a step of `HandOver` or leaves its
  variables alone, for every layout of `BootAssumption` and every order in which the cache writes back.
- **Trap.** `AlwaysTransparent` (`Transparent`) and `VectorsAlwaysOwned` (`VectorsOwned`), for every contents of
  the registers and every address of the OS's handlers. Neither is inductive: the invariant follows the interrupted registers
  through the handler (`Entered`, `SavedAt`, `SavedBanked`, in that order), and once `trap_enter` has raised an exception it says
  instead that the `lr` of svc mode and the saved place stay inside the handler and `trap_enter` (`Lost`), which is why no wrong registers ever
  reach the code. `TypeCorrect`: whatever is moved between registers, banks and `saved_regs` is a word of the instance (`WordsInv`).
- **Shell, Settings.** For every set of machines, commands and scripts, and every size of a buffer. `LastCounts`
  (`LastOneCounts`), `CmdlineKept` (`CmdlineWhole`), `Guesses` (`GuessFits`) and `SerialsKept` (`SerialKept`) do not look at the scripts: for
  the settings a step is the detection, one command, or nothing (`WhatHappens`). `SerialsKept` is about shifts: each bit of
  a field comes to a place of its own, and no other bit comes there. For `OrderKept` the invariant adds to what was executed what the open scripts
  have still to run (`Rest`): each step moves one piece from the second to the first. `InOrder` and `WellTyped` (`TypeOK`) assume that
  scripts do not run each other in circles (`Acyclic`, which TLC checks of the instance); else the reference has
  no value, and the loader does not stop nesting. `Acyclic` gives each script a rank below which the scripts it runs are, so
  that an expansion as deep as there are scripts is a complete one (`Unfold`).

- **FdtUpdate.** Three theorems, for every DTB that is `WellFormed` and fits, words of any size above a byte, all settings, and any
  sequence of boots that failed.

  `RestKept` (`RestAsLoaded`) does not need to know what libfdt finds in the
  structure block. For each search (`NextTag`, `NextProperty`, `GetProperty`, `NextNode`, `SubnodeIs`) it shows that the recursion
  ends, as each step goes forward in a finite block, and that the result is an error or an offset inside that block,
  aligned, whatever the block holds. For each edit (`SpliceStructKeeps`, `ResizeKeeps`, `AddPropertyKeeps`,
  `FindAddStringKeeps`, `WriteValueKeeps`, up to `SetpropKeeps`), failed or not, it shows `Kept`: the blob is still one that
  libfdt takes (`Sound`), and the bytes of the reserve map are those of the DTB, as every copy and every move is to a place
  behind them (`Beyond`). `OpenedKeeps` and `ReorderedKeeps` are the two ways of `fdt_open_into` to get there, and `PackKeeps` is
  the move that goes the other way, in place, block by block. `SameMap` then reads the entries back. The invariant
  `IInv` says that the buffer is `Kept` from the step `Open` on; a boot that fails gives it up, and the next `Open` needs nothing of it.
  The error codes matter in one place: `MakesNone` is the disagreement of the run `chosen`, proved: `update_fdt` never makes a node.

  `TreeHandedOver` (`HandedOver`) is about the contents. `Tells` says of a blob what each of its tags says and where it ends, without
  recursion; the reader of `FdtTree` reads just that back (`TellsItems`), so that a blob's tree is known from its
  items. The searches are shown to find what a reader of the items would: `GetPropertyAt` the first property of the node
  with the name, `ChosenAt` the first node `chosen` below the root. An edit is one item replaced or put in (`ResizedTells`, `InsertTells`):
  all items behind it are moved as they are, those before it are not touched, and a name in the strings
  is still read where it was. `TreeOf` is a fold over the items, and the tree with that one item changed is `WithProp` of the
  tree (`SetpropGives`). `OpenTells` and `PackTells` copy blocks and with them the items (`Recites`). With `IInv`, the invariant `Telling` is inductive: it says
  which tree is in the buffer at each step, and that `chosen` is the offset of the node that `Expected` changes.

  `FailsOnlyForCause` (`FailsForCause`) adds `Roomed`: at each step the data in the buffer take no more than the room computed from
  the trees, the strings still begin with those of the DTB (`SameStrings`), and the node of the settings is followed by a tag that is no
  property (`Followed`), which follows from `Rooted`, so that a search that fails there can only say that there is no such property
  (`Searched`). `SetpropRoom` then says of an edit that it fails only if what it takes is not there, and `TakesIs` that what it takes is
  what the tree says (`Taken`).

Only model-checked: the liveness properties (`ReachesPrompt`, `BootEnds`, `BackAtPrompt`,
`HandlerEnds`), which are beyond the prover; and the properties of `Fdt` (`BlocksApart`, `Faithful`, `LookupsAgree`, `WaysUpAgree`).
What is proved of opening, setting a property and packing for `update_fdt` is the part of `Faithful` the loader relies on; the
other edits of libfdt, reordering in place, writing a tree from the start, and the searches upwards are not used by the
loader (its one call of `fdt_add_subnode` is never reached), and each would need lemmas of the kind of `InsertTells` of its own.

## Not modelled

- `peek`, `poke`, `dump_settings`, `show_mem` and the messages: they print. `poke` writes one word to an address the user gives, so
  nothing could be said of a state after it.
- Of libfdt: string lists and `compatible`, aliases in paths, paths longer than the caller's buffer, names given with a length, and
  `fdt_strerror`. The loader calls none of them.
- The two stores of `kernel_boot` to the bus controller, and the instruction cache: there is no state
  in the program that depends on them.
- The C stack: how deep scripts can nest is not known from the source. `TypeOK` of `Shell` shows that scripts that do
  not run each other in circles are open once each.
- The length of a command's name: `process_cmd` compares prefixes, and `Shell` takes the
  command a piece begins with as given.
- The build.

## Plan

What is left to do, in the order of what it would say about the system:

1. `Loader`: `Memory`, `Images`, `FdtUpdate` and `Boot` composed, so that the assumptions of `Images` and `Boot`
   on layouts become properties.
2. Proofs about the edits of libfdt that `update_fdt` does not use: first that each keeps `BlocksApart`, from the lemmas on `splice`;
   then `Faithful` for those that put in or take out items, as `InsertTells` does for a property.
