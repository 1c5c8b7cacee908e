-------------------------------- MODULE Boot --------------------------------
(***************************************************************************)
(* The hand-over to the kernel: kernel_boot of kernel.c and builtin_memcpy *)
(* of common.c, on memory behind a write-back data cache.                  *)
(*                                                                         *)
(* The kernel starts with the cache and the MMU off, so it sees ram; the   *)
(* loader, until it turns them off, sees what it wrote last, which may be  *)
(* in the cache only.  The cache writes lines back when it likes.  Up to   *)
(* its last statement kernel_boot works with memory it must not disturb:   *)
(* the images, and its source while it copies the parameters.              *)
(*                                                                         *)
(* The parameters are abstract: length bytes, at boot_param for a list of  *)
(* tags (Atag), at the buffer of update_fdt for a DTB.  The stores to the  *)
(* bus controller change no memory and are not modelled.                   *)
(***************************************************************************)
EXTENDS Words

CONSTANTS
  Settings,         \* what settings can hold at a boot
  RELOC,            \* 0x100 in BOOT_PARAM_RELADDR
  AtagSizes,        \* the sizes of a list atag_build can build
  FdtSizes          \* the sizes of an FDT update_fdt can return

VARIABLES
  settings,    \* settings, with the address of update_fdt's buffer as fdt
  pc,          \* where kernel_boot is
  length,      \* bytes of the parameters that were built
  dst, src,    \* the locals of builtin_memcpy
  size,
  ram,         \* the contents of memory
  cache,       \* the bytes in the cache that are newer than ram
  cached,      \* the D-cache and the MMU are on
  regs         \* what the kernel is called with

vars == <<settings, pc, length, dst, src, size, ram, cache, cached, regs>>

(* Contents: of an image at address a, byte i of the parameters, or other. *)
ImageByte(a) == <<"image", a>>
ParamByte(i) == <<"param", i>>
Other == <<"other", 0>>
Content == {ImageByte(a) : a \in Word} \cup {ParamByte(i) : i \in Word} \cup {Other}

-----------------------------------------------------------------------------
(* The blocks of memory of settings s. *)
In(a, b) == b.start <= a /\ a < b.start + b.size
KernelBlock(s) == [start |-> s.kernel.addr, size |-> s.kernel.size]
InitrdBlock(s) == [start |-> s.initrd.addr, size |-> s.initrd.size]
BOOT_PARAM_RELADDR(s) == AddW(s.phys_start, RELOC)
Target(s) == [start |-> BOOT_PARAM_RELADDR(s), size |-> s.boot_param.size]

(* Where the parameters are built, and how many bytes they can have.       *)
Sizes(s) == IF s.dtb_loaded THEN FdtSizes ELSE AtagSizes
Source(s) == IF s.dtb_loaded THEN s.fdt ELSE s.boot_param.start
Built(s, n) == [start |-> Source(s), size |-> n]

ImageCells(s) == {a \in Word : In(a, KernelBlock(s)) \/ In(a, InitrdBlock(s))}

SettingsType ==
  [kernel : [addr : Word, size : Word], initrd : [addr : Word, size : Word],
   boot_param : Block, phys_start : Word, fdt : Word, machine_id : Nat,
   kernel_loaded : BOOLEAN, dtb_loaded : BOOLEAN, break_on_entry : BOOLEAN]

(* The blocks of the loader do not meet (Memory, Images), and phys.start   *)
(* is such that the parameters are copied clear of the images, and not to  *)
(* an address inside the block they come from.                             *)
Apart(s) ==
  /\ Target(s).start + s.boot_param.size < WordSize
  /\ Source(s) + s.boot_param.size < WordSize
  /\ \/ Target(s).start <= Source(s)
     \/ Source(s) + s.boot_param.size <= Target(s).start
  /\ \A a \in ImageCells(s) :
       /\ ~In(a, Target(s))
       /\ \A n \in Sizes(s) : ~In(a, Built(s, n))

ASSUME BootAssumption ==
  /\ RELOC \in Word
  /\ AtagSizes \subseteq Word /\ FdtSizes \subseteq Word
  /\ Settings \subseteq SettingsType
  /\ \A s \in Settings : Apart(s)

-----------------------------------------------------------------------------
(* What the loader sees at address a, and a store through the cache. *)
Visible(a) == IF a \in DOMAIN cache THEN cache[a] ELSE ram[a]

Store(a, v) ==
  cache' = [x \in DOMAIN cache \cup {a} |-> IF x = a THEN v ELSE cache[x]]

(* The images are loaded, with every byte still in the cache. *)
Init ==
  /\ settings \in Settings
  /\ pc = "prompt"
  /\ length = 0
  /\ dst = NULL /\ src = NULL /\ size = 0
  /\ ram = [a \in Word |-> Other]
  /\ cache = [a \in ImageCells(settings) |-> ImageByte(a)]
  /\ cached = TRUE
  /\ regs = << >>

(* kernel_boot up to builtin_memcpy.  A boot without a kernel, without     *)
(* memory for the parameters, or with a DTB that libfdt refuses, changes   *)
(* nothing.                                                                *)
Params ==
  /\ pc = "prompt"
  /\ settings.kernel_loaded
  /\ settings.dtb_loaded \/ settings.boot_param.start # NULL
  /\ \E n \in Sizes(settings) :
       /\ length' = n
       /\ cache' = [a \in DOMAIN cache
                            \cup {x \in Word : In(x, Built(settings, n))} |->
                      IF In(a, Built(settings, n))
                      THEN ParamByte(a - Source(settings)) ELSE cache[a]]
  /\ settings' = [settings EXCEPT !.boot_param.start = Source(settings)]
  /\ dst' = BOOT_PARAM_RELADDR(settings)
  /\ src' = Source(settings)
  /\ size' = settings.boot_param.size
  /\ pc' = "copy"
  /\ UNCHANGED <<ram, cached, regs>>

(* The body of builtin_memcpy's loop: with nothing counted, and from the   *)
(* last byte down.                                                         *)
CopyByte_NoCount ==
  /\ pc = "copy" /\ size # 0
  /\ Store(dst, Visible(src))
  /\ UNCHANGED <<settings, pc, length, dst, src, size, ram, cached, regs>>

CopyByte_Down ==
  /\ pc = "copy" /\ size # 0
  /\ Store(AddW(dst, size - 1), Visible(AddW(src, size - 1)))
  /\ size' = SubW(size, 1)
  /\ UNCHANGED <<settings, pc, length, dst, src, ram, cached, regs>>

(* One byte of builtin_memcpy. *)
CopyByte ==
  /\ pc = "copy" /\ size # 0
  /\ Store(dst, Visible(src))
  /\ dst' = AddW(dst, 1)
  /\ src' = AddW(src, 1)
  /\ size' = SubW(size, 1)
  /\ UNCHANGED <<settings, pc, length, ram, cached, regs>>

(* The end of the loop, and as if clear_cache were not called after it. *)
Copied_NoClear ==
  /\ pc = "copy" /\ size = 0
  /\ pc' = "caches_off"
  /\ UNCHANGED <<settings, length, dst, src, size, ram, cache, cached, regs>>

Copied ==
  /\ pc = "copy" /\ size = 0
  /\ pc' = "clear_cache"
  /\ UNCHANGED <<settings, length, dst, src, size, ram, cache, cached, regs>>

(* clear_cache of the OS: what is dirty is written back, all is discarded. *)
(* ClearCache_NoClean only discards.                                       *)
ClearCache_NoClean ==
  /\ pc = "clear_cache"
  /\ cache' = << >>
  /\ pc' = "caches_off"
  /\ UNCHANGED <<settings, length, dst, src, size, ram, cached, regs>>

ClearCache ==
  /\ pc = "clear_cache"
  /\ ram' = [a \in Word |-> Visible(a)]
  /\ cache' = << >>
  /\ pc' = "caches_off"
  /\ UNCHANGED <<settings, length, dst, src, size, cached, regs>>

(* The three instructions that clear the bits of the D-cache and the MMU.  *)
CachesOff ==
  /\ pc = "caches_off"
  /\ cached' = FALSE
  /\ pc' = IF settings.break_on_entry THEN "bkpt" ELSE "entry"
  /\ UNCHANGED <<settings, length, dst, src, size, ram, cache, regs>>

(* The debugger, or trap_enter, continues behind bkpt or resets. *)
Bkpt ==
  /\ pc = "bkpt"
  /\ pc' \in {"entry", "reset"}
  /\ UNCHANGED <<settings, length, dst, src, size, ram, cache, cached, regs>>

Entry ==
  /\ pc = "entry"
  /\ regs' = <<0, settings.machine_id, BOOT_PARAM_RELADDR(settings)>>
  /\ pc' = "kernel"
  /\ UNCHANGED <<settings, length, dst, src, size, ram, cache, cached>>

(* The cache writes a byte back. *)
Evict ==
  /\ cached
  /\ \E a \in DOMAIN cache :
       /\ ram' = [ram EXCEPT ![a] = cache[a]]
       /\ cache' = [x \in DOMAIN cache \ {a} |-> cache[x]]
  /\ UNCHANGED <<settings, pc, length, dst, src, size, cached, regs>>

KernelBoot == CopyByte \/ Copied \/ ClearCache \/ CachesOff \/ Bkpt \/ Entry

Next == Params \/ KernelBoot \/ Evict

Spec == Init /\ [][Next]_vars

(* Nothing runs but kernel_boot: a statement that can be executed is. *)
FairSpec == Spec /\ WF_vars(KernelBoot)

-----------------------------------------------------------------------------
(* The state has its types, and the cache is never turned off with a byte  *)
(* in it that memory does not have.                                        *)
TypeOK ==
  /\ settings \in SettingsType
  /\ pc \in {"prompt", "copy", "clear_cache", "caches_off", "bkpt", "entry",
             "reset", "kernel"}
  /\ length \in Word
  /\ dst \in Word /\ src \in Word /\ size \in Word
  /\ ram \in [Word -> Content]
  /\ DOMAIN cache \subseteq Word
  /\ \A a \in DOMAIN cache : cache[a] \in Content
  /\ cached \in BOOLEAN
  /\ ~cached => DOMAIN cache = {}

(* What the kernel sees: the memory, with the cache off. *)
Running == pc = "kernel"

(* Every byte of the images is in memory when the kernel runs, not only in *)
(* the cache, and neither building the parameters nor copying them has     *)
(* overwritten one.                                                        *)
ImagesArrive ==
  Running => \A a \in ImageCells(settings) : ram[a] = ImageByte(a)

(* The kernel finds the parameters at the address in r2, as many bytes as  *)
(* boot_param has; a list of tags is never longer.                         *)
ParamsArrive ==
  Running =>
    \A i \in 0 .. length - 1 :
      i < settings.boot_param.size => ram[AddW(regs[3], i)] = ParamByte(i)

(* A boot that has begun to copy ends in the kernel, or in the reset of a  *)
(* breakpoint: its loop counts size down to 0 and not past it.             *)
BootEnds == pc = "copy" ~> pc \in {"kernel", "reset"}

(* "Relocate boot parameters": the kernel finds all of them.               *)
WholeParams ==
  Running => \A i \in 0 .. length - 1 : ram[AddW(regs[3], i)] = ParamByte(i)

-----------------------------------------------------------------------------
(* kernel_boot as a hand-over in one step.  Its memory is what the kernel  *)
(* would see if builtin_memcpy had ended and the cache were written back.  *)
Job(s) ==
  [loaded     |-> [a \in Word |-> IF a \in ImageCells(s) THEN ImageByte(a)
                                  ELSE Other],
   params     |-> {[i \in 0 .. n - 1 |-> ParamByte(i)] : n \in Sizes(s)},
   from       |-> Source(s),
   to         |-> BOOT_PARAM_RELADDR(s),
   room       |-> s.boot_param.size,
   machine_id |-> s.machine_id,
   ready      |-> s.kernel_loaded /\ (s.dtb_loaded \/ s.boot_param.start # NULL),
   may_reset  |-> s.break_on_entry]

Seen(a) == IF cached THEN Visible(a) ELSE ram[a]

Handed ==
  [a \in Word |-> IF pc = "copy" /\ dst <= a /\ a < dst + size
                  THEN Seen(AddW(src, a - dst)) ELSE Seen(a)]

H == INSTANCE HandOver WITH
  Jobs <- {Job(s) : s \in Settings},
  job <- Job(settings),
  phase <- IF pc \in {"prompt", "kernel", "reset"} THEN pc ELSE "booting",
  memory <- Handed

(* The kernel is entered on exactly the memory of a hand-over in one step: *)
(* the images, the parameters moved as by a memmove, and not one other     *)
(* byte changed, whatever the cache has written back and when.             *)
HandsOver == H!Spec

=============================================================================
