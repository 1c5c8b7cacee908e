----------------------------- MODULE FdtUpdate -----------------------------
(***************************************************************************)
(* A boot with a DTB: update_fdt of fdt.c, called by kernel_boot, on the   *)
(* blobs of FdtRw.                                                         *)
(*                                                                         *)
(* The DTB is copied from boot_param to a buffer that is allocated once,   *)
(* and edited there in five steps, each of which may fail.  A boot that    *)
(* fails returns to the prompt; the user changes the settings, or loads    *)
(* another DTB, and boots again, with the same buffer.                     *)
(***************************************************************************)
EXTENDS FdtRw, FdtTree

CONSTANTS
  FDT_SIZE_MAX,     \* fdt.h: the bytes of the buffer
  Files,            \* the files that can be loaded as a DTB, as blobs
  Cmdlines,         \* the arguments of the command cmdline
  Initrds,          \* the initrds that can be loaded: addr and size
  CHOSEN, BOOTARGS, INITRD_START, INITRD_END  \* the names of fdt.c

(* A blob whose buffer has n bytes. *)
BlobOf(n) ==
  [magic : Nat, version : Nat, last_comp_version : Nat, totalsize : Nat,
   boot_cpuid_phys : Nat, off_mem_rsvmap : Nat, off_dt_struct : Nat,
   off_dt_strings : Nat, size_dt_struct : Nat, size_dt_strings : Nat,
   mem : [0 .. n - 1 -> Byte]]

(* A file with the header of a DTB is one: its blocks are inside it, its   *)
(* reserve map has an end, and its structure is as the format has it.      *)
(* Nothing in the code looks.                                              *)
WellFormed(f) ==
  LET struct_size == IF f.version >= 17 THEN f.size_dt_struct ELSE StructEnd(f) IN
  /\ \E i \in Entries(f) : mem_rsv(f, i).size = 0
  /\ struct_size \in Nat \ {0} /\ f.off_dt_struct + struct_size <= f.totalsize
  /\ f.off_dt_strings + f.size_dt_strings <= f.totalsize
  /\ Listed(f, struct_size, TagOffsets(f))
  /\ Orderly(Items(f)) /\ Named(f, TagOffsets(f))

(* A name as fdt.c has it: a C string, of a node without a unit address.   *)
Plain(name) == name \in Seq(Byte) /\ \A i \in DOMAIN name : name[i] \notin {NUL, AT}

ASSUME UpdateAssumption ==
  /\ FDT_TAGSIZE > 1 /\ FDT_SIZE_MAX \in Nat /\ FDT_SIZE_MAX < WordBase \div 2
  /\ \A f \in Files : f \in BlobOf(f.totalsize) /\ f.totalsize <= FDT_SIZE_MAX
  /\ \A f \in Files : fdt_check_header(f) = 0 => WellFormed(f)
  /\ \A r \in Initrds : r.addr \in 0 .. WordBase - 1 /\ r.size \in 0 .. WordBase - 1
  /\ Cmdlines \subseteq Seq(Byte)
  /\ \A n \in {CHOSEN, BOOTARGS, INITRD_START, INITRD_END} : Plain(n)

VARIABLES
  pc,              \* where update_fdt is, "prompt", "failed" or "kernel"
  kernel_cmdline,  \* settings.kernel_cmdline
  initrd,          \* settings.initrd; loaded unless its size is 0
  boot_param,      \* the blob in the memory alloc_memory got for it
  start,           \* settings.boot_param.start: "boot_param" or "fdt"
  dtb_loaded,      \* settings.dtb_loaded
  fdt,             \* the blob in the static buffer, or NoBuffer
  chosen           \* the local of update_fdt

settings == <<kernel_cmdline, initrd, boot_param, start, dtb_loaded>>
vars == <<pc, settings, fdt, chosen>>

NoBuffer == [mem |-> << >>]
Unloaded == [addr |-> 0, size |-> 0]

Init ==
  /\ pc = "prompt"
  /\ kernel_cmdline = << >>
  /\ initrd = Unloaded
  /\ boot_param = NoBuffer /\ start = "boot_param" /\ dtb_loaded = FALSE
  /\ fdt = NoBuffer
  /\ chosen = 0

-----------------------------------------------------------------------------
(* The commands between two boots.  An empty command line is not set, and  *)
(* a file that is no DTB replaces the one in boot_param all the same.      *)
SetCmdline ==
  /\ pc = "prompt"
  /\ \E c \in Cmdlines : kernel_cmdline' = IF c # << >> THEN c ELSE kernel_cmdline
  /\ UNCHANGED <<pc, initrd, boot_param, start, dtb_loaded, fdt, chosen>>

LoadInitrd ==
  /\ pc = "prompt"
  /\ initrd' \in Initrds \cup {Unloaded}
  /\ UNCHANGED <<pc, kernel_cmdline, boot_param, start, dtb_loaded, fdt, chosen>>

LoadDtb ==
  /\ pc = "prompt"
  /\ boot_param' \in Files
  /\ dtb_loaded' = (dtb_loaded \/ fdt_check_header(boot_param') = 0)
  /\ UNCHANGED <<pc, kernel_cmdline, initrd, start, fdt, chosen>>

-----------------------------------------------------------------------------
(* update_fdt.  The buffer is allocated at the first call, or at a later   *)
(* one if there was no memory; what it holds is left from an earlier boot, *)
(* or from anybody.                                                        *)
Garbage == 238
Alloc ==
  /\ pc = "prompt" /\ dtb_loaded
  /\ \/ /\ fdt = NoBuffer
        /\ \/ /\ fdt' = [mem |-> [i \in 0 .. FDT_SIZE_MAX - 1 |-> Garbage]]
              /\ pc' = "open"
           \/ /\ pc' = "failed"
              /\ UNCHANGED fdt
     \/ /\ fdt # NoBuffer
        /\ pc' = "open"
        /\ UNCHANGED fdt
  /\ UNCHANGED <<settings, chosen>>

(* A step that leaves r: a negative result ends update_fdt.  Failed_AtZero *)
(* takes 0 for a failure too.                                              *)
Failed_AtZero(ret) == ret <= 0
Failed(ret) == ret < 0

Step(r, next) ==
  /\ fdt' = r.fdt
  /\ pc' = IF Failed(r.ret) THEN "failed" ELSE next
  /\ UNCHANGED settings

(* A DTB that cannot be opened leaves the buffer alone.  Open_Once takes   *)
(* the blob that an earlier boot has left there.                           *)
Open_Once ==
  /\ pc = "open"
  /\ LET r == IF "magic" \in DOMAIN fdt THEN Done(fdt, 0)
              ELSE fdt_open_into(boot_param, fdt.mem, FALSE) IN
     /\ fdt' = IF r.ret < 0 THEN fdt ELSE r.fdt
     /\ pc' = IF r.ret < 0 THEN "failed" ELSE "chosen"
  /\ UNCHANGED <<settings, chosen>>
Open ==
  /\ pc = "open"
  /\ LET r == fdt_open_into(boot_param, fdt.mem, FALSE) IN
     /\ fdt' = IF r.ret < 0 THEN fdt ELSE r.fdt
     /\ pc' = IF r.ret < 0 THEN "failed" ELSE "chosen"
  /\ UNCHANGED <<settings, chosen>>

(* _fdt_make_node compares with the error code as it is before the sign,   *)
(* which no result of fdt_subnode_offset is: no node is ever made.         *)
fdt_make_node(b, parent, name) ==
  LET e == fdt_subnode_offset(b, parent, name) IN
  IF e # NOTFOUND THEN Done(b, e) ELSE fdt_add_subnode(b, parent, name)

FindChosen ==
  /\ pc = "chosen"
  /\ LET r == fdt_make_node(fdt, 0, CHOSEN) IN
     /\ chosen' = r.ret
     /\ fdt' = r.fdt
     /\ pc' = IF r.ret < 0 THEN "failed" ELSE "bootargs"
  /\ UNCHANGED settings

(* "If not given assume defaults from DT"; SetBootargs_Always does not. *)
SetString(name, s) == fdt_setprop(fdt, chosen, name, Append(s, NUL))
SetBootargs_Always ==
  /\ pc = "bootargs"
  /\ Step(SetString(BOOTARGS, kernel_cmdline), "initrd_start")
  /\ UNCHANGED chosen
SetBootargs ==
  /\ pc = "bootargs"
  /\ Step(IF kernel_cmdline = << >> THEN Done(fdt, 0)
          ELSE SetString(BOOTARGS, kernel_cmdline), "initrd_start")
  /\ UNCHANGED chosen

SetCell(name, x) == fdt_setprop(fdt, chosen, name, cpu_to_fdt32(x))

SetInitrdStart ==
  /\ pc = "initrd_start"
  /\ IF initrd.size = 0 THEN Step(Done(fdt, 0), "pack")
     ELSE Step(SetCell(INITRD_START, initrd.addr), "initrd_end")
  /\ UNCHANGED chosen

(* The end is an unsigned: of a sum that is more, the low bytes. *)
initrd_end == (initrd.addr + initrd.size) % WordBase
SetInitrdEnd ==
  /\ pc = "initrd_end"
  /\ Step(SetCell(INITRD_END, initrd_end), "pack")
  /\ UNCHANGED chosen

(* The result of fdt_pack is not looked at.  kernel_boot goes on with the  *)
(* buffer in the place of boot_param, and does not come back.              *)
Pack ==
  /\ pc = "pack"
  /\ fdt' = fdt_pack(fdt).fdt
  /\ start' = "fdt"
  /\ pc' = "kernel"
  /\ UNCHANGED <<kernel_cmdline, initrd, boot_param, dtb_loaded, chosen>>

Return ==
  /\ pc = "failed"
  /\ pc' = "prompt"
  /\ UNCHANGED <<settings, fdt, chosen>>

Next ==
  \/ SetCmdline \/ LoadInitrd \/ LoadDtb
  \/ Alloc \/ Open \/ FindChosen \/ SetBootargs \/ SetInitrdStart \/ SetInitrdEnd
  \/ Pack \/ Return

Spec == Init /\ [][Next]_vars

-----------------------------------------------------------------------------
(* What the kernel should be given: the tree of the DTB that was loaded    *)
(* last, with what the settings say in the first node below the root that  *)
(* is called chosen, with or without a unit address, and no other change.  *)
IsChosen(name) ==
  \/ name = CHOSEN
  \/ /\ Len(name) > Len(CHOSEN)
     /\ SubSeq(name, 1, Len(CHOSEN) + 1) = Append(CHOSEN, AT)
Chosens(t) == {i \in DOMAIN t : t[i].depth = 1 /\ IsChosen(t[i].name)}

WithProp(t, p, v) ==
  LET i == Least(Chosens(t))
      at == {k \in DOMAIN t[i].props : t[i].props[k].name = p} IN
  IF at = {} THEN [t EXCEPT ![i].props = <<[name |-> p, val |-> v]>> \o @]
  ELSE [t EXCEPT ![i].props[Least(at)].val = v]

Args ==
  IF kernel_cmdline = << >> THEN Tree(boot_param)
  ELSE WithProp(Tree(boot_param), BOOTARGS, Append(kernel_cmdline, NUL))
WithStart == WithProp(Args, INITRD_START, cpu_to_fdt32(initrd.addr))
Expected ==
  IF initrd.size = 0 THEN Args
  ELSE WithProp(WithStart, INITRD_END, cpu_to_fdt32(initrd_end))

(* A kernel that is entered has a device tree with its command line and    *)
(* initrd, whatever boots failed before, and with whichever DTB; and the   *)
(* rest of that tree is as it was loaded.                                  *)
HandedOver == pc = "kernel" => start = "fdt" /\ Tree(fdt) = Expected

(* The blob around that tree is a sound one in the buffer: the header is   *)
(* what libfdt takes for an edited blob, the reserve map ends before the   *)
(* structure, and the regions it reserves and the boot CPU are those of    *)
(* the DTB loaded last, which was one.                                     *)
RestAsLoaded ==
  pc = "kernel" =>
    /\ fdt_check_header(boot_param) = 0 /\ rw_check_header(fdt).ret = 0
    /\ fdt.totalsize <= FDT_SIZE_MAX
    /\ fdt.off_mem_rsvmap + whole_mem_rsv_size(fdt) <= fdt.off_dt_struct
    /\ ReserveMap(fdt) = ReserveMap(boot_param)
    /\ fdt.boot_cpuid_phys = boot_param.boot_cpuid_phys

(* The room the DTB needs in the buffer, and with each edit.  The blocks   *)
(* of a DTB in libfdt's order are left where they are; the name of a new   *)
(* property may be in the strings already.                                 *)
RoomOpened ==
  LET b == boot_param
      struct_size == IF b.version >= 17 THEN b.size_dt_struct ELSE StructEnd(b)
  IN IF blocks_misordered(b, whole_mem_rsv_size(b), struct_size)
     THEN FDT_ALIGN(HeaderSize, 2 * FDT_TAGSIZE) + whole_mem_rsv_size(b)
            + struct_size + b.size_dt_strings
     ELSE data_size(b)

Taken(t, p, v) ==
  LET props == t[Least(Chosens(t))].props
      at == {k \in DOMAIN props : props[k].name = p}
      new_name == fdt_find_string(boot_param.mem, boot_param.off_dt_strings,
                                  boot_param.size_dt_strings, p) < 0 IN
  IF at = {} THEN PropSize + FDT_TAGALIGN(Len(v)) + (IF new_name THEN Len(p) + 1 ELSE 0)
  ELSE FDT_TAGALIGN(Len(v)) - FDT_TAGALIGN(Len(props[Least(at)].val))

RoomArgs ==
  RoomOpened + (IF kernel_cmdline = << >> THEN 0
                ELSE Taken(Tree(boot_param), BOOTARGS, Append(kernel_cmdline, NUL)))
RoomStart == RoomArgs + Taken(Args, INITRD_START, cpu_to_fdt32(initrd.addr))
RoomEnd == RoomStart + Taken(WithStart, INITRD_END, cpu_to_fdt32(initrd_end))

(* A boot fails only if there is no memory for the buffer, if boot_param   *)
(* holds no DTB, if that does not begin with its root or has no node       *)
(* chosen, or if the DTB or the result of an edit cannot fit; in           *)
(* particular, what an earlier boot left in the buffer does not count.     *)
NoDtb == fdt_check_header(boot_param) # 0
FailsForCause ==
  pc = "failed" =>
    \/ fdt = NoBuffer \/ NoDtb
    \/ ~Rooted(Items(boot_param)) \/ Chosens(Tree(boot_param)) = {}
    \/ RoomOpened > FDT_SIZE_MAX \/ RoomArgs > FDT_SIZE_MAX
    \/ initrd.size # 0 /\ (RoomStart > FDT_SIZE_MAX \/ RoomEnd > FDT_SIZE_MAX)

(* "Failed to create 'chosen' node!": a DTB without the node gets one, so  *)
(* that the lack of it is no cause, with room for the largest edits.       *)
ChosenMade ==
  pc = "failed" =>
    \/ fdt = NoBuffer \/ NoDtb
    \/ Chosens(Tree(boot_param)) # {}
    \/ boot_param.totalsize + 4 * EntrySize > FDT_SIZE_MAX

=============================================================================
