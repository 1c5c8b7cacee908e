------------------------------ MODULE Settings ------------------------------
(***************************************************************************)
(* What the loader finds out about the machine when it starts (mach.c),    *)
(* and the commands that set something (common.c, kernel_cmdline of        *)
(* kernel.c), as operators from settings to settings.                      *)
(*                                                                         *)
(* The argument of a command is a sequence of words; one that strtol or    *)
(* strtoul can read is the number it reads.                                *)
(***************************************************************************)
EXTENDS Integers, Sequences

CONSTANTS
  MB,           \* bytes: 1024 * 1024
  CmdlineSize,  \* sizeof(settings.kernel_cmdline): 128
  DTB_MACH_ID

ASSUME SettingsAssumption == MB \in Nat \ {0} /\ CmdlineSize \in Nat \ {0}

NUL == "NUL"
PHYS_START == 256 * MB

-----------------------------------------------------------------------------
(* strtol and strtoul: the number at the start of s, and what is after it. *)
(* A word that begins with no digit is JUNK.                               *)
JUNK == -1
Number(s) == s # << >> /\ Head(s) # JUNK
strtoul(s) == IF Number(s) THEN Head(s) ELSE 0
AfterNumber(s) == IF Number(s) THEN Tail(s) ELSE s

setget_mach(s, arg) ==
  IF strtoul(arg) # 0 THEN [s EXCEPT !.machine_id = strtoul(arg)] ELSE s

(* Either number may be missing or 0; setget_phys_Early stores the first   *)
(* one before it looks at the second.                                      *)
setget_phys_Early(s, arg) ==
  LET start == strtoul(arg)
      size == strtoul(AfterNumber(arg)) IN
  IF start = 0 THEN s
  ELSE [s EXCEPT !.phys = [start |-> start, size |-> IF size # 0 THEN size ELSE @.size]]
setget_phys(s, arg) ==
  LET start == strtoul(arg)
      size == strtoul(AfterNumber(arg)) IN
  IF start # 0 /\ size # 0
  THEN [s EXCEPT !.phys = [start |-> start, size |-> size]] ELSE s

setget_rdisksize(s, arg) ==
  IF strtoul(arg) # 0 THEN [s EXCEPT !.ramdisk_size = strtoul(arg)] ELSE s

break_on_entry(s, arg) == [s EXCEPT !.break_on_entry = TRUE]

(* strncpy copies as many characters as there is room for before the last  *)
(* one, and fills the rest with NUL; strncpy_NoFill leaves the rest.       *)
strncpy_NoFill(buf, src, n) ==
  [i \in DOMAIN buf |-> CASE i <= Len(src) /\ i <= n -> src[i]
                          [] OTHER -> buf[i]]
strncpy(buf, src, n) ==
  [i \in DOMAIN buf |-> CASE i <= Len(src) /\ i <= n -> src[i]
                          [] i > Len(src) /\ i <= n -> NUL
                          [] OTHER -> buf[i]]

kernel_cmdline(s, arg) ==
  IF arg = << >> THEN s
  ELSE [s EXCEPT !.kernel_cmdline = strncpy(@, arg, CmdlineSize - 1)]

(* load_dtb, of a file with a good header. *)
load_dtb(s) == [s EXCEPT !.machine_id = DTB_MACH_ID]

-----------------------------------------------------------------------------
(* The size of physical memory, from that of mem_block: 0 for a failure.   *)
(* In memory_size_Tight the OS is taken to need nothing.                   *)
APPROX_OS_SIZE == 20
Fitting(mem_mb) ==
  CASE mem_mb < 16 -> 0
    [] mem_mb >= 16 /\ mem_mb < 32 -> 32 * MB
    [] mem_mb >= 32 /\ mem_mb < 64 -> 64 * MB
    [] mem_mb >= 64 /\ mem_mb < 128 -> 128 * MB
    [] OTHER -> 0
memory_size_Tight(mem_block_size) == Fitting(mem_block_size \div MB)
memory_size(mem_block_size) == Fitting(mem_block_size \div MB + APPROX_OS_SIZE)

guess_memory_size(s) ==
  LET size == memory_size(s.mem_block_size) IN
  IF size = 0 THEN s ELSE [s EXCEPT !.phys.size = size]

force_guess_memory(s, arg) == guess_memory_size(s)

(* hwtype() is 0 for the first models, 1 for the CX, or another number. *)
detect_machine(s, m) ==
  [s EXCEPT !.machine_id =
     CASE m.hwtype = 0 /\ ~m.is_touchpad -> 4441
       [] m.hwtype = 0 /\ m.is_touchpad -> 4442
       [] m.hwtype = 1 -> 4443
       [] OTHER -> DTB_MACH_ID]

detect_memory(s, m) ==
  LET started == [s EXCEPT !.phys.start = PHYS_START] IN
  CASE m.hwtype = 0 -> [started EXCEPT !.phys.size = 32 * MB]
    [] m.hwtype = 1 -> [started EXCEPT !.phys.size = 64 * MB]
    [] OTHER -> guess_memory_size(started)

-----------------------------------------------------------------------------
(* The serial number: fields of a word of 64 bits, one after another.  A   *)
(* word is the set of the bits that are 1.                                 *)
Mod(v, n) == {i \in v : i < n}
Div(v, n) == {i - n : i \in {j \in v : j >= n}}
(* A field is shifted in from the right; ADD_BITS_Short shifts by a bit    *)
(* too few.                                                                *)
ADD_BITS_Short(v, r, x, y) ==
  {i + (y - x) : i \in v} \cup Mod(Div(r, x), y - x + 1)
ADD_BITS(v, r, x, y) ==
  {i + (y - x + 1) : i \in v} \cup Mod(Div(r, x), y - x + 1)

serial(raw) ==
  LET v1 == ADD_BITS({}, raw, 33, 55)
      v2 == ADD_BITS(v1, raw, 17, 31)
      v3 == ADD_BITS(v2, raw, 9, 15)
      v4 == ADD_BITS(v3, raw, 5, 7)
  IN ADD_BITS(v4, raw, 3, 3)

detect_serialnr(s, m) ==
  [s EXCEPT !.serialnr = <<Mod(serial(m.raw_serial), 32),
                           Mod(Div(serial(m.raw_serial), 32), 32)>>,
            !.rev = Mod(Div(m.raw_serial, 58), 5)]

Detected(s, m) == detect_serialnr(detect_memory(detect_machine(s, m), m), m)

=============================================================================
