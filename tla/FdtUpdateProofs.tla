-------------------------- MODULE FdtUpdateProofs --------------------------
(***************************************************************************)
(* Theorems about FdtUpdate, on the lemmas of FdtBlobProofs.  First, up to *)
(* RestKept: whatever a search of libfdt finds in a blob, and wherever it  *)
(* fails, the steps of update_fdt leave a blob sound and what is before    *)
(* its structure block alone.  Then, up to TreeHandedOver: what each step  *)
(* does to the tree the tags make.  Last, up to FailsOnlyForCause: what    *)
(* room an edit takes, and that it fails only for the lack of it.          *)
(***************************************************************************)
EXTENDS FdtBlobProofs

-----------------------------------------------------------------------------
(* The invariant: from the step that opens the DTB until the kernel is     *)
(* entered, the blob in the buffer is one whose front is that of the DTB.  *)
Edited == {"chosen", "bootargs", "initrd_start", "initrd_end", "pack", "kernel"}
Buffer(b) == Maps(b.mem, 0 .. FDT_SIZE_MAX - 1, Byte)

Given ==
  /\ kernel_cmdline \in Seq(Byte) /\ initrd.addr \in Int /\ initrd.size \in Int
  /\ dtb_loaded => boot_param \in Files
Work ==
  /\ fdt = NoBuffer \/ Buffer(fdt)
  /\ chosen \in Int
  /\ pc = "open" => dtb_loaded /\ Buffer(fdt)
  /\ pc \in Edited => Good(boot_param) /\ Kept(fdt, boot_param)
IInv == Given /\ Work

LEMMA KeptBuffer ==
  ASSUME NEW b, NEW f, Kept(b, f)
  PROVE  Buffer(b)
  BY SoundFields DEF Kept, Fields, Buffer

LEMMA NamesType ==
  /\ CHOSEN \in Seq(Byte) /\ BOOTARGS \in Seq(Byte)
  /\ INITRD_START \in Seq(Byte) /\ INITRD_END \in Seq(Byte) /\ Cmdlines \subseteq Seq(Byte)
  <1>1. \A n \in {CHOSEN, BOOTARGS, INITRD_START, INITRD_END} : Plain(n)
    BY UpdateAssumption, Zenon
  <1> DEFINE Q == Seq(Byte)
  <1>2. \A n \in {CHOSEN, BOOTARGS, INITRD_START, INITRD_END} : n \in Q
    BY <1>1 DEF Plain
  <1>3. Cmdlines \subseteq Q
    BY UpdateAssumption, Zenon
  <1> HIDE DEF Q
  <1>4. /\ CHOSEN \in Q /\ BOOTARGS \in Q /\ INITRD_START \in Q /\ INITRD_END \in Q
        /\ Cmdlines \subseteq Q
    BY <1>2, <1>3
  <1> QED
    BY <1>4 DEF Q

LEMMA InitrdsType ==
  \A r \in Initrds \cup {Unloaded} : r.addr \in Int /\ r.size \in Int
  <1> DEFINE n == WordBase - 1
  <1>1. \A r \in Initrds : r.addr \in 0 .. n /\ r.size \in 0 .. n
    BY UpdateAssumption, Zenon
  <1> HIDE DEF n
  <1>2. Unloaded.addr \in Int /\ Unloaded.size \in Int
    BY DEF Unloaded
  <1>3. \A x \in 0 .. n : x \in Int
    OBVIOUS
  <1> QED
    BY <1>1, <1>2, <1>3

LEMMA InitHolds == Init => IInv
  <1> SUFFICES ASSUME Init PROVE IInv
    OBVIOUS
  <1>1. Given
    BY InitrdsType DEF Init, Given
  <1>2. Work
    BY DEF Init, Work, Edited
  <1> QED
    BY <1>1, <1>2 DEF IInv

(* A step that leaves an edit of the blob.                                 *)
LEMMA StepKeeps ==
  ASSUME IInv, pc \in Edited, NEW r, Keeps(r, boot_param), NEW next \in Edited,
         Step(r, next), chosen' = chosen
  PROVE  IInv'
  <1>1. Given'
    BY DEF IInv, Given, Step, settings
  <1>2. Kept(fdt', boot_param') /\ Good(boot_param')
    BY DEF IInv, Work, Keeps, Step, settings
  <1>3. Buffer(fdt')
    BY <1>2, KeptBuffer
  <1>4. pc' # "open" /\ chosen' \in Int
    BY DEF IInv, Work, Step, Edited
  <1>5. Work'
    BY <1>2, <1>3, <1>4 DEF Work, Buffer
  <1> QED
    BY <1>1, <1>5 DEF IInv

(* An edit of the node chosen.                                             *)
LEMMA SetKeeps ==
  ASSUME IInv, pc \in Edited, NEW name \in Seq(Byte), NEW val \in Seq(Byte)
  PROVE  Keeps(fdt_setprop(fdt, chosen, name, val), boot_param)
  <1>1. /\ Good(boot_param) /\ Kept(fdt, boot_param) /\ chosen \in Int
    BY DEF IInv, Work
  <1>2. whole_mem_rsv_size(boot_param) \in Nat
    BY <1>1, FileCount
  <1> QED
    BY <1>1, <1>2, SetpropKeeps

LEMMA NoneKeeps ==
  ASSUME IInv, pc \in Edited
  PROVE  Keeps(Done(fdt, 0), boot_param)
  BY DEF IInv, Work, Keeps, Done

LEMMA StepInv ==
  ASSUME IInv, [Next]_vars
  PROVE  IInv'
  <1>1. CASE SetCmdline
    <2>1. kernel_cmdline' \in Seq(Byte)
      BY <1>1, NamesType DEF SetCmdline, IInv, Given
    <2>2. Given'
      BY <1>1, <2>1 DEF SetCmdline, IInv, Given
    <2>3. Work'
      BY <1>1 DEF SetCmdline, IInv, Work, Edited
    <2> QED
      BY <2>2, <2>3 DEF IInv
  <1>2. CASE LoadInitrd
    <2>1. Given'
      BY <1>2, InitrdsType DEF LoadInitrd, IInv, Given
    <2>2. Work'
      BY <1>2 DEF LoadInitrd, IInv, Work, Edited
    <2> QED
      BY <2>1, <2>2 DEF IInv
  <1>3. CASE LoadDtb
    <2>1. Given'
      BY <1>3 DEF LoadDtb, IInv, Given
    <2>2. Work'
      BY <1>3 DEF LoadDtb, IInv, Work, Edited
    <2> QED
      BY <2>1, <2>2 DEF IInv
  <1>4. CASE Alloc
    <2>1. Given'
      BY <1>4 DEF Alloc, IInv, Given, settings
    <2>2. /\ fdt' = NoBuffer \/ Buffer(fdt')
          /\ pc' = "open" => Buffer(fdt')
      <3> DEFINE e == Byte
                 m == [i \in 0 .. FDT_SIZE_MAX - 1 |-> Garbage]
      <3>1. Garbage \in e
        BY DEF Garbage, Byte, Base
      <3> HIDE DEF e
      <3>2. m \in [0 .. FDT_SIZE_MAX - 1 -> e]
        BY <3>1
      <3> HIDE DEF m
      <3>3. fdt' = [mem |-> m] => Buffer(fdt')
        BY <3>2 DEF Buffer, Maps, e
      <3>4. fdt' = fdt => fdt' = NoBuffer \/ Buffer(fdt')
        BY DEF IInv, Work, Buffer
      <3>5. \/ fdt' = [mem |-> m]
            \/ fdt' = fdt /\ fdt # NoBuffer
            \/ fdt' = fdt /\ pc' = "failed"
        BY <1>4 DEF Alloc, m
      <3> QED
        BY <3>3, <3>4, <3>5
    <2>3. /\ pc' \in {"open", "failed"} /\ dtb_loaded' /\ chosen' \in Int
      BY <1>4 DEF Alloc, IInv, Work, settings
    <2>4. Work'
      BY <2>2, <2>3 DEF Work, Edited, Buffer
    <2> QED
      BY <2>1, <2>4 DEF IInv
  <1>5. CASE Open
    <2> DEFINE r == fdt_open_into(boot_param, fdt.mem, FALSE)
    <2>1. /\ boot_param \in Files /\ Buffer(fdt)
      BY <1>5 DEF Open, IInv, Given, Work
    <2>2. r.ret \in Int /\ (r.ret >= 0 => Good(boot_param) /\ Kept(r.fdt, boot_param))
      BY <2>1, OpenKeeps DEF Buffer
    <2>3. /\ fdt' = IF r.ret < 0 THEN fdt ELSE r.fdt
          /\ pc' = IF r.ret < 0 THEN "failed" ELSE "chosen"
          /\ UNCHANGED <<settings, chosen>>
      BY <1>5 DEF Open
    <2> HIDE DEF r
    <2>4. Given'
      BY <2>3 DEF IInv, Given, settings
    <2>5. CASE r.ret < 0
      BY <2>1, <2>3, <2>5, <2>4 DEF IInv, Work, Edited, Buffer
    <2>6. CASE ~(r.ret < 0)
      <3>1. Good(boot_param') /\ Kept(fdt', boot_param')
        BY <2>2, <2>3, <2>6 DEF settings
      <3>2. Buffer(fdt')
        BY <3>1, KeptBuffer
      <3>3. pc' = "chosen" /\ chosen' \in Int
        BY <2>3, <2>6 DEF IInv, Work
      <3>4. Work'
        BY <3>1, <3>2, <3>3 DEF Work, Buffer
      <3> QED
        BY <2>4, <3>4 DEF IInv
    <2> QED
      BY <2>5, <2>6
  <1>6. CASE FindChosen
    <2> DEFINE r == fdt_make_node(fdt, 0, CHOSEN)
    <2>1. pc \in Edited
      BY <1>6 DEF FindChosen, Edited
    <2>2. Good(boot_param) /\ Kept(fdt, boot_param)
      BY <2>1 DEF IInv, Work
    <2>3. r.fdt = fdt /\ r.ret \in Int
      BY <2>2, MakesNone DEF Kept
    <2>4. /\ chosen' = r.ret /\ fdt' = r.fdt
          /\ pc' = IF r.ret < 0 THEN "failed" ELSE "bootargs"
          /\ UNCHANGED settings
      BY <1>6 DEF FindChosen
    <2> HIDE DEF r
    <2>5. Given'
      BY <2>4 DEF IInv, Given, settings
    <2>6. Good(boot_param') /\ Kept(fdt', boot_param')
      BY <2>2, <2>3, <2>4 DEF settings
    <2>7. Buffer(fdt')
      BY <2>6, KeptBuffer
    <2>8. pc' # "open" /\ chosen' \in Int
      BY <2>3, <2>4
    <2>9. Work'
      BY <2>6, <2>7, <2>8 DEF Work, Buffer
    <2> QED
      BY <2>5, <2>9 DEF IInv
  <1>7. CASE SetBootargs
    <2> DEFINE s == Append(kernel_cmdline, NUL)
               r == IF kernel_cmdline = << >> THEN Done(fdt, 0)
                    ELSE SetString(BOOTARGS, kernel_cmdline)
    <2>1. pc \in Edited /\ "initrd_start" \in Edited
      BY <1>7 DEF SetBootargs, Edited
    <2>2. s \in Seq(Byte)
      <3> DEFINE e == Byte
      <3>1. NUL \in e
        BY DEF NUL, Byte, Base
      <3>2. kernel_cmdline \in Seq(e)
        BY DEF IInv, Given
      <3> HIDE DEF e
      <3>3. s \in Seq(e)
        BY <3>1, <3>2
      <3> QED
        BY <3>3 DEF e
    <2> HIDE DEF s
    <2>3. Keeps(SetString(BOOTARGS, kernel_cmdline), boot_param)
      BY <2>1, <2>2, SetKeeps, NamesType DEF SetString, s
    <2>4. Keeps(r, boot_param)
      BY <2>1, <2>3, NoneKeeps
    <2>5. Step(r, "initrd_start") /\ chosen' = chosen
      BY <1>7 DEF SetBootargs
    <2> HIDE DEF r
    <2> QED
      BY <2>1, <2>4, <2>5, StepKeeps
  <1>8. CASE SetInitrdStart
    <2> DEFINE r == SetCell(INITRD_START, initrd.addr)
    <2>1. pc \in Edited /\ "pack" \in Edited /\ "initrd_end" \in Edited
      BY <1>8 DEF SetInitrdStart, Edited
    <2>2. cpu_to_fdt32(initrd.addr) \in Seq(Byte)
      BY Cpu32Type DEF IInv, Given
    <2>3. Keeps(r, boot_param)
      BY <2>1, <2>2, SetKeeps, NamesType DEF SetCell
    <2> HIDE DEF r
    <2>4. CASE initrd.size = 0
      <3>1. Step(Done(fdt, 0), "pack") /\ chosen' = chosen
        BY <1>8, <2>4 DEF SetInitrdStart
      <3> QED
        BY <2>1, <3>1, NoneKeeps, StepKeeps
    <2>5. CASE initrd.size # 0
      <3>1. Step(r, "initrd_end") /\ chosen' = chosen
        BY <1>8, <2>5 DEF SetInitrdStart, r
      <3> QED
        BY <2>1, <2>3, <3>1, StepKeeps
    <2> QED
      BY <2>4, <2>5
  <1>9. CASE SetInitrdEnd
    <2> DEFINE x == initrd_end
               r == SetCell(INITRD_END, x)
    <2>1. pc \in Edited /\ "pack" \in Edited
      BY <1>9 DEF SetInitrdEnd, Edited
    <2>2. x \in Int
      <3>1. initrd.addr + initrd.size \in Int
        BY DEF IInv, Given
      <3>2. WordBase \in Nat /\ WordBase > 0
        BY PowerIs, Sizes DEF WordBase
      <3> QED
        BY <3>1, <3>2 DEF initrd_end
    <2> HIDE DEF x
    <2>3. cpu_to_fdt32(x) \in Seq(Byte)
      BY <2>2, Cpu32Type
    <2>4. Keeps(r, boot_param)
      BY <2>1, <2>3, SetKeeps, NamesType DEF SetCell
    <2>5. Step(r, "pack") /\ chosen' = chosen
      BY <1>9 DEF SetInitrdEnd, x
    <2> HIDE DEF r
    <2> QED
      BY <2>1, <2>4, <2>5, StepKeeps
  <1>10. CASE Pack
    <2>1. pc \in Edited
      BY <1>10 DEF Pack, Edited
    <2>2. Good(boot_param) /\ Kept(fdt, boot_param)
      BY <2>1 DEF IInv, Work
    <2>3. Kept(fdt_pack(fdt).fdt, boot_param)
      BY <2>2, PackKeeps
    <2>4. Good(boot_param') /\ Kept(fdt', boot_param')
      BY <1>10, <2>2, <2>3 DEF Pack
    <2>5. Buffer(fdt')
      BY <2>4, KeptBuffer
    <2>6. Given'
      BY <1>10 DEF Pack, IInv, Given
    <2>7. pc' = "kernel" /\ chosen' \in Int
      BY <1>10 DEF Pack, IInv, Work
    <2>8. Work'
      BY <2>4, <2>5, <2>7 DEF Work, Buffer
    <2> QED
      BY <2>6, <2>8 DEF IInv
  <1>11. CASE Return
    <2>1. Given'
      BY <1>11 DEF Return, IInv, Given, settings
    <2>2. Work'
      BY <1>11 DEF Return, IInv, Work, Edited, settings
    <2> QED
      BY <2>1, <2>2 DEF IInv
  <1>12. CASE UNCHANGED vars
    BY <1>12 DEF vars, settings, IInv, Given, Work, Buffer
  <1> QED
    BY <1>1, <1>2, <1>3, <1>4, <1>5, <1>6, <1>7, <1>8, <1>9, <1>10, <1>11, <1>12 DEF Next

LEMMA InvRest == IInv => RestAsLoaded
  <1> SUFFICES ASSUME IInv, pc = "kernel"
      PROVE  /\ fdt_check_header(boot_param) = 0 /\ rw_check_header(fdt).ret = 0
             /\ fdt.totalsize <= FDT_SIZE_MAX
             /\ fdt.off_mem_rsvmap + whole_mem_rsv_size(fdt) <= fdt.off_dt_struct
             /\ ReserveMap(fdt) = ReserveMap(boot_param)
             /\ fdt.boot_cpuid_phys = boot_param.boot_cpuid_phys
    BY DEF RestAsLoaded
  <1>1. Good(boot_param) /\ Kept(fdt, boot_param)
    BY DEF IInv, Work, Edited
  <1>2. fdt_check_header(boot_param) = 0
    BY <1>1 DEF Good
  <1>3. rw_check_header(fdt).ret = 0
    BY <1>1, HeaderOk DEF Kept, Done
  <1>4. fdt.totalsize <= FDT_SIZE_MAX
    BY <1>1 DEF Kept, Sound
  <1>5. whole_mem_rsv_size(fdt) = whole_mem_rsv_size(boot_param)
        /\ ReserveMap(fdt) = ReserveMap(boot_param)
    BY <1>1, SameMap
  <1>6. fdt.off_mem_rsvmap + whole_mem_rsv_size(boot_param) <= fdt.off_dt_struct
        /\ fdt.boot_cpuid_phys = boot_param.boot_cpuid_phys
    BY <1>1 DEF Kept, SameFront
  <1> QED
    BY <1>2, <1>3, <1>4, <1>5, <1>6

(* When the kernel is entered, with any DTB of any size, whatever libfdt   *)
(* found in it and whichever boots failed before, what update_fdt hands    *)
(* over is a sound blob inside its buffer, and the reserve map and the     *)
(* boot CPU of the DTB loaded last are in it unchanged.                    *)
THEOREM RestKept == Spec => []RestAsLoaded
  <1>1. Init => IInv
    BY InitHolds
  <1>2. IInv /\ [Next]_vars => IInv'
    BY StepInv
  <1>3. IInv => RestAsLoaded
    BY InvRest
  <1> QED
    BY <1>1, <1>2, <1>3, PTL DEF Spec

-----------------------------------------------------------------------------
(* The searches, tag by tag, backwards from the last.                      *)
LEMMA InductBack ==
  ASSUME NEW n \in Nat, NEW T,
         \A i \in 1 .. n : (\A j \in i + 1 .. n : j \in T) => i \in T
  PROVE  1 .. n \subseteq T
  <1> DEFINE U == {m \in 0 .. n : \A j \in (n + 1) - m .. n : j \in T}
  <1>1. 0 \in U
    <2>1. 0 \in 0 .. n /\ \A j \in (n + 1) - 0 .. n : FALSE
      OBVIOUS
    <2> QED
      BY <2>1
  <1>2. ASSUME NEW m \in 0 .. n - 1, m \in U PROVE m + 1 \in U
    <2> DEFINE i == n - m
    <2>1. i \in 1 .. n /\ i + 1 = (n + 1) - m /\ i = (n + 1) - (m + 1) /\ m + 1 \in 0 .. n
      OBVIOUS
    <2>2. \A j \in i + 1 .. n : j \in T
      BY <1>2, <2>1
    <2> HIDE DEF i
    <2>3. i \in T
      BY <2>1, <2>2
    <2>4. ASSUME NEW j \in i .. n PROVE j \in T
      <3>1. j = i \/ j \in i + 1 .. n
        BY <2>1
      <3> QED
        BY <2>2, <2>3, <3>1
    <2> QED
      BY <2>1, <2>4
  <1>3. 0 .. n \subseteq U
    <2> HIDE DEF U
    <2> QED
      BY <1>1, <1>2, InductUpTo
  <1>4. n \in U
    BY <1>3
  <1>5. (n + 1) - n = 1
    OBVIOUS
  <1> QED
    BY <1>4, <1>5

(* Where the tags are, and where each leads. *)
Tag(b, n, at, items, i) ==
  /\ at[i] \in Nat /\ at[i] \in Aligned /\ at[i] \in Offsets(b)
  /\ fdt_next_tag(b, at[i]).tag = items[i].tag /\ items[i].tag \in Kinds
  /\ fdt_next_tag(b, at[i]).next \in Nat
  /\ i < n => /\ items[i].tag # FDT_END /\ fdt_next_tag(b, at[i]).next = at[i + 1]
              /\ at[i] < at[i + 1] /\ at[i + 1] \in Nat
  /\ i = n => items[i].tag = FDT_END
  /\ items[i].tag = FDT_PROP => PropName(b, at[i]) = items[i].name
  /\ items[i].tag = FDT_BEGIN_NODE => fdt_get_name(b, at[i]) = items[i].name

LEMMA TagIs ==
  ASSUME NEW b, Sound(b), NEW n, NEW at, NEW ends, NEW items,
         Tells(b, b.size_dt_struct, n, at, ends, items)
  PROVE  n \in Nat /\ n >= 1 /\ at[1] = 0 /\ \A i \in 1 .. n : Tag(b, n, at, items, i)
  <1> DEFINE size == b.size_dt_struct
  <1>1. Block(b, FDT_SIZE_MAX, size)
    BY SoundBlock
  <1>2. /\ n \in Nat /\ n >= 1 /\ at[1] = 0
        /\ \A i \in 1 .. n : Says(b, size, at[i], ends[i], items[i])
        /\ \A i \in 1 .. n - 1 : items[i].tag # FDT_END /\ at[i + 1] = FDT_TAGALIGN(ends[i])
        /\ items[n].tag = FDT_END
    BY DEF Tells
  <1>3. /\ \A i \in 1 .. n : /\ at[i] \in Nat /\ at[i] \in Aligned /\ ends[i] \in Nat
                             /\ at[i] < ends[i] /\ ends[i] <= size
                             /\ Said(b, at[i], ends[i], items[i])
        /\ \A i \in 1 .. n - 1 : at[i] < at[i + 1]
    <2> HIDE DEF size
    <2> QED
      BY <1>1, TellsOrder DEF size
  <1> SUFFICES ASSUME NEW i \in 1 .. n PROVE Tag(b, n, at, items, i)
    BY <1>2
  <1> DEFINE o == at[i]
             end == ends[i]
             it == items[i]
  <1>4. o \in Nat /\ o \in Aligned /\ end \in Nat /\ o < end /\ end <= size /\ Said(b, o, end, it)
        /\ Says(b, size, o, end, it)
    BY <1>2, <1>3
  <1>5. i < n => i \in 1 .. n - 1 /\ i + 1 \in 1 .. n
    BY <1>2
  <1>6. i < n => it.tag # FDT_END /\ at[i + 1] = FDT_TAGALIGN(end) /\ o < at[i + 1]
                 /\ at[i + 1] \in Nat
    BY <1>2, <1>3, <1>5
  <1>7. i = n => it.tag = FDT_END
    BY <1>2
  <1> HIDE DEF o, end, it
  <1>8. o \in Offsets(b)
    <2>1. size \in Nat /\ FDT_TAGSIZE \in Nat /\ FDT_TAGSIZE >= 1
      BY <1>1, Sizes DEF Block
    <2>2. o <= b.size_dt_struct + FDT_TAGSIZE - 1
      BY <1>4, <2>1
    <2> QED
      BY <1>4, <2>2, InOffsets
  <1>9. /\ fdt_next_tag(b, o) = [tag |-> it.tag, next |-> FDT_TAGALIGN(end)]
        /\ it.tag \in Kinds /\ FDT_TAGALIGN(end) \in Nat
        /\ it.tag = FDT_PROP => it.name = PropName(b, o)
        /\ it.tag = FDT_BEGIN_NODE => it = [tag |-> FDT_BEGIN_NODE, name |-> NameOf(b, o, end), val |-> << >>]
    BY <1>4 DEF Said
  <1>10. it.tag = FDT_BEGIN_NODE => fdt_get_name(b, o) = it.name
    <2> SUFFICES ASSUME it.tag = FDT_BEGIN_NODE PROVE fdt_get_name(b, o) = it.name
      OBVIOUS
    <2>1. Item(b, o) = it
      BY <1>4 DEF Says
    <2>2. Item(b, o).name = fdt_get_name(b, o)
      <3> DEFINE t == fdt_next_tag(b, o).tag
                 g == fdt_get_name(b, o)
                 h == PropName(b, o)
                 v == IF t = FDT_PROP THEN PropValue(b, o) ELSE << >>
      <3>1. t = FDT_BEGIN_NODE
        BY <1>9
      <3>2. Item(b, o) = [tag |-> t, name |-> CASE t = FDT_BEGIN_NODE -> g
                                                [] t = FDT_PROP -> h
                                                [] OTHER -> << >>, val |-> v]
        BY DEF Item
      <3> HIDE DEF t, g, h, v
      <3>3. Item(b, o).name = g
        BY <3>1, <3>2, Codes
      <3> QED
        BY <3>3 DEF g
    <2> QED
      BY <2>1, <2>2
  <1>11. fdt_next_tag(b, o).tag = it.tag /\ fdt_next_tag(b, o).next = FDT_TAGALIGN(end)
    BY <1>9
  <1> QED
    BY <1>4, <1>6, <1>7, <1>8, <1>9, <1>10, <1>11 DEF Tag, o, it

-----------------------------------------------------------------------------
(* nextprop: the first tag from there on that is not an FDT_NOP.           *)
Next1(b, n, at, items, i, j) ==
  /\ j \in i .. n /\ (\A m \in i .. j - 1 : items[m].tag = FDT_NOP) /\ items[j].tag # FDT_NOP
  /\ items[j].tag = FDT_PROP => nextprop(b, at[i]) = at[j]
  /\ items[j].tag # FDT_PROP => nextprop(b, at[i]) = NoProp(fdt_next_tag(b, at[j]))

LEMMA NextAt ==
  ASSUME NEW b, Sound(b), NEW n \in Nat, NEW at, NEW items,
         \A i \in 1 .. n : Tag(b, n, at, items, i)
  PROVE  \A i \in 1 .. n : \E j : Next1(b, n, at, items, i, j)
  <1> DEFINE T == {i \in 1 .. n : \E j : Next1(b, n, at, items, i, j)}
  <1>1. ASSUME NEW i \in 1 .. n, \A j \in i + 1 .. n : j \in T PROVE i \in T
    <2> DEFINE x == at[i]
               t == fdt_next_tag(b, x)
    <2>1. x \in Offsets(b) /\ t.tag = items[i].tag /\ (i < n => t.next = at[i + 1])
          /\ (i = n => t.tag = FDT_END)
      BY DEF Tag
    <2>2. /\ t.tag = FDT_NOP => nextprop(b, x) = nextprop(b, t.next)
          /\ t.tag = FDT_PROP => nextprop(b, x) = x
          /\ t.tag \notin {FDT_NOP, FDT_PROP} => nextprop(b, x) = NoProp(t)
      BY <2>1, NextPropUnfolds
    <2> HIDE DEF x, t
    <2>3. CASE items[i].tag = FDT_NOP
      <3>1. i < n
        BY <2>1, <2>3, Codes
      <3>2. i + 1 \in T
        BY <1>1, <3>1
      <3>3. PICK j : Next1(b, n, at, items, i + 1, j)
        BY <3>2
      <3>4. nextprop(b, x) = nextprop(b, at[i + 1])
        BY <2>1, <2>2, <2>3, <3>1
      <3>5. j \in i .. n
        BY <3>3 DEF Next1
      <3>6. ASSUME NEW m \in i .. j - 1 PROVE items[m].tag = FDT_NOP
        <4>1. m = i \/ m \in i + 1 .. j - 1
          OBVIOUS
        <4> QED
          BY <2>3, <3>3, <4>1 DEF Next1
      <3>7. Next1(b, n, at, items, i, j)
        BY <3>3, <3>4, <3>5, <3>6 DEF Next1, x
      <3> QED
        BY <3>7
    <2>4. CASE items[i].tag # FDT_NOP
      <3>1. i \in i .. n /\ \A m \in i .. i - 1 : items[m].tag = FDT_NOP
        OBVIOUS
      <3>2. items[i].tag = FDT_PROP => nextprop(b, x) = x
        BY <2>1, <2>2
      <3>3. items[i].tag # FDT_PROP => nextprop(b, x) = NoProp(t)
        BY <2>1, <2>2, <2>4
      <3>4. Next1(b, n, at, items, i, i)
        BY <2>4, <3>1, <3>2, <3>3 DEF Next1, x, t
      <3> QED
        BY <3>4
    <2> QED
      BY <2>3, <2>4
  <1>2. 1 .. n \subseteq T
    <2> HIDE DEF T
    <2> QED
      BY <1>1, InductBack
  <1> QED
    BY <1>2

(* What ends a node's properties is an error for a search. *)
LEMMA NoPropIs ==
  ASSUME NEW b, Sound(b), NEW n \in Nat, NEW at, NEW items, NEW i \in 1 .. n,
         Tag(b, n, at, items, i)
  PROVE  LET r == NoProp(fdt_next_tag(b, at[i])) IN
         /\ r \in Int /\ r < 0
         /\ items[i].tag # FDT_END => r = -NOTFOUND
         /\ items[i].tag = FDT_END => r = -BADSTRUCTURE
  <1> DEFINE t == fdt_next_tag(b, at[i])
  <1>1. t.tag = items[i].tag /\ t.next \in Nat
    BY DEF Tag
  <1> HIDE DEF t
  <1>2. NoProp(t) = IF t.tag # FDT_END THEN -NOTFOUND ELSE -BADSTRUCTURE
    BY <1>1 DEF NoProp
  <1> QED
    BY <1>1, <1>2, Codes DEF NOTFOUND, BADSTRUCTURE, t

(* The checks of the offset of a node and of a property.                   *)
LEMMA CheckAt ==
  ASSUME NEW b, Sound(b), NEW n \in Nat, NEW at, NEW items, NEW i \in 1 .. n,
         Tag(b, n, at, items, i), i < n
  PROVE  /\ items[i].tag = FDT_BEGIN_NODE => fdt_check_node_offset(b, at[i]) = at[i + 1]
         /\ items[i].tag = FDT_PROP => fdt_check_prop_offset(b, at[i]) = at[i + 1]
         /\ at[i + 1] >= 0
  <1> DEFINE o == at[i]
             t == fdt_next_tag(b, o)
  <1>1. o \in Nat /\ o \in Aligned /\ t.tag = items[i].tag /\ t.next = at[i + 1] /\ t.next >= 0
    BY DEF Tag
  <1>2. o % FDT_TAGSIZE = 0
    <2> HIDE DEF o
    <2>1. PICK k \in Nat : o = k * FDT_TAGSIZE
      BY <1>1 DEF Aligned
    <2> QED
      BY <2>1, Sizes
  <1>3. \A tag : t.tag = tag => CheckTag(b, o, tag) = t.next
    <2> HIDE DEF o
    <2> QED
      BY <1>1, <1>2 DEF CheckTag
  <1> QED
    BY <1>1, <1>3 DEF fdt_check_node_offset, fdt_check_prop_offset

-----------------------------------------------------------------------------
(* A search for a property ends at the first one that has the name, or     *)
(* with an error where the node's properties end.                          *)
Found(at, items, n, name, i, y, K) ==
  /\ K \in i .. n /\ Run(items, name, i, K)
  /\ \/ y = at[K] /\ items[K].tag = FDT_PROP /\ items[K].name = name
     \/ /\ y < 0 /\ y \in Int /\ items[K].tag \notin {FDT_PROP, FDT_NOP}
        /\ items[K].tag # FDT_END => y = -NOTFOUND

Gets(f, b, name) ==
  \A x \in Int : f[x] = IF x < 0 \/ PropName(b, x) = name THEN x
                        ELSE f[fdt_next_property_offset(b, x)]

LEMMA GetsExists ==
  ASSUME NEW b, Sound(b), NEW name
  PROVE  \E f : /\ Gets(f, b, name)
                /\ \A node : fdt_get_property(b, node, name) = f[fdt_first_property_offset(b, node)]
  <1>1. PICK f : /\ Recurs(f, Int, SearchStop(b, name), SearchVal, SearchSucc(b))
                 /\ \A node : fdt_get_property(b, node, name) = f[fdt_first_property_offset(b, node)]
    BY GetRecurs
  <1> DEFINE Stop == SearchStop(b, name)
             succ == SearchSucc(b)
             Body(x) == IF x \in Stop THEN SearchVal[x] ELSE f[succ[x]]
  <1>2. f = [x \in Int |-> Body(x)]
    BY <1>1 DEF Recurs
  <1>3. ASSUME NEW x \in Int
        PROVE  f[x] = IF x < 0 \/ PropName(b, x) = name THEN x
                      ELSE f[fdt_next_property_offset(b, x)]
    <2>1. f[x] = Body(x)
      <3> HIDE DEF Body
      <3> QED
        BY <1>2, Zenon
    <2>2. SearchVal[x] = x /\ succ[x] = fdt_next_property_offset(b, x)
      BY DEF SearchVal, SearchSucc
    <2>3. x \in Stop <=> (x < 0 \/ PropName(b, x) = name)
      BY DEF SearchStop
    <2> HIDE DEF Stop, succ
    <2> QED
      BY <2>1, <2>2, <2>3
  <1>4. Gets(f, b, name)
    BY <1>3 DEF Gets
  <1> QED
    BY <1>1, <1>4

LEMMA GetAt ==
  ASSUME NEW b, Sound(b), NEW n \in Nat, NEW at, NEW items,
         \A i \in 1 .. n : Tag(b, n, at, items, i), NEW name, NEW f, Gets(f, b, name)
  PROVE  \A i \in 1 .. n : \E K : Found(at, items, n, name, i, f[nextprop(b, at[i])], K)
  <1> DEFINE y(i) == f[nextprop(b, at[i])]
             T == {i \in 1 .. n : \E K : Found(at, items, n, name, i, y(i), K)}
  <1>1. ASSUME NEW i \in 1 .. n, \A j \in i + 1 .. n : j \in T PROVE i \in T
    <2>1. PICK j : Next1(b, n, at, items, i, j)
      BY NextAt
    <2> DEFINE r == NoProp(fdt_next_tag(b, at[j]))
    <2>2. /\ j \in i .. n /\ (\A m \in i .. j - 1 : items[m].tag = FDT_NOP)
          /\ items[j].tag # FDT_NOP /\ j \in 1 .. n /\ Tag(b, n, at, items, j)
          /\ items[j].tag = FDT_PROP => nextprop(b, at[i]) = at[j]
          /\ items[j].tag # FDT_PROP => nextprop(b, at[i]) = r
      <3>1. j \in i .. n
        BY <2>1 DEF Next1
      <3>2. j \in 1 .. n
        BY <3>1
      <3>3. Tag(b, n, at, items, j)
        BY <3>2
      <3> QED
        BY <2>1, <3>1, <3>2, <3>3 DEF Next1
    <2>3. Run(items, name, i, j)
      BY <2>2, Codes DEF Run
    <2>4. r \in Int /\ r < 0 /\ (items[j].tag # FDT_END => r = -NOTFOUND)
      BY <2>2, NoPropIs
    <2> HIDE DEF r
    <2>5. CASE items[j].tag # FDT_PROP
      <3>1. y(i) = r
        BY <2>2, <2>4, <2>5 DEF Gets
      <3> HIDE DEF y
      <3>2. Found(at, items, n, name, i, y(i), j)
        BY <2>2, <2>3, <2>4, <2>5, <3>1 DEF Found
      <3> QED
        BY <3>2
    <2>6. CASE items[j].tag = FDT_PROP
      <3>1. y(i) = f[at[j]] /\ at[j] \in Nat /\ PropName(b, at[j]) = items[j].name
        BY <2>2, <2>6 DEF Tag
      <3>2. CASE items[j].name = name
        <4>1. f[at[j]] = at[j]
          BY <3>1, <3>2 DEF Gets
        <4> HIDE DEF y
        <4>2. Found(at, items, n, name, i, y(i), j)
          BY <2>2, <2>3, <2>6, <3>1, <3>2, <4>1 DEF Found
        <4> QED
          BY <4>2
      <3>3. CASE items[j].name # name
        <4>1. f[at[j]] = f[fdt_next_property_offset(b, at[j])]
          <5>1. at[j] \in Int /\ ~(at[j] < 0) /\ PropName(b, at[j]) # name
            BY <3>1, <3>3
          <5> QED
            BY <5>1 DEF Gets
        <4>2. j < n
          BY <2>2, <2>6, Codes DEF Tag
        <4>3. fdt_next_property_offset(b, at[j]) = nextprop(b, at[j + 1])
          <5>1. fdt_check_prop_offset(b, at[j]) = at[j + 1] /\ at[j + 1] >= 0 /\ at[j + 1] \in Nat
            <6>1. at[j + 1] \in Nat
              BY <2>2, <4>2 DEF Tag
            <6> QED
              BY <2>2, <2>6, <4>2, <6>1, CheckAt
          <5> QED
            BY <5>1 DEF fdt_next_property_offset, OrError
        <4>4. j + 1 \in i + 1 .. n
          BY <2>2, <4>2
        <4>5. PICK K : Found(at, items, n, name, j + 1, y(j + 1), K)
          BY <1>1, <4>4
        <4>6. y(i) = y(j + 1)
          BY <3>1, <4>1, <4>3
        <4> HIDE DEF y
        <4>7. K \in j + 1 .. n /\ Run(items, name, j + 1, K)
          BY <4>5 DEF Found
        <4>8. Run(items, name, i, K)
          <5> SUFFICES ASSUME NEW m \in i .. K - 1
                       PROVE  /\ items[m].tag \in {FDT_PROP, FDT_NOP}
                              /\ items[m].tag = FDT_PROP => items[m].name # name
            BY DEF Run
          <5>1. m \in i .. j - 1 \/ m = j \/ m \in j + 1 .. K - 1
            BY <2>2, <4>7
          <5> QED
            BY <2>3, <2>6, <3>3, <4>7, <5>1 DEF Run
        <4>9. K \in i .. n
          BY <2>2, <4>7
        <4>10. Found(at, items, n, name, i, y(i), K)
          BY <4>5, <4>6, <4>8, <4>9 DEF Found
        <4> QED
          BY <4>10
      <3> QED
        BY <3>2, <3>3
    <2> QED
      BY <2>5, <2>6
  <1>2. 1 .. n \subseteq T
    <2> HIDE DEF T
    <2> QED
      BY <1>1, InductBack
  <1> QED
    BY <1>2

(* The properties of a node. *)
LEMMA GetPropertyAt ==
  ASSUME NEW b, Sound(b), NEW n \in Nat, NEW at, NEW items,
         \A i \in 1 .. n : Tag(b, n, at, items, i), NEW name,
         NEW c \in 1 .. n, items[c].tag = FDT_BEGIN_NODE
  PROVE  c < n /\ \E K : Found(at, items, n, name, c + 1, fdt_get_property(b, at[c], name), K)
  <1>1. PICK f : /\ Gets(f, b, name)
                 /\ \A node : fdt_get_property(b, node, name) = f[fdt_first_property_offset(b, node)]
    BY GetsExists
  <1>2. c < n /\ Tag(b, n, at, items, c)
    <2>1. Tag(b, n, at, items, c)
      OBVIOUS
    <2> QED
      BY <2>1, Codes DEF Tag
  <1>3. fdt_first_property_offset(b, at[c]) = nextprop(b, at[c + 1])
    <2>1. fdt_check_node_offset(b, at[c]) = at[c + 1] /\ at[c + 1] >= 0 /\ at[c + 1] \in Nat
      <3>1. at[c + 1] \in Nat
        BY <1>2 DEF Tag
      <3> QED
        BY <1>2, <3>1, CheckAt
    <2> QED
      BY <2>1 DEF fdt_first_property_offset, OrError
  <1>4. c + 1 \in 1 .. n
    BY <1>2
  <1>5. \E K : Found(at, items, n, name, c + 1, f[nextprop(b, at[c + 1])], K)
    BY <1>1, <1>4, GetAt
  <1> QED
    BY <1>1, <1>2, <1>3, <1>5

-----------------------------------------------------------------------------
Walks(f, b) ==
  \A x \in Spots(b) : f[x] = IF Goes(b, x) THEN f[GoesTo(b, x)]
                             ELSE WalkEnd(x, fdt_next_tag(b, x.offset))
WalksFrom(f, b) ==
  \A offset \in Nat : \A depth :
    LET at == NodeAt(fdt_check_node_offset(b, offset), depth)
    IN fdt_next_node(b, offset, depth) = IF at.offset < 0 THEN at ELSE f[at]

LEMMA WalksExists ==
  ASSUME NEW b, Sound(b)
  PROVE  \E f : Walks(f, b) /\ WalksFrom(f, b)
  <1>1. PICK f : /\ Recurs(f, Spots(b), WalkStop(b), WalkVal(b), WalkSucc(b))
                 /\ \A offset \in Nat : \A depth :
                     fdt_next_node(b, offset, depth) =
                       LET at == NodeAt(fdt_check_node_offset(b, offset), depth)
                       IN IF at.offset < 0 THEN at ELSE f[at]
    BY WalkRecurs
  <1> DEFINE Stop == WalkStop(b)
             val == WalkVal(b)
             succ == WalkSucc(b)
             Body(x) == IF x \in Stop THEN val[x] ELSE f[succ[x]]
  <1>2. f = [x \in Spots(b) |-> Body(x)]
    BY <1>1 DEF Recurs
  <1>3. ASSUME NEW x \in Spots(b)
        PROVE  f[x] = IF Goes(b, x) THEN f[GoesTo(b, x)] ELSE WalkEnd(x, fdt_next_tag(b, x.offset))
    <2>1. f[x] = Body(x)
      <3> HIDE DEF Body
      <3> QED
        BY <1>2, Zenon
    <2>2. val[x] = WalkEnd(x, fdt_next_tag(b, x.offset)) /\ succ[x] = GoesTo(b, x)
      BY Zenon DEF WalkVal, WalkSucc
    <2>3. x \in Stop <=> ~Goes(b, x)
      BY DEF WalkStop
    <2> HIDE DEF Stop, succ, val
    <2> QED
      BY <2>1, <2>2, <2>3
  <1>4. Walks(f, b)
    BY <1>3 DEF Walks
  <1>5. WalksFrom(f, b)
    BY <1>1, Zenon DEF WalksFrom
  <1> QED
    BY <1>4, <1>5

Deepens(F, items, i) ==
  /\ F[i].depth \in Int /\ F[i - 1].depth \in Int
  /\ items[i].tag = FDT_BEGIN_NODE => F[i].depth = F[i - 1].depth + 1
  /\ items[i].tag = FDT_END_NODE => F[i].depth = F[i - 1].depth - 1
  /\ items[i].tag \in {FDT_PROP, FDT_NOP, FDT_END} => F[i].depth = F[i - 1].depth

LEMMA DepthStep ==
  ASSUME NEW S, NEW n \in Nat, NEW items, \A i \in 1 .. n : items[i] \in ItemOf(S),
         NEW F, Grown(F, n, items, S), NEW i \in 1 .. n
  PROVE  Deepens(F, items, i)
  <1> DEFINE g == F[i - 1]
             h == F[i]
             it == items[i]
  <1>1. Stepped(F, items, S, i)
    BY GrownStep
  <1>2. g \in Growth(S) /\ h \in Growth(S) /\ Grew(g, it, h)
    BY <1>1 DEF Stepped
  <1> HIDE DEF g, h, it
  <1>3. g.depth \in Int /\ h.depth \in Int
    BY <1>2 DEF Growth
  <1>4. /\ it.tag = FDT_BEGIN_NODE => h.depth = g.depth + 1
        /\ it.tag = FDT_END_NODE => h.depth = g.depth - 1
        /\ it.tag \in {FDT_PROP, FDT_NOP, FDT_END} => h.depth = g.depth
    BY <1>2 DEF Grew
  <1> QED
    BY <1>3, <1>4 DEF g, h, it, Deepens

(* A walk from a tag, at the depth that the tree has there: to the next    *)
(* node, with its depth, or to an end, which is that of the root or of all.*)
Stops(items, F, j) ==
  items[j].tag = FDT_END \/ (items[j].tag = FDT_END_NODE /\ F[j].depth = 0)
Walked(at, items, F, n, i, r, j) ==
  /\ j \in i .. n /\ \A m \in i .. j - 1 : items[m].tag # FDT_BEGIN_NODE
  /\ \/ items[j].tag = FDT_BEGIN_NODE /\ F[j - 1].depth \in Nat /\ r = NodeAt(at[j], F[j - 1].depth)
     \/ r \in VisitSpots /\ (r.offset < 0 \/ r.depth < 0) /\ Stops(items, F, j)

LEMMA WalkAt ==
  ASSUME NEW b, Sound(b), NEW n \in Nat, NEW at, NEW items,
         \A i \in 1 .. n : Tag(b, n, at, items, i),
         NEW S, \A i \in 1 .. n : items[i] \in ItemOf(S), NEW F, Grown(F, n, items, S),
         NEW f, Walks(f, b)
  PROVE  \A i \in 1 .. n : F[i - 1].depth - 1 \in Nat =>
           \E j : Walked(at, items, F, n, i, f[NodeAt(at[i], F[i - 1].depth - 1)], j)
  <1> DEFINE r(i) == f[NodeAt(at[i], F[i - 1].depth - 1)]
             W(i) == F[i - 1].depth - 1 \in Nat => \E j : Walked(at, items, F, n, i, r(i), j)
             T == {i \in 1 .. n : W(i)}
  <1>1. ASSUME NEW i \in 1 .. n, \A j \in i + 1 .. n : j \in T PROVE i \in T
    <2> SUFFICES ASSUME F[i - 1].depth - 1 \in Nat
                 PROVE  \E j : Walked(at, items, F, n, i, r(i), j)
      OBVIOUS
    <2> DEFINE d == F[i - 1].depth - 1
               x == NodeAt(at[i], d)
               t == fdt_next_tag(b, at[i])
    <2>1. /\ at[i] \in Offsets(b) /\ t.tag = items[i].tag /\ t.tag \in Kinds /\ t.next \in Nat
          /\ i < n => t.tag # FDT_END /\ t.next = at[i + 1]
          /\ i = n => t.tag = FDT_END
          /\ at[i] \in Nat
      BY DEF Tag
    <2>2. /\ F[i].depth \in Int /\ F[i - 1].depth \in Int
          /\ items[i].tag = FDT_BEGIN_NODE => F[i].depth = F[i - 1].depth + 1
          /\ items[i].tag = FDT_END_NODE => F[i].depth = F[i - 1].depth - 1
          /\ items[i].tag \in {FDT_PROP, FDT_NOP, FDT_END} => F[i].depth = F[i - 1].depth
      <3>1. Deepens(F, items, i)
        BY DepthStep
      <3> QED
        BY <3>1 DEF Deepens
    <2>3. x \in Spots(b) /\ x.offset = at[i] /\ x.depth = d /\ d \in Nat
      BY <2>1 DEF Spots, NodeAt
    <2> HIDE DEF x, t, T
    <2>4. Goes(b, x) <=> t.tag \in {FDT_PROP, FDT_NOP} \/ (t.tag = FDT_END_NODE /\ d > 0)
      BY <2>3 DEF Goes, t
    <2>5. r(i) = IF Goes(b, x) THEN f[GoesTo(b, x)] ELSE WalkEnd(x, t)
      BY <2>3 DEF Walks, x, t
    <2>6. CASE Goes(b, x)
      <3>1. i < n /\ i + 1 \in i + 1 .. n /\ (i + 1) - 1 = i
        BY <2>1, <2>4, <2>6, Codes
      <3>2. F[i].depth - 1 = (IF t.tag = FDT_END_NODE THEN d - 1 ELSE d) /\ F[i].depth - 1 \in Nat
        BY <2>1, <2>2, <2>3, <2>4, <2>6, Codes
      <3>3. GoesTo(b, x) = NodeAt(at[i + 1], F[i].depth - 1)
        BY <2>1, <2>3, <3>1, <3>2 DEF GoesTo, t
      <3>4. r(i) = r(i + 1)
        BY <2>5, <2>6, <3>1, <3>3
      <3>5. i + 1 \in T
        BY <1>1, <3>1
      <3>6. PICK j : Walked(at, items, F, n, i + 1, r(i + 1), j)
        BY <3>1, <3>2, <3>5 DEF T
      <3> HIDE DEF r, d
      <3>7. j \in i .. n
        BY <3>6 DEF Walked
      <3>8. items[i].tag # FDT_BEGIN_NODE
        BY <2>1, <2>4, <2>6, Codes
      <3>9. ASSUME NEW m \in i .. j - 1 PROVE items[m].tag # FDT_BEGIN_NODE
        <4>1. m = i \/ m \in i + 1 .. j - 1
          OBVIOUS
        <4> QED
          BY <3>6, <3>8, <4>1 DEF Walked
      <3>10. Walked(at, items, F, n, i, r(i), j)
        BY <3>4, <3>6, <3>7, <3>9 DEF Walked
      <3> QED
        BY <3>10 DEF r
    <2>7. CASE ~Goes(b, x)
      <3>1. r(i) = WalkEnd(x, t)
        BY <2>5, <2>7
      <3>2. i \in i .. n /\ \A m \in i .. i - 1 : items[m].tag # FDT_BEGIN_NODE
        OBVIOUS
      <3> HIDE DEF r
      <3>3. CASE t.tag = FDT_BEGIN_NODE
        <4>1. WalkEnd(x, t) = NodeAt(at[i], d + 1)
          BY <2>3, <3>3, Codes DEF WalkEnd
        <4>2. d + 1 = F[i - 1].depth /\ F[i - 1].depth \in Nat
          BY <2>2, <2>3
        <4>3. Walked(at, items, F, n, i, r(i), i)
          BY <2>1, <3>1, <3>2, <3>3, <4>1, <4>2 DEF Walked
        <4> QED
          BY <4>3 DEF r
      <3>4. CASE t.tag = FDT_END_NODE
        <4>1. WalkEnd(x, t) = NodeAt(t.next, -1)
          BY <2>3, <3>4, Codes DEF WalkEnd
        <4>2. r(i) \in VisitSpots /\ r(i).depth < 0
          BY <2>1, <3>1, <4>1 DEF NodeAt, VisitSpots
        <4>3. Stops(items, F, i)
          <5>1. ~(d > 0)
            BY <2>4, <2>7, <3>4
          <5>2. F[i].depth = 0
            BY <2>1, <2>2, <2>3, <3>4, <5>1
          <5> QED
            BY <2>1, <3>4, <5>2 DEF Stops
        <4>4. Walked(at, items, F, n, i, r(i), i)
          BY <3>2, <4>2, <4>3 DEF Walked
        <4> QED
          BY <4>4 DEF r
      <3>5. CASE t.tag = FDT_END
        <4>1. WalkEnd(x, t) = NodeAt(-NOTFOUND, d)
          BY <2>1, <2>3, <3>5, Codes DEF WalkEnd
        <4>2. r(i) \in VisitSpots /\ r(i).offset < 0
          BY <2>3, <3>1, <4>1, Codes DEF NodeAt, VisitSpots
        <4>3. Stops(items, F, i)
          BY <2>1, <3>5 DEF Stops
        <4>4. Walked(at, items, F, n, i, r(i), i)
          BY <3>2, <4>2, <4>3 DEF Walked
        <4> QED
          BY <4>4 DEF r
      <3> QED
        BY <2>1, <2>4, <2>7, <3>3, <3>4, <3>5 DEF Kinds
    <2> QED
      BY <2>6, <2>7
  <1>2. 1 .. n \subseteq T
    <2> HIDE DEF T
    <2> QED
      BY <1>1, InductBack
  <1> QED
    BY <1>2

-----------------------------------------------------------------------------
LEMMA NextNodeAt ==
  ASSUME NEW b, Sound(b), NEW n \in Nat, NEW at, NEW items,
         \A i \in 1 .. n : Tag(b, n, at, items, i),
         NEW S, \A i \in 1 .. n : items[i] \in ItemOf(S), NEW F, Grown(F, n, items, S),
         NEW c \in 1 .. n, items[c].tag = FDT_BEGIN_NODE, F[c - 1].depth \in Nat
  PROVE  /\ c < n
         /\ \E j : Walked(at, items, F, n, c + 1, fdt_next_node(b, at[c], F[c - 1].depth), j)
  <1>1. PICK f : Walks(f, b) /\ WalksFrom(f, b)
    BY WalksExists
  <1> DEFINE d == F[c - 1].depth
             y == fdt_next_node(b, at[c], d)
  <1>2. c < n /\ Tag(b, n, at, items, c) /\ at[c] \in Nat /\ at[c + 1] \in Nat
    <2>1. Tag(b, n, at, items, c)
      OBVIOUS
    <2> QED
      BY <2>1, Codes DEF Tag
  <1>3. fdt_check_node_offset(b, at[c]) = at[c + 1]
    BY <1>2, CheckAt
  <1>4. y = f[NodeAt(at[c + 1], d)]
    <2> DEFINE x == NodeAt(at[c + 1], d)
    <2>1. y = IF x.offset < 0 THEN x ELSE f[x]
      BY <1>1, <1>2, <1>3 DEF WalksFrom
    <2>2. x.offset = at[c + 1]
      BY DEF NodeAt
    <2> HIDE DEF x, y
    <2> QED
      BY <1>2, <2>1, <2>2 DEF x
  <1>5. F[c].depth - 1 = d /\ (c + 1) - 1 = c /\ c + 1 \in 1 .. n
    <2>1. Deepens(F, items, c)
      BY DepthStep
    <2> QED
      BY <1>2, <2>1 DEF Deepens
  <1>6. \E j : Walked(at, items, F, n, c + 1, f[NodeAt(at[c + 1], F[(c + 1) - 1].depth - 1)], j)
    <2>1. F[(c + 1) - 1].depth - 1 \in Nat
      BY <1>5
    <2> QED
      BY <1>1, <1>5, <2>1, WalkAt
  <1>7. NodeAt(at[c + 1], F[(c + 1) - 1].depth - 1) = NodeAt(at[c + 1], d)
    BY <1>5
  <1> QED
    BY <1>2, <1>4, <1>6, <1>7

(* What a loop over the nodes visits. *)
LEMMA VisitUnfolds ==
  ASSUME NEW b, Sound(b), NEW o \in Int, NEW d \in Int
  PROVE  LET y == fdt_next_node(b, o, d) IN
         /\ o < 0 \/ d < 0 => Visit(b, o, d) = <<NodeAt(o, d)>>
         /\ y \in VisitSpots /\ ~(o < 0 \/ d < 0) =>
              Visit(b, o, d) = <<NodeAt(o, d)>> \o Visit(b, y.offset, y.depth)
  <1> DEFINE x == NodeAt(o, d)
             y == fdt_next_node(b, o, d)
             Stop == VisitStop
             succ == VisitSucc(b)
  <1>1. PICK f : /\ Lists(f, VisitSpots, VisitStop, VisitSucc(b))
                 /\ \A node : \A depth :
                     Visit(b, node, depth) = f[[offset |-> node, depth |-> depth]]
    BY VisitLists
  <1> DEFINE Body(z) == <<z>> \o (IF z \in Stop THEN << >> ELSE f[succ[z]])
  <1>2. x \in VisitSpots /\ x.offset = o /\ x.depth = d /\ x = [offset |-> o, depth |-> d]
    BY DEF NodeAt, VisitSpots
  <1>3. f[x] = Body(x)
    <2>1. f = [z \in VisitSpots |-> Body(z)]
      BY <1>1 DEF Lists
    <2> HIDE DEF Body, x
    <2> QED
      BY <1>2, <2>1, Zenon
  <1>4. x \in Stop <=> o < 0 \/ d < 0
    BY <1>2 DEF VisitStop
  <1>5. succ[x] = y
    <2> HIDE DEF x, y
    <2>1. succ[x] = fdt_next_node(b, x.offset, x.depth)
      BY <1>2, Zenon DEF VisitSucc
    <2> QED
      BY <1>2, <2>1 DEF y
  <1>6. Visit(b, o, d) = f[x]
    BY <1>1, <1>2
  <1>7. y \in VisitSpots => Visit(b, y.offset, y.depth) = f[y]
    <2> SUFFICES ASSUME y \in VisitSpots PROVE Visit(b, y.offset, y.depth) = f[y]
      OBVIOUS
    <2> HIDE DEF y
    <2>1. y = [offset |-> y.offset, depth |-> y.depth]
      BY DEF VisitSpots
    <2> QED
      BY <1>1, <2>1
  <1> HIDE DEF x, y, Stop, succ
  <1>8. o < 0 \/ d < 0 => Visit(b, o, d) = <<x>>
    <2>1. <<x>> \o << >> = <<x>>
      OBVIOUS
    <2> QED
      BY <1>3, <1>4, <1>6, <2>1
  <1>9. y \in VisitSpots /\ ~(o < 0 \/ d < 0) => Visit(b, o, d) = <<x>> \o Visit(b, y.offset, y.depth)
    BY <1>3, <1>4, <1>5, <1>6, <1>7
  <1> QED
    BY <1>8, <1>9 DEF x, y

Hits(b, v, name) ==
  {i \in Visited(v) : v[i].depth = 1 /\ nodename_eq(b, v[i].offset, name)}

HitsOn(b, v, w, x, name) ==
  /\ Last(v) = Last(w)
  /\ x.depth = 1 /\ nodename_eq(b, x.offset, name) =>
       Hits(b, v, name) # {} /\ v[Least(Hits(b, v, name))] = x
  /\ ~(x.depth = 1 /\ nodename_eq(b, x.offset, name)) =>
       /\ Hits(b, w, name) = {} => Hits(b, v, name) = {}
       /\ Hits(b, w, name) # {} =>
            /\ Hits(b, v, name) # {}
            /\ v[Least(Hits(b, v, name))] = w[Least(Hits(b, w, name))]

(* The first hit, in a list and in the rest of it. *)
LEMMA HitsStep ==
  ASSUME NEW V, NEW x \in V, NEW w \in Seq(V), Len(w) >= 1, NEW b, NEW name,
         NEW v, v = <<x>> \o w
  PROVE  HitsOn(b, v, w, x, name)
  <1> DEFINE P(m) == m.depth = 1 /\ nodename_eq(b, m.offset, name)
             I == Hits(b, v, name)
             J == Hits(b, w, name)
             k == Len(w)
  <1>1. /\ k \in Nat /\ k >= 1 /\ Len(v) = k + 1 /\ v[1] = x
        /\ \A j \in 1 .. k : v[j + 1] = w[j]
    OBVIOUS
  <1>2. I = {i \in 1 .. k : P(v[i])} /\ J = {i \in 1 .. k - 1 : P(w[i])}
    <2>1. Visited(v) = 1 .. k /\ Visited(w) = 1 .. k - 1
      BY <1>1 DEF Visited
    <2> QED
      BY <2>1 DEF Hits
  <1>3. Last(v) = Last(w)
    BY <1>1 DEF Last
  <1> HIDE DEF P, I, J
  <1>4. I \subseteq Nat \ {0} /\ I \subseteq Nat /\ J \subseteq Nat
    BY <1>1, <1>2
  <1>5. ASSUME P(x) PROVE I # {} /\ v[Least(I)] = x
    <2>1. 1 \in I
      BY <1>1, <1>2, <1>5
    <2>2. I # {}
      BY <2>1
    <2>3. Least(I) \in I /\ \A y \in I : Least(I) <= y
      BY <1>4, <2>2, LeastOf
    <2>4. Least(I) = 1
      <3>1. Least(I) \in Nat \ {0} /\ Least(I) <= 1
        BY <1>4, <2>1, <2>3
      <3> QED
        BY <3>1
    <2> QED
      BY <1>1, <2>2, <2>4
  <1>6. ASSUME ~P(x), J = {} PROVE I = {}
    <2> SUFFICES ASSUME NEW i \in I PROVE FALSE
      OBVIOUS
    <2>1. i \in 1 .. k /\ P(v[i])
      BY <1>2
    <2>2. i # 1
      BY <1>1, <1>6, <2>1
    <2> DEFINE j == i - 1
    <2>3. j \in 1 .. k - 1 /\ j + 1 = i /\ j \in 1 .. k
      BY <2>1, <2>2
    <2> HIDE DEF j
    <2>4. v[i] = w[j]
      BY <1>1, <2>3
    <2>5. j \in J
      BY <1>2, <2>1, <2>3, <2>4
    <2> QED
      BY <1>6, <2>5
  <1>7. ASSUME ~P(x), J # {} PROVE I # {} /\ v[Least(I)] = w[Least(J)]
    <2>1. Least(J) \in J /\ \A y \in J : Least(J) <= y
      BY <1>4, <1>7, LeastOf
    <2> DEFINE l == Least(J)
    <2>2. l \in 1 .. k - 1 /\ l \in 1 .. k /\ P(w[l])
      BY <1>2, <2>1
    <2>3. v[l + 1] = w[l]
      BY <1>1, <2>2
    <2>4. l + 1 \in I
      <3>1. l + 1 \in 1 .. k
        BY <1>1, <2>2
      <3> HIDE DEF l
      <3> QED
        BY <1>2, <2>2, <2>3, <3>1
    <2>5. I # {}
      BY <2>4
    <2>6. Least(I) \in I /\ \A y \in I : Least(I) <= y
      BY <1>4, <2>5, LeastOf
    <2> DEFINE i == Least(I)
    <2>7. i \in 1 .. k /\ P(v[i]) /\ i <= l + 1
      BY <1>2, <2>4, <2>6
    <2>8. i # 1
      BY <1>1, <1>7, <2>7
    <2> HIDE DEF i, l
    <2> DEFINE j == i - 1
    <2>9. j \in 1 .. k - 1 /\ j + 1 = i /\ j \in 1 .. k
      BY <1>1, <2>2, <2>7, <2>8
    <2> HIDE DEF j
    <2>10. j \in J
      <3>1. v[i] = w[j]
        BY <1>1, <2>9
      <3> QED
        BY <1>2, <2>7, <2>9, <3>1
    <2>11. l <= j
      BY <2>1, <2>10 DEF l
    <2>12. i = l + 1
      BY <2>2, <2>7, <2>9, <2>11
    <2>13. v[i] = w[l]
      BY <2>3, <2>12
    <2> QED
      BY <2>5, <2>13 DEF i, l
  <1> QED
    BY <1>3, <1>5, <1>6, <1>7 DEF P, I, J, HitsOn

-----------------------------------------------------------------------------
(* The first node below the root of that name, from the tag c on. *)
Named1(b, at, items, F, name, m) ==
  items[m].tag = FDT_BEGIN_NODE /\ F[m - 1].depth = 1 /\ nodename_eq(b, at[m], name)
FirstNamed(b, at, items, F, name, c, j) ==
  Named1(b, at, items, F, name, j) /\ \A m \in c .. j - 1 : ~Named1(b, at, items, F, name, m)

(* None from there on, up to where a walk stops. *)
NoneNamed(b, at, items, F, n, name, c) ==
  \E j \in c .. n : Stops(items, F, j) /\ \A m \in c .. j : ~Named1(b, at, items, F, name, m)

Hit(b, at, items, F, n, name, c, v) ==
  /\ v \in Seq(VisitSpots) /\ Len(v) >= 1
  /\ \/ /\ Hits(b, v, name) = {} /\ (Last(v).offset < 0 \/ Last(v).depth < 0)
        /\ NoneNamed(b, at, items, F, n, name, c)
     \/ Hits(b, v, name) # {} /\ \E j \in c .. n :
          /\ FirstNamed(b, at, items, F, name, c, j)
          /\ v[Least(Hits(b, v, name))].offset = at[j]

LEMMA OneIs ==
  ASSUME NEW V, NEW y \in V
  PROVE  <<y>> \in Seq(V) /\ Len(<<y>>) = 1 /\ Last(<<y>>) = y /\ Visited(<<y>>) = {}
  BY DEF Last, Visited

LEMMA ConsIs ==
  ASSUME NEW V, NEW x \in V, NEW w \in Seq(V)
  PROVE  <<x>> \o w \in Seq(V) /\ Len(<<x>> \o w) = Len(w) + 1 /\ Len(w) \in Nat
  OBVIOUS

LEMMA HitStep ==
  ASSUME NEW b, Sound(b), NEW n \in Nat, NEW at, NEW items,
         \A i \in 1 .. n : Tag(b, n, at, items, i),
         NEW S, \A i \in 1 .. n : items[i] \in ItemOf(S), NEW F, Grown(F, n, items, S),
         NEW name, NEW c \in 1 .. n, items[c].tag = FDT_BEGIN_NODE, F[c - 1].depth \in Nat,
         \A k \in c + 1 .. n : items[k].tag = FDT_BEGIN_NODE /\ F[k - 1].depth \in Nat =>
           Hit(b, at, items, F, n, name, k, Visit(b, at[k], F[k - 1].depth))
  PROVE  Hit(b, at, items, F, n, name, c, Visit(b, at[c], F[c - 1].depth))
  <1> DEFINE d == F[c - 1].depth
             x == NodeAt(at[c], d)
             y == fdt_next_node(b, at[c], d)
             v == Visit(b, at[c], d)
             w == Visit(b, y.offset, y.depth)
             P == x.depth = 1 /\ nodename_eq(b, x.offset, name)
  <1>1. c < n /\ \E k : Walked(at, items, F, n, c + 1, y, k)
    BY NextNodeAt
  <1>2. PICK k : Walked(at, items, F, n, c + 1, y, k)
    BY <1>1
  <1>3. k \in c + 1 .. n /\ (\A m \in c + 1 .. k - 1 : items[m].tag # FDT_BEGIN_NODE)
        /\ k \in 1 .. n
    <2>1. k \in c + 1 .. n
      BY <1>2 DEF Walked
    <2>2. k \in 1 .. n
      BY <2>1
    <2> QED
      BY <1>2, <2>1, <2>2 DEF Walked
  <1>4. at[c] \in Nat /\ d \in Nat /\ at[k] \in Nat /\ at[k] \in Aligned
    <2>1. Tag(b, n, at, items, c) /\ Tag(b, n, at, items, k)
      BY <1>3
    <2> QED
      BY <2>1 DEF Tag
  <1>5. x \in VisitSpots /\ x.offset = at[c] /\ x.depth = d
    BY <1>4 DEF NodeAt, VisitSpots
  <1>6. P <=> Named1(b, at, items, F, name, c)
    BY <1>5 DEF Named1
  <1> DEFINE Good1 == items[k].tag = FDT_BEGIN_NODE /\ F[k - 1].depth \in Nat
                      /\ y = NodeAt(at[k], F[k - 1].depth)
             Bad1 == y \in VisitSpots /\ (y.offset < 0 \/ y.depth < 0) /\ Stops(items, F, k)
  <1>7. Good1 \/ Bad1
    BY <1>2 DEF Walked
  <1>8. y \in VisitSpots
    <2>1. Good1 => y \in VisitSpots
      BY <1>4 DEF NodeAt, VisitSpots
    <2> HIDE DEF y
    <2> QED
      BY <1>7, <2>1
  <1>9. v = <<x>> \o w
    <2>1. at[c] \in Int /\ d \in Int /\ ~(at[c] < 0 \/ d < 0)
      BY <1>4
    <2>2. y \in VisitSpots /\ ~(at[c] < 0 \/ d < 0) => v = <<x>> \o w
      <3> HIDE DEF d
      <3> QED
        BY <2>1, VisitUnfolds
    <2> HIDE DEF v, w, x, y
    <2> QED
      BY <1>8, <2>1, <2>2
  <1>10. w \in Seq(VisitSpots) /\ Len(w) >= 1
         /\ \/ /\ Hits(b, w, name) = {} /\ (Last(w).offset < 0 \/ Last(w).depth < 0)
               /\ NoneNamed(b, at, items, F, n, name, k)
            \/ Hits(b, w, name) # {} /\ \E j \in k .. n :
                 /\ FirstNamed(b, at, items, F, name, k, j)
                 /\ w[Least(Hits(b, w, name))].offset = at[j]
    <2>1. CASE Good1
      <3>1. Hit(b, at, items, F, n, name, k, Visit(b, at[k], F[k - 1].depth))
        BY <1>3, <2>1
      <3>2. y.offset = at[k] /\ y.depth = F[k - 1].depth
        BY <2>1 DEF NodeAt
      <3>3. w = Visit(b, at[k], F[k - 1].depth)
        <4> HIDE DEF y
        <4> QED
          BY <3>2
      <3> HIDE DEF w
      <3> QED
        BY <3>1, <3>3 DEF Hit
    <2>2. CASE Bad1
      <3> HIDE DEF y
      <3>1. y.offset \in Int /\ y.depth \in Int /\ NodeAt(y.offset, y.depth) = y
        BY <2>2 DEF VisitSpots, NodeAt
      <3>2. w = <<y>>
        <4>1. w = <<NodeAt(y.offset, y.depth)>>
          BY <2>2, <3>1, VisitUnfolds
        <4> QED
          BY <3>1, <4>1
      <3>3. w \in Seq(VisitSpots) /\ Len(w) = 1 /\ Last(w) = y /\ Visited(w) = {}
        <4> HIDE DEF w
        <4> QED
          BY <2>2, <3>2, OneIs
      <3>4. Hits(b, w, name) = {}
        <4> HIDE DEF w
        <4> QED
          BY <3>3 DEF Hits
      <3>5. NoneNamed(b, at, items, F, n, name, k)
        <4>1. Stops(items, F, k) /\ k \in k .. n
          BY <1>3, <2>2
        <4>2. items[k].tag # FDT_BEGIN_NODE
          BY <4>1, Codes DEF Stops
        <4>3. \A m \in k .. k : ~Named1(b, at, items, F, name, m)
          BY <1>3, <4>2 DEF Named1
        <4> QED
          BY <4>1, <4>3 DEF NoneNamed
      <3> HIDE DEF w
      <3> QED
        BY <2>2, <3>3, <3>4, <3>5
    <2> QED
      BY <1>7, <2>1, <2>2
  <1> HIDE DEF v, w, x, y
  <1>11. v \in Seq(VisitSpots) /\ Len(v) >= 1
    BY <1>5, <1>9, <1>10, ConsIs
  <1>12. /\ Last(v) = Last(w)
         /\ P => Hits(b, v, name) # {} /\ v[Least(Hits(b, v, name))] = x
         /\ ~P =>
              /\ Hits(b, w, name) = {} => Hits(b, v, name) = {}
              /\ Hits(b, w, name) # {} =>
                   /\ Hits(b, v, name) # {}
                   /\ v[Least(Hits(b, v, name))] = w[Least(Hits(b, w, name))]
    <2>1. HitsOn(b, v, w, x, name)
      BY <1>5, <1>9, <1>10, HitsStep
    <2> QED
      BY <2>1 DEF HitsOn, P
  <1>13. CASE P
    <2>1. c \in c .. n /\ \A m \in c .. c - 1 : FALSE
      BY <1>1
    <2>2. FirstNamed(b, at, items, F, name, c, c)
      BY <1>6, <1>13, <2>1 DEF FirstNamed
    <2>3. v[Least(Hits(b, v, name))].offset = at[c] /\ Hits(b, v, name) # {}
      BY <1>5, <1>12, <1>13
    <2>4. Hit(b, at, items, F, n, name, c, v)
      BY <1>11, <2>1, <2>2, <2>3 DEF Hit
    <2> QED
      BY <2>4 DEF v
  <1>14. CASE ~P
    <2>1. CASE Hits(b, w, name) = {}
      <3>1. PICK j \in k .. n : /\ Stops(items, F, j)
                                /\ \A m \in k .. j : ~Named1(b, at, items, F, name, m)
        BY <1>10, <2>1 DEF NoneNamed
      <3>2. j \in c .. n
        BY <1>3
      <3>3. ASSUME NEW m \in c .. j PROVE ~Named1(b, at, items, F, name, m)
        <4>1. m = c \/ m \in c + 1 .. k - 1 \/ m \in k .. j
          BY <1>3
        <4> QED
          BY <1>3, <1>6, <1>14, <3>1, <4>1 DEF Named1
      <3>4. NoneNamed(b, at, items, F, n, name, c)
        BY <3>1, <3>2, <3>3 DEF NoneNamed
      <3>5. Hit(b, at, items, F, n, name, c, v)
        BY <1>10, <1>11, <1>12, <1>14, <2>1, <3>4 DEF Hit
      <3> QED
        BY <3>5 DEF v
    <2>2. CASE Hits(b, w, name) # {}
      <3>1. PICK j \in k .. n : /\ FirstNamed(b, at, items, F, name, k, j)
                                /\ w[Least(Hits(b, w, name))].offset = at[j]
        BY <1>10, <2>2
      <3>2. j \in c .. n
        BY <1>3
      <3>3. ASSUME NEW m \in c .. j - 1 PROVE ~Named1(b, at, items, F, name, m)
        <4>1. m = c \/ m \in c + 1 .. k - 1 \/ m \in k .. j - 1
          BY <1>3
        <4> QED
          BY <1>3, <1>6, <1>14, <3>1, <4>1 DEF FirstNamed, Named1
      <3>4. FirstNamed(b, at, items, F, name, c, j)
        BY <3>1, <3>3 DEF FirstNamed
      <3>5. v[Least(Hits(b, v, name))].offset = at[j] /\ Hits(b, v, name) # {}
        BY <1>12, <1>14, <2>2, <3>1
      <3>6. Hit(b, at, items, F, n, name, c, v)
        BY <1>11, <3>2, <3>4, <3>5 DEF Hit
      <3> QED
        BY <3>6 DEF v
    <2> QED
      BY <2>1, <2>2
  <1> QED
    BY <1>13, <1>14

-----------------------------------------------------------------------------
LEMMA HitAt ==
  ASSUME NEW b, Sound(b), NEW n \in Nat, NEW at, NEW items,
         \A i \in 1 .. n : Tag(b, n, at, items, i),
         NEW S, \A i \in 1 .. n : items[i] \in ItemOf(S), NEW F, Grown(F, n, items, S),
         NEW name
  PROVE  \A c \in 1 .. n : items[c].tag = FDT_BEGIN_NODE /\ F[c - 1].depth \in Nat =>
           Hit(b, at, items, F, n, name, c, Visit(b, at[c], F[c - 1].depth))
  <1> DEFINE W(c) == items[c].tag = FDT_BEGIN_NODE /\ F[c - 1].depth \in Nat =>
                       Hit(b, at, items, F, n, name, c, Visit(b, at[c], F[c - 1].depth))
             T == {c \in 1 .. n : W(c)}
  <1>1. ASSUME NEW c \in 1 .. n, \A k \in c + 1 .. n : k \in T PROVE c \in T
    <2> SUFFICES ASSUME items[c].tag = FDT_BEGIN_NODE, F[c - 1].depth \in Nat
                 PROVE  Hit(b, at, items, F, n, name, c, Visit(b, at[c], F[c - 1].depth))
      OBVIOUS
    <2>1. \A k \in c + 1 .. n : items[k].tag = FDT_BEGIN_NODE /\ F[k - 1].depth \in Nat =>
            Hit(b, at, items, F, n, name, k, Visit(b, at[k], F[k - 1].depth))
      BY <1>1
    <2> QED
      BY <2>1, HitStep
  <1>2. 1 .. n \subseteq T
    <2> HIDE DEF T
    <2> QED
      BY <1>1, InductBack
  <1> QED
    BY <1>2

(* The node that is found is the first below the root that has the name.   *)
Spotted(b, at, items, F, n, name, o) ==
  \/ /\ o \in Int /\ o < 0
     /\ items[1].tag = FDT_BEGIN_NODE => NoneNamed(b, at, items, F, n, name, 1)
  \/ \E c \in 1 .. n : o = at[c] /\ FirstNamed(b, at, items, F, name, 1, c)

LEMMA SubnodeAt ==
  ASSUME NEW b, Sound(b), NEW n \in Nat, n >= 1, NEW at, NEW items, at[1] = 0,
         \A i \in 1 .. n : Tag(b, n, at, items, i),
         NEW S, \A i \in 1 .. n : items[i] \in ItemOf(S), NEW F, Grown(F, n, items, S),
         NEW name
  PROVE  Spotted(b, at, items, F, n, name, fdt_subnode_offset(b, 0, name))
  <1> DEFINE v == Visit(b, 0, 0)
             I == Hits(b, v, name)
             o == fdt_subnode_offset(b, 0, name)
             end == Last(v)
  <1>1. fdt_check_header(b) = 0
    BY DEF Sound
  <1>2. o = IF I = {} THEN (IF end.depth < 0 THEN -NOTFOUND ELSE end.offset)
            ELSE v[Least(I)].offset
    BY <1>1 DEF fdt_subnode_offset, OrError, FirstOf, Hits
  <1>3. F[1 - 1].depth = 0 /\ 1 \in 1 .. n
    <2>1. F[0] = Empty
      BY DEF Grown
    <2> QED
      BY <2>1, EmptyType
  <1>4. /\ v \in Seq(VisitSpots) /\ Len(v) >= 1
        /\ \/ /\ I = {} /\ (end.offset < 0 \/ end.depth < 0)
              /\ items[1].tag = FDT_BEGIN_NODE => NoneNamed(b, at, items, F, n, name, 1)
           \/ I # {} /\ \E j \in 1 .. n :
                /\ FirstNamed(b, at, items, F, name, 1, j)
                /\ v[Least(I)].offset = at[j]
    <2>1. CASE items[1].tag = FDT_BEGIN_NODE
      <3>1. items[1].tag = FDT_BEGIN_NODE /\ F[1 - 1].depth \in Nat
        BY <1>3, <2>1
      <3>2. Hit(b, at, items, F, n, name, 1, Visit(b, at[1], F[1 - 1].depth))
        BY <1>3, <3>1, HitAt
      <3>3. Visit(b, at[1], F[1 - 1].depth) = v
        BY <1>3
      <3> HIDE DEF v
      <3> QED
        BY <3>2, <3>3 DEF Hit
    <2>2. CASE items[1].tag # FDT_BEGIN_NODE
      <3> DEFINE x == NodeAt(0, 0)
                 y == fdt_next_node(b, 0, 0)
      <3>1. fdt_check_node_offset(b, 0) = -BADOFFSET
        <4>1. Tag(b, n, at, items, 1)
          BY <1>3
        <4>2. fdt_next_tag(b, 0).tag # FDT_BEGIN_NODE /\ 0 % FDT_TAGSIZE = 0
          BY <2>2, <4>1, Sizes DEF Tag
        <4> QED
          BY <4>2 DEF fdt_check_node_offset, CheckTag
      <3>2. -BADOFFSET < 0 /\ -BADOFFSET \in Int
        BY Codes
      <3>3. y = NodeAt(-BADOFFSET, 0)
        <4>1. PICK f : WalksFrom(f, b)
          BY WalksExists
        <4> DEFINE z == NodeAt(fdt_check_node_offset(b, 0), 0)
        <4>2. y = IF z.offset < 0 THEN z ELSE f[z]
          BY <4>1 DEF WalksFrom
        <4>3. z = NodeAt(-BADOFFSET, 0) /\ z.offset = -BADOFFSET
          BY <3>1 DEF NodeAt
        <4> HIDE DEF z, y
        <4> QED
          BY <3>2, <4>2, <4>3
      <3>4. y \in VisitSpots /\ y.offset = -BADOFFSET /\ y.depth = 0
            /\ NodeAt(y.offset, y.depth) = y
        BY <3>2, <3>3 DEF NodeAt, VisitSpots
      <3>5. v = <<x>> \o <<y>>
        <4>1. y \in VisitSpots /\ ~(0 < 0 \/ 0 < 0) => v = <<x>> \o Visit(b, y.offset, y.depth)
          BY VisitUnfolds
        <4>2. Visit(b, y.offset, y.depth) = <<NodeAt(y.offset, y.depth)>>
          <5>1. y.offset \in Int /\ y.depth \in Int /\ y.offset < 0
            BY <3>2, <3>4
          <5> HIDE DEF y
          <5> QED
            BY <5>1, VisitUnfolds
        <4> HIDE DEF y, v
        <4> QED
          BY <3>4, <4>1, <4>2
      <3>6. x \in VisitSpots /\ x.depth = 0
        BY DEF NodeAt, VisitSpots
      <3> HIDE DEF x, y, v
      <3>7. v \in Seq(VisitSpots) /\ Len(v) = 2 /\ v[1] = x /\ v[2] = y
        BY <3>4, <3>5, <3>6
      <3>8. end.offset < 0
        <4>1. Last(v) = y
          BY <3>7 DEF Last
        <4> HIDE DEF y
        <4> QED
          BY <3>2, <3>4, <4>1
      <3>9. I = {}
        <4>1. Visited(v) = 1 .. 1
          BY <3>7 DEF Visited
        <4> QED
          BY <3>6, <3>7, <4>1 DEF Hits
      <3> QED
        BY <2>2, <3>7, <3>8, <3>9
    <2> QED
      BY <2>1, <2>2
  <1>5. end \in VisitSpots
    <2> HIDE DEF v
    <2>1. Len(v) \in 1 .. Len(v)
      BY <1>4
    <2>2. v[Len(v)] \in VisitSpots
      BY <1>4, <2>1
    <2> QED
      BY <2>2 DEF Last
  <1> HIDE DEF v, I, end
  <1>6. CASE I = {}
    <2>1. end.offset \in Int /\ -NOTFOUND \in Int /\ -NOTFOUND < 0 /\ end.depth \in Int
      BY <1>5, Codes DEF VisitSpots
    <2>2. o \in Int /\ o < 0
      <3> HIDE DEF o
      <3> QED
        BY <1>2, <1>4, <1>6, <2>1
    <2>3. items[1].tag = FDT_BEGIN_NODE => NoneNamed(b, at, items, F, n, name, 1)
      BY <1>4, <1>6
    <2> QED
      BY <2>2, <2>3 DEF Spotted
  <1>7. CASE I # {}
    <2>1. \E j \in 1 .. n : FirstNamed(b, at, items, F, name, 1, j) /\ o = at[j]
      <3> HIDE DEF o
      <3> QED
        BY <1>2, <1>4, <1>7
    <2> QED
      BY <2>1 DEF Spotted
  <1> QED
    BY <1>6, <1>7

-----------------------------------------------------------------------------
(* The name that libfdt looks for is that of a node of the settings.       *)
LEMMA NamedIs ==
  ASSUME NEW w, Plain(w), NEW name, NEW K \in Nat, Maps(name, 1 .. K, Byte),
         \A i \in 1 .. K : name[i] # NUL, name = [i \in 1 .. K |-> name[i]],
         NEW after, after = IF Len(w) = K THEN NUL ELSE name[Len(w) + 1]
  PROVE  (/\ Len(w) <= K /\ (\A i \in 1 .. Len(w) : name[i] = w[i])
          /\ after = NUL \/ after = AT)
         <=> (\/ name = w
              \/ Len(name) > Len(w) /\ SubSeq(name, 1, Len(w) + 1) = Append(w, AT))
  <1> DEFINE L == Len(w)
             u == Append(w, AT)
  <1>1. /\ w \in Seq(Byte) /\ L \in Nat /\ DOMAIN w = 1 .. L /\ w = [i \in 1 .. L |-> w[i]]
        /\ \A i \in 1 .. L : w[i] # NUL /\ w[i] # AT
    <2>1. w \in Seq(Byte) /\ \A i \in DOMAIN w : w[i] \notin {NUL, AT}
      BY DEF Plain
    <2> DEFINE B == Byte
    <2>2. w \in Seq(B)
      BY <2>1
    <2> HIDE DEF B
    <2>3. DOMAIN w = 1 .. L /\ L \in Nat /\ w = [i \in 1 .. L |-> w[i]]
      BY <2>2
    <2> QED
      BY <2>1, <2>3
  <1>2. name \in Seq(Byte) /\ Len(name) = K
    <2> DEFINE B == Byte
    <2>1. \A i \in 1 .. K : name[i] \in B
      BY DEF Maps
    <2> HIDE DEF B
    <2>2. name \in Seq(B) /\ Len(name) = K
      BY <2>1
    <2> QED
      BY <2>2 DEF B
  <1>3. u = [i \in 1 .. L + 1 |-> u[i]] /\ u[L + 1] = AT /\ \A i \in 1 .. L : u[i] = w[i]
    <2> DEFINE B == Byte
    <2>1. w \in Seq(B) /\ AT \in B
      BY <1>1 DEF AT, Byte, Base
    <2> HIDE DEF B
    <2>2. u \in Seq(B) /\ Len(u) = L + 1
      BY <2>1
    <2>3. u[L + 1] = AT /\ \A i \in 1 .. L : u[i] = w[i]
      BY <2>1
    <2>4. u = [i \in 1 .. L + 1 |-> u[i]]
      <3> HIDE DEF u, L
      <3> QED
        BY <2>2
    <2> QED
      BY <2>3, <2>4
  <1>4. L < K => SubSeq(name, 1, L + 1) = [i \in 1 .. L + 1 |-> name[i]]
    <2> DEFINE B == Byte
    <2>1. name \in Seq(B)
      BY <1>2
    <2> HIDE DEF B
    <2> QED
      BY <1>1, <1>2, <2>1
  <1> HIDE DEF u, L
  <1>5. (\A i \in 1 .. L : name[i] = w[i]) /\ L = K => name = w
    <2> SUFFICES ASSUME \A i \in 1 .. L : name[i] = w[i], L = K PROVE name = w
      OBVIOUS
    <2>1. [i \in 1 .. K |-> name[i]] = [i \in 1 .. L |-> w[i]]
      OBVIOUS
    <2> QED
      BY <1>1, <2>1
  <1>6. name = w => L = K /\ \A i \in 1 .. L : name[i] = w[i]
    BY <1>2 DEF L
  <1>7. L < K => ((SubSeq(name, 1, L + 1) = u) <=>
                  ((\A i \in 1 .. L : name[i] = w[i]) /\ name[L + 1] = AT))
    <2> SUFFICES ASSUME L < K
                 PROVE  ([i \in 1 .. L + 1 |-> name[i]] = u) <=>
                        ((\A i \in 1 .. L : name[i] = w[i]) /\ name[L + 1] = AT)
      BY <1>4
    <2>1. \A i \in 1 .. L + 1 : i \in 1 .. L \/ i = L + 1
      BY <1>1
    <2>2. ASSUME \A i \in 1 .. L : name[i] = w[i], name[L + 1] = AT
          PROVE  [i \in 1 .. L + 1 |-> name[i]] = u
      <3>1. \A i \in 1 .. L + 1 : name[i] = u[i]
        BY <1>3, <2>1, <2>2
      <3>2. [i \in 1 .. L + 1 |-> name[i]] = [i \in 1 .. L + 1 |-> u[i]]
        BY <3>1
      <3> QED
        BY <1>3, <3>2
    <2>3. ASSUME [i \in 1 .. L + 1 |-> name[i]] = u
          PROVE  (\A i \in 1 .. L : name[i] = w[i]) /\ name[L + 1] = AT
      <3>1. L + 1 \in 1 .. L + 1 /\ \A i \in 1 .. L : i \in 1 .. L + 1
        BY <1>1
      <3>2. \A i \in 1 .. L + 1 : u[i] = name[i]
        BY <2>3
      <3> QED
        BY <1>3, <3>1, <3>2
    <2> QED
      BY <2>2, <2>3
  <1>8. L < K => after # NUL
    <2>1. L < K => L + 1 \in 1 .. K /\ L # K
      BY <1>1
    <2> QED
      BY <2>1 DEF L
  <1>9. L < K => after = name[L + 1]
    BY <1>1 DEF L
  <1>10. L = K => after = NUL
    BY DEF L
  <1>11. L < K \/ L = K \/ L > K
    BY <1>1
  <1> QED
    <2>1. CASE L < K
      <3>1. L <= K /\ ~(L = K) /\ Len(name) > L
        BY <1>1, <1>2, <2>1
      <3> QED
        BY <1>6, <1>7, <1>8, <1>9, <2>1, <3>1 DEF L, u
    <2>2. CASE L = K
      <3>1. L <= K /\ ~(Len(name) > L)
        BY <1>1, <1>2, <2>2
      <3> QED
        BY <1>5, <1>6, <1>10, <2>2, <3>1 DEF L, u
    <2>3. CASE L > K
      <3>1. ~(L <= K) /\ ~(Len(name) > L) /\ ~(L = K)
        BY <1>1, <1>2, <2>3
      <3> QED
        BY <1>6, <3>1 DEF L, u
    <2> QED
      BY <1>11, <2>1, <2>2, <2>3

LEMMA NodenameIs ==
  ASSUME NEW b, Sound(b), NEW o, NEW end, NEW it, Says(b, b.size_dt_struct, o, end, it),
         it.tag = FDT_BEGIN_NODE, NEW w, Plain(w)
  PROVE  nodename_eq(b, o, w) <=>
           \/ it.name = w
           \/ Len(it.name) > Len(w) /\ SubSeq(it.name, 1, Len(w) + 1) = Append(w, AT)
  <1> DEFINE size == b.size_dt_struct
             p == o + FDT_TAGSIZE
             K == (end - 1) - p
             name == it.name
             L == Len(w)
             after == ByteAt(b, p + L)
  <1>1. Block(b, FDT_SIZE_MAX, size)
    BY SoundBlock
  <1>2. Said(b, o, end, it)
    BY <1>1, SaysIs
  <1>3. /\ o \in Nat /\ end \in o + 1 .. size /\ Whole(b, o, end) /\ end \in Nat /\ end <= size
        /\ size \in Nat /\ FDT_TAGSIZE \in Nat
    <2>1. o \in Nat /\ end \in Nat /\ o < end /\ end <= size /\ Whole(b, o, end) /\ size \in Nat
      BY <1>1 DEF Says, Block
    <2> HIDE DEF size
    <2> QED
      BY <2>1, Sizes
  <1>4. name = NameOf(b, o, end) /\ WordAt(b, o) = FDT_BEGIN_NODE
    BY <1>2 DEF Said
  <1>5. /\ p + 1 <= end /\ ByteAt(b, end - 1) = NUL
        /\ \A q \in p .. end - 2 : ByteAt(b, q) # NUL
    <2> HIDE DEF size
    <2> QED
      BY <1>1, <1>3, <1>4, WholeIn
  <1>6. p \in Nat /\ K \in Nat /\ L \in Nat /\ p + K = end - 1
    <2>1. L \in Nat
      <3> DEFINE B == Byte
      <3>1. w \in Seq(B)
        BY DEF Plain
      <3> HIDE DEF B
      <3> QED
        BY <3>1
    <2> QED
      BY <1>3, <1>5, <2>1
  <1>7. \A i \in 1 .. L : w[i] # NUL /\ w[i] # AT
    <2> DEFINE B == Byte
    <2>1. w \in Seq(B) /\ \A i \in DOMAIN w : w[i] \notin {NUL, AT}
      BY DEF Plain
    <2> HIDE DEF B
    <2> QED
      BY <2>1
  <1>8. name = [i \in 1 .. K |-> ByteAt(b, p + i - 1)]
    <2>1. \A i \in 1 .. K : b.mem[(b.off_dt_struct + p) + i - 1] = ByteAt(b, p + i - 1)
      <3>1. b.off_dt_struct \in Nat
        BY <1>1 DEF Block
      <3>2. ASSUME NEW i \in 1 .. K
            PROVE (b.off_dt_struct + p) + i - 1 = b.off_dt_struct + (p + i - 1)
        <4> HIDE DEF p, K
        <4> QED
          BY <1>6, <3>1
      <3> QED
        BY <3>2 DEF ByteAt
    <2>2. name = [i \in 1 .. K |-> b.mem[(b.off_dt_struct + p) + i - 1]]
      BY <1>4 DEF NameOf, Bytes
    <2> HIDE DEF name, p, K
    <2> QED
      BY <2>1, <2>2
  <1>9. \A i \in 1 .. K : name[i] = ByteAt(b, p + i - 1) /\ p + i - 1 \in p .. end - 2
    <2>1. \A i \in 1 .. K : p + i - 1 \in p .. end - 2
      <3> HIDE DEF p
      <3> QED
        BY <1>3, <1>6
    <2>2. \A i \in 1 .. K : name[i] = ByteAt(b, p + i - 1)
      <3> HIDE DEF name, p, K
      <3> QED
        BY <1>8
    <2> QED
      BY <2>1, <2>2
  <1>10. \A q \in 0 .. size - 1 : ByteAt(b, q) \in Byte
    <2>1. /\ b.off_dt_struct \in Nat /\ FDT_SIZE_MAX \in Nat
          /\ b.off_dt_struct + size <= FDT_SIZE_MAX /\ Maps(b.mem, 0 .. FDT_SIZE_MAX - 1, Byte)
      BY <1>1 DEF Block
    <2> HIDE DEF size
    <2>2. ASSUME NEW q \in 0 .. size - 1 PROVE b.off_dt_struct + q \in 0 .. FDT_SIZE_MAX - 1
      BY <1>3, <2>1
    <2> QED
      BY <2>1, <2>2 DEF ByteAt, Maps
  <1>11. /\ Maps(name, 1 .. K, Byte) /\ (\A i \in 1 .. K : name[i] # NUL)
         /\ name = [i \in 1 .. K |-> name[i]]
    <2>1. \A i \in 1 .. K : name[i] # NUL
      BY <1>5, <1>9
    <2>2. \A i \in 1 .. K : p + i - 1 \in 0 .. size - 1
      <3> HIDE DEF p, size
      <3> QED
        BY <1>3, <1>6
    <2>3. \A i \in 1 .. K : name[i] \in Byte
      BY <1>9, <1>10, <2>2
    <2>4. DOMAIN name = 1 .. K /\ name = [i \in 1 .. K |-> name[i]]
      <3> HIDE DEF name, p, K
      <3> QED
        BY <1>8
    <2> QED
      BY <2>1, <2>3, <2>4 DEF Maps
  <1>12. nodename_eq(b, o, w) <=>
           /\ p + (L + 1) <= size
           /\ \A i \in 1 .. L : ByteAt(b, p + i - 1) = w[i]
           /\ after = NUL \/ after = AT
    <2>1. fdt_offset_ptr(b, p, L + 1) <=> p + (L + 1) <= size
      BY DEF fdt_offset_ptr, Sound
    <2> HIDE DEF size
    <2> QED
      BY <1>7, <2>1 DEF nodename_eq
  <1> DEFINE x == IF L = K THEN NUL ELSE name[L + 1]
  <1>13. ASSUME L <= K PROVE after = x
    <2>1. CASE L = K
      <3>1. p + L = end - 1
        BY <1>6, <2>1
      <3> QED
        BY <1>5, <2>1, <3>1
    <2>2. CASE L # K
      <3>1. L + 1 \in 1 .. K /\ p + (L + 1) - 1 = p + L
        <4> HIDE DEF p, K, L
        <4> QED
          BY <1>6, <1>13, <2>2
      <3>2. name[L + 1] = ByteAt(b, p + (L + 1) - 1)
        BY <1>9, <3>1
      <3> QED
        BY <2>2, <3>1, <3>2
    <2> QED
      BY <2>1, <2>2
  <1>14. nodename_eq(b, o, w) <=>
           /\ L <= K /\ \A i \in 1 .. L : name[i] = w[i]
           /\ x = NUL \/ x = AT
    <2>1. ASSUME L <= K
          PROVE  /\ p + (L + 1) <= size
                 /\ \A i \in 1 .. L : name[i] = ByteAt(b, p + i - 1)
      <3>1. p + (L + 1) <= size
        <4> HIDE DEF p, L, size
        <4> QED
          BY <1>3, <1>6, <2>1
      <3>2. \A i \in 1 .. L : i \in 1 .. K
        <4> HIDE DEF K, L
        <4> QED
          BY <1>6, <2>1
      <3> QED
        BY <1>9, <3>1, <3>2
    <2>2. ASSUME L > K, \A i \in 1 .. L : ByteAt(b, p + i - 1) = w[i] PROVE FALSE
      <3>1. K + 1 \in 1 .. L /\ p + (K + 1) - 1 = end - 1
        <4> HIDE DEF L
        <4> QED
          BY <1>3, <1>6, <2>2
      <3>2. w[K + 1] = NUL
        BY <1>5, <2>2, <3>1
      <3> QED
        BY <1>7, <3>1, <3>2
    <2>3. L <= K \/ L > K
      <3> HIDE DEF K, L
      <3> QED
        BY <1>6
    <2>4. ~(L <= K /\ L > K)
      <3> HIDE DEF K, L
      <3> QED
        BY <1>6
    <2> HIDE DEF L, K, name, after, x, p, size
    <2>5. CASE L <= K
      <3>1. p + (L + 1) <= size /\ after = x
        BY <1>13, <2>1, <2>5
      <3>2. (\A i \in 1 .. L : ByteAt(b, p + i - 1) = w[i])
              <=> (\A i \in 1 .. L : name[i] = w[i])
        BY <2>1, <2>5
      <3> QED
        BY <1>12, <2>5, <3>1, <3>2
    <2>6. CASE L > K
      <3>1. ~ \A i \in 1 .. L : ByteAt(b, p + i - 1) = w[i]
        BY <2>2, <2>6
      <3> QED
        BY <1>12, <2>4, <2>6, <3>1
    <2> QED
      BY <2>3, <2>5, <2>6
  <1>15. (/\ L <= K /\ (\A i \in 1 .. L : name[i] = w[i])
          /\ x = NUL \/ x = AT)
         <=> (\/ name = w
              \/ Len(name) > L /\ SubSeq(name, 1, L + 1) = Append(w, AT))
    <2> HIDE DEF name, K
    <2> QED
      BY <1>6, <1>11, NamedIs
  <1> QED
    BY <1>14, <1>15

-----------------------------------------------------------------------------
(* The first node of the settings is at the tag that libfdt finds.         *)
LEMMA FirstSpot ==
  ASSUME NEW S, NEW n \in Nat, NEW items, Indexed(items, n),
         \A i \in 1 .. n : items[i] \in ItemOf(S),
         NEW F, Grown(F, n, items, S), TreeOf(items) = F[n].seq,
         NEW b, NEW at, NEW c \in 1 .. n, FirstNamed(b, at, items, F, CHOSEN, 1, c),
         \A i \in 1 .. n : items[i].tag = FDT_BEGIN_NODE =>
           (nodename_eq(b, at[i], CHOSEN) <=> IsChosen(items[i].name))
  PROVE  Spot(items, n, c)
  <1> DEFINE L(i) == Len(F[i].seq)
             t == F[n].seq
             C == Chosens(t)
             l == L(c - 1) + 1
             V == NodeOf(S)
  <1>1. items[c].tag = FDT_BEGIN_NODE /\ F[c - 1].depth = 1 /\ IsChosen(items[c].name)
    BY DEF FirstNamed, Named1
  <1>2. \A i \in 1 .. n : /\ L(i) \in Nat /\ L(i - 1) \in Nat
                          /\ items[i].tag = FDT_BEGIN_NODE => L(i) = L(i - 1) + 1
    <2> SUFFICES ASSUME NEW i \in 1 .. n
                 PROVE  /\ L(i) \in Nat /\ L(i - 1) \in Nat
                        /\ items[i].tag = FDT_BEGIN_NODE => L(i) = L(i - 1) + 1
      OBVIOUS
    <2>1. Stepped(F, items, S, i)
      BY GrownStep
    <2> QED
      BY <2>1 DEF Stepped
  <1>3. \A j \in 0 .. n : L(j) \in Nat /\ \A i \in 0 .. j : L(i) <= L(j)
    BY GrownOrder
  <1>4. t \in Seq(V) /\ DOMAIN t = 1 .. L(n)
    <2>1. n \in 0 .. n
      OBVIOUS
    <2>2. t \in Seq(V)
      BY <2>1 DEF Grown, Growth
    <2> HIDE DEF V, t
    <2>3. DOMAIN t = 1 .. Len(t)
      BY <2>2
    <2> QED
      BY <2>2, <2>3 DEF t
  <1>5. \A k \in 1 .. L(n) : \E j \in 1 .. n : Born(F, items, n, k, j)
    <2>1. n \in 0 .. n
      OBVIOUS
    <2> QED
      BY <2>1, BornAt
  <1>6. l = L(c) /\ l \in 1 .. L(n) /\ l \in Nat
    <2>1. c \in 0 .. n /\ n \in 0 .. n /\ c \in 0 .. n
      OBVIOUS
    <2>2. L(c) <= L(n) /\ L(n) \in Nat
      BY <1>3, <2>1
    <2>3. L(c) = L(c - 1) + 1 /\ L(c - 1) \in Nat
      BY <1>1, <1>2
    <2> HIDE DEF L
    <2> QED
      BY <2>2, <2>3
  <1>7. l \in C
    <2>1. PICK j \in 1 .. n : Born(F, items, n, l, j)
      BY <1>5, <1>6
    <2>2. /\ items[j].tag = FDT_BEGIN_NODE /\ L(j - 1) + 1 = l
          /\ t[l].depth = F[j - 1].depth /\ t[l].name = items[j].name
      BY <2>1 DEF Born
    <2>3. L(j) = l /\ L(j - 1) + 1 = l /\ L(j - 1) \in Nat /\ L(c) = l /\ L(c - 1) + 1 = l
          /\ L(c - 1) \in Nat
      BY <1>2, <1>6, <2>2
    <2>4. j = c
      <3>1. ~(j < c)
        <4>1. j < c => c - 1 \in 0 .. n /\ j \in 0 .. c - 1
          OBVIOUS
        <4>2. j < c => L(j) <= L(c - 1)
          BY <1>3, <4>1
        <4> HIDE DEF L, l
        <4> QED
          BY <2>3, <4>2
      <3>2. ~(c < j)
        <4>1. c < j => j - 1 \in 0 .. n /\ c \in 0 .. j - 1
          OBVIOUS
        <4>2. c < j => L(c) <= L(j - 1)
          BY <1>3, <4>1
        <4> HIDE DEF L, l
        <4> QED
          BY <2>3, <4>2
      <3> QED
        BY <3>1, <3>2
    <2>5. t[l].depth = 1 /\ IsChosen(t[l].name)
      BY <1>1, <2>2, <2>4
    <2> HIDE DEF l, t
    <2> QED
      BY <1>4, <1>6, <2>5 DEF Chosens
  <1>8. ASSUME NEW k \in C PROVE l <= k
    <2>1. k \in 1 .. L(n) /\ t[k].depth = 1 /\ IsChosen(t[k].name)
      <3> HIDE DEF t
      <3> QED
        BY <1>4 DEF Chosens
    <2>2. PICK j \in 1 .. n : Born(F, items, n, k, j)
      BY <1>5, <2>1
    <2>3. /\ items[j].tag = FDT_BEGIN_NODE /\ L(j - 1) + 1 = k
          /\ F[j - 1].depth = 1 /\ IsChosen(items[j].name)
      BY <2>1, <2>2 DEF Born
    <2>4. Named1(b, at, items, F, CHOSEN, j)
      BY <2>3 DEF Named1
    <2>5. ~(j \in 1 .. c - 1)
      BY <2>4 DEF FirstNamed
    <2>6. j - 1 \in 0 .. n /\ c - 1 \in 0 .. j - 1
      BY <2>5
    <2>7. L(c - 1) <= L(j - 1) /\ L(j - 1) \in Nat /\ L(c - 1) \in Nat
      <3>1. j - 1 \in 0 .. n /\ c - 1 \in 0 .. n
        OBVIOUS
      <3> QED
        BY <1>3, <2>6, <3>1
    <2> HIDE DEF L
    <2> QED
      BY <2>3, <2>7
  <1>9. Least(C) = l
    <2>1. C \subseteq Nat /\ C # {}
      <3>1. C \subseteq 1 .. L(n)
        <4> HIDE DEF t
        <4> QED
          BY <1>4 DEF Chosens
      <3> HIDE DEF C
      <3> QED
        BY <1>7, <3>1
    <2> HIDE DEF C, l
    <2>2. Least(C) \in C /\ \A k \in C : Least(C) <= k
      BY <2>1, LeastOf
    <2>3. l <= Least(C) /\ Least(C) <= l /\ Least(C) \in Nat
      BY <1>7, <1>8, <2>1, <2>2
    <2> QED
      BY <1>6, <2>3
  <1>10. TreeOf(FirstItems(items, c)) = F[c].seq
    BY FrontIs
  <1> HIDE DEF C
  <1>11. Len(TreeOf(FirstItems(items, c))) = Least(C) /\ C # {}
    BY <1>6, <1>7, <1>9, <1>10
  <1> QED
    BY <1>1, <1>11 DEF Spot, C

(* All nodes between the first tag and the last of the root.               *)
RootEnds(items, F, n, e) ==
  /\ e \in 2 .. n /\ items[e].tag = FDT_END_NODE
  /\ F[e].depth = 0 /\ \A i \in 1 .. e - 1 : F[i].depth > 0
  /\ \A i \in e + 1 .. n : items[i].tag \in {FDT_NOP, FDT_END}

LEMMA RootEnd ==
  ASSUME NEW S, NEW n \in Nat, NEW items, \A i \in 1 .. n : items[i] \in ItemOf(S),
         NEW F, Grown(F, n, items, S), Reading(items) = F, Len(items) = n, Rooted(items)
  PROVE  items[1].tag = FDT_BEGIN_NODE /\ \E e : RootEnds(items, F, n, e)
  <1>1. PICK e \in 2 .. n :
          /\ F[e].depth = 0 /\ \A i \in 1 .. e - 1 : F[i].depth > 0
          /\ \A i \in e + 1 .. n : items[i].tag \in {FDT_NOP, FDT_END}
    BY DEF Rooted
  <1>2. \A i \in 1 .. n : items[i].tag \in Kinds
    BY DEF ItemOf
  <1>3. items[e].tag = FDT_END_NODE
    <2>1. e \in 1 .. n /\ e - 1 \in 1 .. e - 1
      OBVIOUS
    <2>2. Deepens(F, items, e)
      BY <2>1, DepthStep
    <2>3. F[e - 1].depth > 0
      BY <1>1, <2>1
    <2>4. items[e].tag \in Kinds
      BY <1>2, <2>1
    <2> QED
      BY <1>1, <2>2, <2>3, <2>4 DEF Deepens, Kinds
  <1>4. items[1].tag = FDT_BEGIN_NODE
    <2>1. 1 \in 1 .. n /\ 1 \in 1 .. e - 1
      OBVIOUS
    <2>2. Deepens(F, items, 1)
      BY <2>1, DepthStep
    <2>3. F[1].depth > 0 /\ items[1].tag \in Kinds
      BY <1>1, <1>2, <2>1
    <2>4. F[1 - 1].depth = 0
      <3>1. F[0] = Empty
        BY DEF Grown
      <3> QED
        BY <3>1, EmptyType
    <2> QED
      BY <2>2, <2>3, <2>4 DEF Deepens, Kinds
  <1>5. RootEnds(items, F, n, e)
    BY <1>1, <1>3 DEF RootEnds
  <1> QED
    BY <1>4, <1>5

(* If none is found there is none. *)
LEMMA NoSpot ==
  ASSUME NEW S, NEW n \in Nat, NEW items, \A i \in 1 .. n : items[i] \in ItemOf(S),
         \A i \in 1 .. n : i < n => items[i].tag # FDT_END,
         NEW F, Grown(F, n, items, S), TreeOf(items) = F[n].seq,
         NEW e, RootEnds(items, F, n, e),
         NEW b, NEW at, NoneNamed(b, at, items, F, n, CHOSEN, 1),
         \A i \in 1 .. n : items[i].tag = FDT_BEGIN_NODE =>
           (nodename_eq(b, at[i], CHOSEN) <=> IsChosen(items[i].name))
  PROVE  Chosens(TreeOf(items)) = {}
  <1> DEFINE t == F[n].seq
             V == NodeOf(S)
  <1>1. PICK j \in 1 .. n : /\ Stops(items, F, j)
                            /\ \A m \in 1 .. j : ~Named1(b, at, items, F, CHOSEN, m)
    BY DEF NoneNamed
  <1>2. ~(j < e)
    <2> SUFFICES ASSUME j < e PROVE FALSE
      OBVIOUS
    <2>1. j \in 1 .. e - 1 /\ j < n
      BY DEF RootEnds
    <2>2. F[j].depth > 0 /\ items[j].tag # FDT_END
      BY <2>1 DEF RootEnds
    <2>3. F[j].depth = 0
      BY <1>1, <2>2 DEF Stops
    <2> QED
      BY <2>2, <2>3
  <1>3. ASSUME NEW m \in 1 .. n PROVE ~Named1(b, at, items, F, CHOSEN, m)
    <2>1. m \in 1 .. j \/ m \in e + 1 .. n
      BY <1>2 DEF RootEnds
    <2>2. m \in e + 1 .. n => items[m].tag # FDT_BEGIN_NODE
      BY Codes DEF RootEnds
    <2> QED
      BY <1>1, <2>1, <2>2 DEF Named1
  <1>4. DOMAIN t = 1 .. Len(t)
    <2>1. n \in 0 .. n
      OBVIOUS
    <2>2. t \in Seq(V)
      BY <2>1 DEF Grown, Growth
    <2> HIDE DEF V, t
    <2> QED
      BY <2>2
  <1>5. ASSUME NEW k \in Chosens(t) PROVE FALSE
    <2>1. k \in 1 .. Len(t) /\ t[k].depth = 1 /\ IsChosen(t[k].name)
      <3> HIDE DEF t
      <3> QED
        BY <1>4 DEF Chosens
    <2>2. PICK i \in 1 .. n : Born(F, items, n, k, i)
      <3>1. n \in 0 .. n
        OBVIOUS
      <3> QED
        BY <2>1, <3>1, BornAt
    <2>3. items[i].tag = FDT_BEGIN_NODE /\ F[i - 1].depth = 1 /\ IsChosen(items[i].name)
      BY <2>1, <2>2 DEF Born
    <2>4. Named1(b, at, items, F, CHOSEN, i)
      BY <2>3 DEF Named1
    <2> QED
      BY <1>3, <2>4
  <1> QED
    BY <1>5

(* Something other than properties comes after the node begins.            *)
Followed(items, n, c) ==
  \E k \in c + 1 .. n : items[k].tag \notin {FDT_PROP, FDT_NOP, FDT_END}

LEMMA RootCloses ==
  ASSUME NEW n \in Nat, NEW items, NEW F, NEW e, RootEnds(items, F, n, e),
         NEW c \in 1 .. n, items[c].tag = FDT_BEGIN_NODE
  PROVE  Followed(items, n, c)
  <1>1. e \in 2 .. n /\ items[e].tag = FDT_END_NODE
    BY DEF RootEnds
  <1>2. c # e /\ ~(c \in e + 1 .. n)
    BY <1>1, Codes DEF RootEnds
  <1>3. e \in c + 1 .. n
    BY <1>1, <1>2
  <1> QED
    BY <1>1, <1>3, Codes DEF Followed

AllNames(items, n) == {items[i].name : i \in 1 .. n} \cup {items[i].val : i \in 1 .. n}

LEMMA ItemsType ==
  ASSUME NEW b, NEW N, NEW size, Block(b, N, size), NEW n, NEW at, NEW ends, NEW items,
         Tells(b, size, n, at, ends, items), NEW S, AllNames(items, n) \subseteq S
  PROVE  \A i \in 1 .. n : items[i] \in ItemOf(S)
  <1> SUFFICES ASSUME NEW i \in 1 .. n PROVE items[i] \in ItemOf(S)
    OBVIOUS
  <1>1. Says(b, size, at[i], ends[i], items[i])
    BY DEF Tells
  <1>2. Said(b, at[i], ends[i], items[i])
    BY <1>1, SaysIs
  <1>3. items[i].name \in S /\ items[i].val \in S
    BY DEF AllNames
  <1> DEFINE it == items[i]
  <1>4. it.tag \in Kinds /\ it = [tag |-> it.tag, name |-> it.name, val |-> it.val]
    <2> DEFINE nm == NameOf(b, at[i], ends[i])
    <2>1. /\ it.tag \in Kinds
          /\ it.tag = FDT_PROP => it = [tag |-> FDT_PROP, name |-> it.name, val |-> it.val]
          /\ it.tag = FDT_BEGIN_NODE => it = [tag |-> FDT_BEGIN_NODE, name |-> nm, val |-> << >>]
          /\ it.tag \notin {FDT_PROP, FDT_BEGIN_NODE} =>
               it = [tag |-> it.tag, name |-> << >>, val |-> << >>]
      BY <1>2 DEF Said
    <2> HIDE DEF it, nm
    <2> QED
      BY <2>1
  <1> HIDE DEF it
  <1>5. it \in ItemOf(S)
    BY <1>3, <1>4 DEF ItemOf, it
  <1> QED
    BY <1>5 DEF it

(* What fdt_subnode_offset returns for the settings' node.                 *)
AtSpot(at, items, n, o) == \E c \in 1 .. n : o = at[c] /\ Spot(items, n, c)

LEMMA ChosenAt ==
  ASSUME NEW b, Sound(b), NEW n, NEW at, NEW ends, NEW items,
         Tells(b, b.size_dt_struct, n, at, ends, items)
  PROVE  LET o == fdt_subnode_offset(b, 0, CHOSEN) IN
         /\ (o \in Int /\ o < 0) \/ AtSpot(at, items, n, o)
         /\ Rooted(items) => /\ o < 0 => Chosens(TreeOf(items)) = {}
                             /\ \A c \in 1 .. n : items[c].tag = FDT_BEGIN_NODE =>
                                  Followed(items, n, c)
  <1> DEFINE o == fdt_subnode_offset(b, 0, CHOSEN)
             size == b.size_dt_struct
  <1>1. Block(b, FDT_SIZE_MAX, size)
    BY SoundBlock
  <1>2. n \in Nat /\ n >= 1 /\ at[1] = 0 /\ \A i \in 1 .. n : Tag(b, n, at, items, i)
    BY TagIs
  <1>3. PICK S : S = AllNames(items, n)
    OBVIOUS
  <1>4. \A i \in 1 .. n : items[i] \in ItemOf(S)
    <2> HIDE DEF size
    <2>1. Tells(b, size, n, at, ends, items)
      BY DEF size
    <2>2. AllNames(items, n) \subseteq S
      BY <1>3
    <2> QED
      BY <1>1, <2>1, <2>2, ItemsType
  <1>5. Indexed(items, n)
    BY DEF Indexed, Tells
  <1>6. PICK F : /\ Grown(F, n, items, S) /\ TreeOf(items) = F[n].seq
                 /\ Reading(items) = F /\ Len(items) = n
    BY <1>2, <1>4, <1>5, ReadingIs DEF Indexed, TreeOf
  <1>7. Spotted(b, at, items, F, n, CHOSEN, o)
    BY <1>2, <1>4, <1>6, SubnodeAt
  <1>8. \A i \in 1 .. n : items[i].tag = FDT_BEGIN_NODE =>
           (nodename_eq(b, at[i], CHOSEN) <=> IsChosen(items[i].name))
    <2> SUFFICES ASSUME NEW i \in 1 .. n, items[i].tag = FDT_BEGIN_NODE
                 PROVE  nodename_eq(b, at[i], CHOSEN) <=> IsChosen(items[i].name)
      OBVIOUS
    <2>1. Says(b, b.size_dt_struct, at[i], ends[i], items[i])
      BY DEF Tells
    <2>2. Plain(CHOSEN)
      BY UpdateAssumption
    <2>3. nodename_eq(b, at[i], CHOSEN) <=>
           \/ items[i].name = CHOSEN
           \/ Len(items[i].name) > Len(CHOSEN)
              /\ SubSeq(items[i].name, 1, Len(CHOSEN) + 1) = Append(CHOSEN, AT)
      BY <2>1, <2>2, NodenameIs
    <2> QED
      BY <2>3 DEF IsChosen
  <1> HIDE DEF o
  <1>9. ASSUME NEW c \in 1 .. n, o = at[c], FirstNamed(b, at, items, F, CHOSEN, 1, c)
        PROVE  AtSpot(at, items, n, o)
    <2>1. Spot(items, n, c)
      BY <1>2, <1>4, <1>5, <1>6, <1>8, <1>9, FirstSpot
    <2> QED
      BY <1>9, <2>1 DEF AtSpot
  <1>10. (o \in Int /\ o < 0) \/ AtSpot(at, items, n, o)
    BY <1>7, <1>9 DEF Spotted
  <1>11. \A i \in 1 .. n : i < n => items[i].tag # FDT_END
    BY <1>2 DEF Tag
  <1>12. \A c \in 1 .. n : at[c] \in Nat
    BY <1>2 DEF Tag
  <1>13. ASSUME Rooted(items)
         PROVE  /\ o < 0 => Chosens(TreeOf(items)) = {}
                /\ \A c \in 1 .. n : items[c].tag = FDT_BEGIN_NODE => Followed(items, n, c)
    <2>1. items[1].tag = FDT_BEGIN_NODE /\ \E e : RootEnds(items, F, n, e)
      BY <1>2, <1>4, <1>6, <1>13, RootEnd
    <2>2. PICK e : RootEnds(items, F, n, e)
      BY <2>1
    <2>3. ASSUME o < 0 PROVE Chosens(TreeOf(items)) = {}
      <3>1. NoneNamed(b, at, items, F, n, CHOSEN, 1)
        <4>1. ASSUME NEW c \in 1 .. n PROVE o # at[c]
          BY <1>12, <2>3
        <4> QED
          BY <1>7, <2>1, <4>1 DEF Spotted
      <3> QED
        BY <1>2, <1>4, <1>6, <1>8, <1>11, <2>2, <3>1, NoSpot
    <2>4. ASSUME NEW c \in 1 .. n, items[c].tag = FDT_BEGIN_NODE PROVE Followed(items, n, c)
      BY <1>2, <2>2, <2>4, RootCloses
    <2> QED
      BY <2>3, <2>4
  <1> QED
    BY <1>10, <1>13 DEF o

-----------------------------------------------------------------------------
(* What an edit does to the bytes of a blob.                               *)
SameFields(c, b) ==
  /\ c.off_dt_struct = b.off_dt_struct /\ c.size_dt_struct = b.size_dt_struct
  /\ c.off_dt_strings = b.off_dt_strings /\ c.size_dt_strings = b.size_dt_strings

Wrote(m, k, p, s) ==
  /\ p + Len(s) <= FDT_SIZE_MAX => Holds(k, p, s)
  /\ \A i \in 0 .. FDT_SIZE_MAX - 1 : i < p \/ i >= p + Len(s) => k[i] = m[i]

LEMMA WroteIs ==
  ASSUME NEW m, Maps(m, 0 .. FDT_SIZE_MAX - 1, Byte), NEW p \in Nat, NEW s \in Seq(Byte)
  PROVE  Wrote(m, memcpy(m, p, s), p, s)
  <1> DEFINE D == 0 .. FDT_SIZE_MAX - 1
             n == Len(s)
             c == memcpy(m, p, s)
  <1>1. n \in Nat /\ FDT_SIZE_MAX \in Nat
    BY Sizes
  <1>2. c = [i \in D |-> IF i \in p .. p + n - 1 THEN s[i - p + 1] ELSE m[i]]
    BY DEF memcpy, Maps
  <1>3. \A i \in D : c[i] = IF i \in p .. p + n - 1 THEN s[i - p + 1] ELSE m[i]
    <2> HIDE DEF c
    <2> QED
      BY <1>2
  <1> HIDE DEF c, n
  <1>4. ASSUME p + n <= FDT_SIZE_MAX, NEW j \in 1 .. n PROVE c[p + (j - 1)] = s[j]
    <2> DEFINE i == p + (j - 1)
    <2>1. i \in D /\ i \in p .. p + n - 1 /\ i - p + 1 = j
      BY <1>1, <1>4
    <2> HIDE DEF i
    <2> QED
      BY <1>3, <2>1
  <1>5. ASSUME NEW i \in D, i < p \/ i >= p + n PROVE c[i] = m[i]
    BY <1>1, <1>3, <1>5
  <1> QED
    BY <1>4, <1>5 DEF Wrote, Holds, c, n

Written(c, b, p, s) == SameFields(c, b) /\ Wrote(b.mem, c.mem, p, s)

LEMMA WrittenIs ==
  ASSUME NEW b, Sound(b), NEW offset \in Nat, NEW s \in Seq(Byte)
  PROVE  Written(Write(b, offset, s), b, b.off_dt_struct + offset, s)
  <1> DEFINE p == b.off_dt_struct + offset
             k == memcpy(b.mem, p, s)
             c == Write(b, offset, s)
  <1>1. b \in BlobOf(FDT_SIZE_MAX) /\ Fields(b)
    BY SoundFields DEF Sound
  <1>2. Wrote(b.mem, k, p, s)
    <2>1. Maps(b.mem, 0 .. FDT_SIZE_MAX - 1, Byte) /\ p \in Nat
      BY <1>1 DEF Fields
    <2> HIDE DEF p
    <2> QED
      BY <2>1, WroteIs
  <1>3. c = [b EXCEPT !.mem = k]
    BY DEF Write
  <1> HIDE DEF c, k, p
  <1>4. SameFields(c, b) /\ c.mem = k
    BY <1>1, <1>3 DEF SameFields, BlobOf
  <1> QED
    BY <1>2, <1>4 DEF Written, c, p

Shift(m, k, p, old, new, end) ==
  /\ \A i \in 0 .. (p + new) - 1 : k[i] = m[i]
  /\ \A i \in p + old .. end - 1 : k[i + (new - old)] = m[i]

Moves(r, b, p, old, new) ==
  /\ r.ret = 0 /\ r.fdt = [b EXCEPT !.mem = r.fdt.mem]
  /\ p + old <= data_size(b) /\ (data_size(b) + (new - old)) <= b.totalsize
  /\ Shift(b.mem, r.fdt.mem, p, old, new, data_size(b))

LEMMA ShiftIs ==
  ASSUME NEW b, Sound(b), NEW p \in Nat, NEW old \in Nat, NEW new \in Nat,
         ~(splice(b, p, old, new).ret < 0)
  PROVE  Moves(splice(b, p, old, new), b, p, old, new)
  <1> DEFINE end == data_size(b)
             r == splice(b, p, old, new)
             D == 0 .. FDT_SIZE_MAX - 1
             n == end - p - old
             k == memmove(b.mem, p + new, p + old, n)
  <1>1. /\ end \in Nat /\ FDT_SIZE_MAX \in Nat /\ b.totalsize \in Nat
        /\ b.totalsize <= FDT_SIZE_MAX /\ b \in BlobOf(FDT_SIZE_MAX)
        /\ DOMAIN b.mem = D
    BY Inside, SoundFields, Sizes DEF Fields, Ordered, Sound, Maps
  <1> HIDE DEF end
  <1>2. p + old <= end /\ end - old + new <= b.totalsize
    <2>1. CASE p + old > end
      <3>1. r = Fail(b, BADOFFSET)
        BY <1>1, <2>1 DEF splice, end
      <3> QED
        BY <3>1 DEF Fail, BADOFFSET
    <2>2. CASE p + old <= end /\ end - old + new > b.totalsize
      <3>1. r = Fail(b, NOSPACE)
        BY <1>1, <2>2 DEF splice, end
      <3> QED
        BY <3>1 DEF Fail, NOSPACE
    <2> QED
      BY <1>1, <2>1, <2>2
  <1>3. r = Done([b EXCEPT !.mem = k], 0)
    BY <1>1, <1>2 DEF splice, end
  <1>4. k = [i \in D |-> IF i \in p + new .. (p + new) + n - 1
                         THEN b.mem[(p + old) + i - (p + new)] ELSE b.mem[i]]
    BY <1>1 DEF memmove, CopyFrom
  <1> HIDE DEF k, r
  <1>5. r.ret = 0 /\ r.fdt = [b EXCEPT !.mem = k] /\ r.fdt.mem = k
    BY <1>1, <1>3 DEF Done, BlobOf
  <1>6. \A i \in D : k[i] = IF i \in p + new .. (p + new) + n - 1
                            THEN b.mem[(p + old) + i - (p + new)] ELSE b.mem[i]
    <2> HIDE DEF n
    <2> QED
      BY <1>4
  <1>7. ASSUME NEW i \in 0 .. (p + new) - 1 PROVE k[i] = b.mem[i]
    <2>1. i \in D /\ i \notin p + new .. (p + new) + n - 1
      BY <1>1, <1>2
    <2> HIDE DEF n
    <2> QED
      BY <1>6, <2>1
  <1>8. ASSUME NEW i \in p + old .. end - 1 PROVE k[i + (new - old)] = b.mem[i]
    <2> DEFINE j == i + (new - old)
    <2>1. j \in D /\ j \in p + new .. (p + new) + n - 1 /\ (p + old) + j - (p + new) = i
      BY <1>1, <1>2
    <2> HIDE DEF n, j
    <2>2. k[j] = b.mem[i]
      BY <1>6, <2>1
    <2> QED
      BY <2>2 DEF j
  <1>9. end + (new - old) <= b.totalsize
    BY <1>1, <1>2
  <1>10. Shift(b.mem, k, p, old, new, end)
    BY <1>7, <1>8 DEF Shift
  <1> QED
    BY <1>2, <1>5, <1>9, <1>10 DEF r, end, Moves

(* The structure block of c is that of b with new bytes for the old ones   *)
(* at an offset; and the strings are moved.                                *)
Resized(c, b, offset, old, new) ==
  /\ c.off_dt_struct = b.off_dt_struct
  /\ c.size_dt_struct = b.size_dt_struct + (new - old)
  /\ c.off_dt_strings = b.off_dt_strings + (new - old)
  /\ c.size_dt_strings = b.size_dt_strings
  /\ Shift(b.mem, c.mem, b.off_dt_struct + offset, old, new, data_size(b))

LEMMA ResizedIs ==
  ASSUME NEW b, Sound(b), NEW offset \in Nat, NEW old \in Nat, NEW new \in Nat,
         ~(splice_struct(b, offset, old, new).ret < 0)
  PROVE  Resized(splice_struct(b, offset, old, new).fdt, b, offset, old, new)
  <1> DEFINE p == b.off_dt_struct + offset
             s == splice(b, p, old, new)
             r == splice_struct(b, offset, old, new)
             delta == new - old
             c == [s.fdt EXCEPT !.size_dt_struct = @ + delta, !.off_dt_strings = @ + delta]
  <1>1. r = IF s.ret < 0 THEN s ELSE Done(c, 0)
    BY DEF splice_struct, AndThen
  <1>2. ~(s.ret < 0)
    <2> HIDE DEF s, r, c
    <2> QED
      BY <1>1 DEF r
  <1>3. b \in BlobOf(FDT_SIZE_MAX) /\ p \in Nat
    BY SoundFields DEF Sound, Fields
  <1>4. s.fdt = [b EXCEPT !.mem = s.fdt.mem]
        /\ Shift(b.mem, s.fdt.mem, p, old, new, data_size(b))
    <2> HIDE DEF p
    <2>1. Moves(s, b, p, old, new)
      BY <1>2, <1>3, ShiftIs
    <2> QED
      BY <2>1 DEF Moves
  <1> DEFINE k == s.fdt.mem
             t == s.fdt
  <1>5. t = [b EXCEPT !.mem = k]
    BY <1>4
  <1>6. r.fdt = c
    <2> HIDE DEF s, c, r
    <2> QED
      BY <1>1, <1>2 DEF Done
  <1>7. c = [t EXCEPT !.size_dt_struct = @ + delta, !.off_dt_strings = @ + delta]
    OBVIOUS
  <1> HIDE DEF k, s, r, c, t, delta
  <1>8. /\ c.mem = k /\ c.off_dt_struct = b.off_dt_struct
        /\ c.size_dt_struct = b.size_dt_struct + delta
        /\ c.off_dt_strings = b.off_dt_strings + delta
        /\ c.size_dt_strings = b.size_dt_strings
    BY <1>3, <1>5, <1>7 DEF BlobOf
  <1>9. Shift(b.mem, k, p, old, new, data_size(b))
    BY <1>4 DEF k, t
  <1> HIDE DEF p
  <1> QED
    BY <1>6, <1>8, <1>9 DEF Resized, r, delta, p

-----------------------------------------------------------------------------
LEMMA WithNul ==
  ASSUME NEW s \in Seq(Byte)
  PROVE  /\ Len(s) \in Nat /\ Append(s, NUL) \in Seq(Byte) /\ Len(Append(s, NUL)) = Len(s) + 1
         /\ Append(s, NUL)[Len(s) + 1] = NUL
         /\ \A i \in 1 .. Len(s) : Append(s, NUL)[i] = s[i]
  <1> DEFINE B == Byte
  <1>1. s \in Seq(B) /\ NUL \in B
    BY DEF NUL, Byte, Base
  <1> HIDE DEF B
  <1>2. /\ Len(s) \in Nat /\ Append(s, NUL) \in Seq(B) /\ Len(Append(s, NUL)) = Len(s) + 1
        /\ Append(s, NUL)[Len(s) + 1] = NUL
        /\ \A i \in 1 .. Len(s) : Append(s, NUL)[i] = s[i]
    BY <1>1
  <1> QED
    BY <1>2 DEF B

(* A name that is in the strings block, with its NUL. *)
LEMMA StringHeld ==
  ASSUME NEW b, NEW N, NEW size, Block(b, N, size), NEW n \in Nat, NEW s \in Seq(Byte),
         \A i \in 1 .. Len(s) : s[i] # NUL, n + Len(s) < b.size_dt_strings,
         Holds(b.mem, b.off_dt_strings + n, Append(s, NUL))
  PROVE  fdt_string(b, n) = s
  <1> DEFINE L == Len(s)
             o == b.off_dt_strings
             p == o + n
             e == n + L
             a == Append(s, NUL)
             m == b.mem
  <1>1. /\ L \in Nat /\ Len(a) = L + 1 /\ a[L + 1] = NUL /\ \A i \in 1 .. L : a[i] = s[i]
    BY WithNul
  <1>2. o \in Nat /\ p \in Nat /\ e \in Nat /\ n <= e /\ e < b.size_dt_strings
    <2>1. o \in Nat
      BY DEF Block
    <2> HIDE DEF o, L
    <2> QED
      BY <1>1, <2>1 DEF L
  <1> HIDE DEF L, a
  <1>3. \A i \in 1 .. L + 1 : m[p + (i - 1)] = a[i]
    BY <1>1 DEF Holds, a
  <1>4. m[o + e] = NUL
    <2>1. L + 1 \in 1 .. L + 1 /\ p + ((L + 1) - 1) = o + e
      <3> HIDE DEF o
      <3> QED
        BY <1>1, <1>2
    <2>2. m[p + ((L + 1) - 1)] = a[L + 1]
      BY <1>3, <2>1
    <2> HIDE DEF p, o, e, m
    <2> QED
      BY <1>1, <2>1, <2>2
  <1>5. ASSUME NEW i \in 1 .. L PROVE m[p + (i - 1)] = s[i] /\ s[i] # NUL
    <2>1. i \in 1 .. L + 1
      BY <1>1
    <2>2. s[i] # NUL
      BY DEF L
    <2> HIDE DEF p, m
    <2> QED
      BY <1>1, <1>3, <2>1, <2>2
  <1>6. ASSUME NEW q \in n .. e - 1 PROVE m[o + q] # NUL
    <2> DEFINE i == q - n + 1
    <2>1. i \in 1 .. L /\ p + (i - 1) = o + q
      <3> HIDE DEF o
      <3> QED
        BY <1>1, <1>2
    <2> HIDE DEF i, p, m, o
    <2> QED
      BY <1>5, <2>1
  <1>7. fdt_string(b, n) = Bytes(m, p, e - n)
    <2> HIDE DEF e
    <2> QED
      BY <1>2, <1>4, <1>6, StringOf
  <1>8. e - n = L
    BY <1>1
  <1>9. Bytes(m, p, L) = s
    <2>1. Holds(m, p, s)
      BY <1>5 DEF Holds, L
    <2> HIDE DEF m, p
    <2> QED
      BY <1>2, <2>1, BytesHeld DEF L
  <1> QED
    BY <1>7, <1>8, <1>9

(* The name of a property that is to be added is in the strings block,     *)
(* and the rest of the blob is as it was.                                  *)
Added(c, b, n, s) ==
  /\ c.off_dt_struct = b.off_dt_struct /\ c.size_dt_struct = b.size_dt_struct
  /\ c.off_dt_strings = b.off_dt_strings /\ c.size_dt_strings >= b.size_dt_strings
  /\ \A i \in 0 .. data_size(b) - 1 : c.mem[i] = b.mem[i]
  /\ LastNul(c) /\ n \in 0 .. c.size_dt_strings - 1 /\ fdt_string(c, n) = s

LEMMA AddedOld ==
  ASSUME NEW b, Sound(b), LastNul(b), NEW s \in Seq(Byte), \A i \in 1 .. Len(s) : s[i] # NUL,
         NEW n, n = fdt_find_string(b.mem, b.off_dt_strings, b.size_dt_strings, s), n >= 0
  PROVE  Added(b, b, n, s)
  <1> DEFINE o == b.off_dt_strings
             z == b.size_dt_strings
             a == Append(s, NUL)
             L == Len(s)
             A == Len(a)
             m == b.mem
             P == {q \in o .. o + z - A : Bytes(m, q, A) = a}
             q0 == Least(P)
  <1>1. o \in Nat /\ z \in Nat /\ Block(b, FDT_SIZE_MAX, b.size_dt_struct)
    BY SoundBlock DEF Block
  <1>2. L \in Nat /\ A = L + 1
    BY WithNul
  <1>3. n = IF P = {} THEN -1 ELSE q0 - o
    BY DEF fdt_find_string
  <1>4. P # {} /\ n = q0 - o
    <2> HIDE DEF P, q0, o
    <2> QED
      BY <1>3
  <1>5. P \subseteq Nat
    <2> HIDE DEF A
    <2> QED
      BY <1>1, <1>2
  <1>6. q0 \in P
    <2> HIDE DEF P
    <2> QED
      BY <1>4, <1>5, LeastOf
  <1> HIDE DEF q0
  <1>7. q0 \in o .. o + z - A /\ Bytes(m, q0, A) = a
    BY <1>6
  <1> HIDE DEF P, o, z
  <1>8. n \in Nat /\ o + n = q0 /\ n + L < z /\ n <= z - 1
    <2> HIDE DEF A, L
    <2> QED
      BY <1>1, <1>2, <1>4, <1>7
  <1>9. Holds(m, q0, a)
    <2>1. q0 \in Int
      BY <1>5, <1>6
    <2> SUFFICES ASSUME NEW i \in 1 .. A PROVE m[q0 + (i - 1)] = a[i]
      BY DEF Holds
    <2>2. Bytes(m, q0, A) = [j \in 1 .. A |-> m[q0 + j - 1]]
      BY DEF Bytes
    <2>3. Bytes(m, q0, A)[i] = m[q0 + i - 1]
      <3> HIDE DEF A, m
      <3> QED
        BY <2>2
    <2>4. (q0 + i) - 1 = q0 + (i - 1)
      BY <1>2, <2>1
    <2> HIDE DEF m, a, A
    <2> QED
      BY <1>7, <2>3, <2>4
  <1>10. fdt_string(b, n) = s
    <2>1. Holds(b.mem, b.off_dt_strings + n, Append(s, NUL)) /\ n + Len(s) < b.size_dt_strings
      BY <1>8, <1>9 DEF o, z
    <2> HIDE DEF m, a, L
    <2> QED
      BY <1>1, <1>8, <2>1, StringHeld
  <1> QED
    BY <1>1, <1>8, <1>10 DEF Added, z

LEMMA AddedNew ==
  ASSUME NEW b, Sound(b), NEW s \in Seq(Byte), \A i \in 1 .. Len(s) : s[i] # NUL,
         NEW k, Shift(b.mem, k, data_size(b), 0, Len(s) + 1, data_size(b)),
         data_size(b) + (Len(s) + 1) <= FDT_SIZE_MAX,
         NEW c, Sound(c), Wrote(k, c.mem, data_size(b), Append(s, NUL)),
         c.off_dt_struct = b.off_dt_struct, c.size_dt_struct = b.size_dt_struct,
         c.off_dt_strings = b.off_dt_strings,
         c.size_dt_strings = b.size_dt_strings + (Len(s) + 1)
  PROVE  Added(c, b, b.size_dt_strings, s)
  <1> DEFINE o == b.off_dt_strings
             z == b.size_dt_strings
             a == Append(s, NUL)
             L == Len(s)
             end == data_size(b)
             m == c.mem
  <1>1. o \in Nat /\ z \in Nat /\ end = o + z
    BY SoundBlock DEF Block, data_size
  <1>2. L \in Nat /\ Len(a) = L + 1 /\ a[L + 1] = NUL
    BY WithNul
  <1>3. Block(c, FDT_SIZE_MAX, c.size_dt_struct)
    BY SoundBlock
  <1>4. Holds(m, end, a) /\ \A i \in 0 .. FDT_SIZE_MAX - 1 : i < end => m[i] = k[i]
    <2> HIDE DEF a, end
    <2> QED
      BY <1>2 DEF Wrote, a, end
  <1>5. \A i \in 0 .. (end + (L + 1)) - 1 : k[i] = b.mem[i]
    BY DEF Shift
  <1> HIDE DEF end, L, o, z
  <1>6. end + (L + 1) <= FDT_SIZE_MAX /\ FDT_SIZE_MAX \in Nat
    BY Sizes DEF end, L
  <1>7. ASSUME NEW i \in 0 .. end - 1 PROVE m[i] = b.mem[i]
    <2>1. i \in 0 .. FDT_SIZE_MAX - 1 /\ i < end /\ i \in 0 .. (end + (L + 1)) - 1
      BY <1>1, <1>2, <1>6
    <2> HIDE DEF m
    <2> QED
      BY <1>4, <1>5, <2>1
  <1>8. c.off_dt_strings = o /\ c.size_dt_strings = z + (L + 1)
    BY DEF o, z, L
  <1>9. LastNul(c)
    <2>1. m[end + ((L + 1) - 1)] = a[L + 1]
      <3>1. L + 1 \in 1 .. L + 1
        BY <1>2
      <3> HIDE DEF a, m
      <3> QED
        BY <1>2, <1>4, <3>1 DEF Holds
    <2>2. end + ((L + 1) - 1) = c.off_dt_strings + c.size_dt_strings - 1
      BY <1>1, <1>2, <1>8
    <2> QED
      BY <1>2, <2>1, <2>2 DEF LastNul
  <1>10. fdt_string(c, z) = s
    <2>1. z + Len(s) < c.size_dt_strings /\ Holds(c.mem, c.off_dt_strings + z, Append(s, NUL))
      BY <1>1, <1>2, <1>4, <1>8 DEF L
    <2> HIDE DEF a, m
    <2> QED
      BY <1>1, <1>3, <2>1, StringHeld
  <1>11. z \in 0 .. c.size_dt_strings - 1 /\ c.size_dt_strings >= z
    BY <1>1, <1>2, <1>8
  <1> QED
    BY <1>7, <1>9, <1>10, <1>11 DEF Added, end, z

LEMMA FindAddIs ==
  ASSUME NEW b, NEW f, Kept(b, f), whole_mem_rsv_size(f) \in Nat, LastNul(b),
         NEW s \in Seq(Byte), \A i \in 1 .. Len(s) : s[i] # NUL,
         ~(find_add_string(b, s).ret < 0)
  PROVE  Added(find_add_string(b, s).fdt, b, find_add_string(b, s).ret, s)
  <1> DEFINE p == fdt_find_string(b.mem, b.off_dt_strings, b.size_dt_strings, s)
             end == data_size(b)
             newlen == Len(s) + 1
             a == Append(s, NUL)
             t == splice(b, end, 0, newlen)
             u == [t.fdt EXCEPT !.size_dt_strings = @ + newlen]
             c == [u EXCEPT !.mem = memcpy(@, end, a)]
             r == find_add_string(b, s)
  <1>1. Sound(b) /\ b \in BlobOf(FDT_SIZE_MAX) /\ Sound(r.fdt)
    BY FindAddStringKeeps DEF Kept, Sound, Keeps
  <1>2. r = IF p >= 0 THEN Done(b, p)
            ELSE IF t.ret < 0 THEN t ELSE Done(c, b.size_dt_strings)
    <2> DEFINE ss == splice_string(b, newlen)
    <2>1. ss = IF t.ret < 0 THEN t ELSE Done(u, 0)
      BY DEF splice_string, AndThen
    <2>2. r = IF p >= 0 THEN Done(b, p)
              ELSE IF ss.ret < 0 THEN ss
              ELSE Done([ss.fdt EXCEPT !.mem = memcpy(@, end, a)], b.size_dt_strings)
      BY DEF find_add_string, AndThen
    <2> HIDE DEF ss, t, u, p, r
    <2>3. CASE t.ret < 0
      BY <2>1, <2>2, <2>3
    <2>4. CASE ~(t.ret < 0)
      <3>1. ss.ret = 0 /\ ss.fdt = u
        BY <2>1, <2>4 DEF Done
      <3> QED
        BY <2>2, <2>4, <3>1
    <2> QED
      BY <2>3, <2>4
  <1>3. CASE p >= 0
    <2>1. Added(b, b, p, s)
      <3> HIDE DEF r
      <3> QED
        BY <1>1, <1>3, AddedOld
    <2>2. r.ret = p /\ r.fdt = b
      <3> HIDE DEF r, p, t, c
      <3> QED
        BY <1>2, <1>3 DEF Done
    <2> QED
      BY <2>1, <2>2
  <1>4. CASE ~(p >= 0)
    <2>1. ~(t.ret < 0) /\ r = Done(c, b.size_dt_strings)
      <3>1. ~(r.ret < 0)
        OBVIOUS
      <3> HIDE DEF r, p, t, c
      <3> QED
        BY <1>2, <1>4, <3>1
    <2>2. end \in Nat /\ newlen \in Nat /\ b.totalsize \in Nat /\ b.totalsize <= FDT_SIZE_MAX
          /\ FDT_SIZE_MAX \in Nat
      BY <1>1, Inside, WithNul, SoundFields, Sizes DEF Fields, Ordered
    <2>3. /\ t.fdt = [b EXCEPT !.mem = t.fdt.mem] /\ end + (newlen - 0) <= b.totalsize
          /\ Shift(b.mem, t.fdt.mem, end, 0, newlen, end)
      <3> HIDE DEF newlen
      <3>1. Moves(t, b, end, 0, newlen)
        <4> HIDE DEF end
        <4> QED
          BY <1>1, <2>1, <2>2, ShiftIs
      <3> QED
        BY <3>1 DEF Moves
    <2> DEFINE k == t.fdt.mem
               w == t.fdt
    <2>4. w = [b EXCEPT !.mem = k] /\ w.mem = k
      BY <2>3
    <2>5. u = [w EXCEPT !.size_dt_strings = @ + newlen]
      OBVIOUS
    <2>6. r.fdt = c /\ r.ret = b.size_dt_strings
      <3> HIDE DEF c, r
      <3> QED
        BY <2>1 DEF Done
    <2>7. Maps(k, 0 .. FDT_SIZE_MAX - 1, Byte)
      <3>1. Spliced(t, b, end, 0, newlen)
        <4> HIDE DEF end, newlen
        <4> QED
          BY <1>1, <2>2, SpliceIs
      <3>2. PICK l : t.fdt = [b EXCEPT !.mem = l] /\ Beyond(b.mem, l, end + newlen)
        <4> HIDE DEF t, end, newlen
        <4> QED
          BY <2>1, <3>1 DEF Spliced
      <3>3. k = l
        <4> HIDE DEF t
        <4> QED
          BY <1>1, <3>2 DEF BlobOf
      <3> QED
        BY <3>2, <3>3 DEF Beyond
    <2> HIDE DEF k, w, t, u
    <2>8. u.mem = k /\ u.off_dt_struct = b.off_dt_struct /\ u.size_dt_struct = b.size_dt_struct
          /\ u.off_dt_strings = b.off_dt_strings /\ u.size_dt_strings = b.size_dt_strings + newlen
          /\ DOMAIN u = DOMAIN b
      <3> HIDE DEF newlen
      <3> QED
        BY <1>1, <2>4, <2>5 DEF BlobOf
    <2>9. /\ c.mem = memcpy(k, end, a) /\ c.off_dt_struct = b.off_dt_struct
          /\ c.size_dt_struct = b.size_dt_struct /\ c.off_dt_strings = b.off_dt_strings
          /\ c.size_dt_strings = b.size_dt_strings + newlen
      <3> HIDE DEF newlen, a, end
      <3>1. "mem" \in DOMAIN u
        BY <1>1, <2>8 DEF BlobOf
      <3> QED
        BY <2>8, <3>1
    <2>10. Wrote(k, c.mem, end, a)
      <3>1. a \in Seq(Byte)
        BY WithNul
      <3> HIDE DEF a, end, c
      <3> QED
        BY <2>2, <2>7, <2>9, <3>1, WroteIs
    <2>11. end + newlen <= FDT_SIZE_MAX
      <3> HIDE DEF end, newlen
      <3> QED
        BY <2>2, <2>3
    <2>12. Sound(c) /\ Shift(b.mem, k, end, 0, newlen, end)
      BY <1>1, <2>3, <2>6 DEF k
    <2>13. Added(c, b, b.size_dt_strings, s)
      <3> HIDE DEF c, r, p
      <3> QED
        BY <1>1, <2>9, <2>10, <2>11, <2>12, AddedNew
    <2> HIDE DEF c, r
    <2> QED
      BY <2>6, <2>13 DEF r
  <1> QED
    BY <1>3, <1>4

-----------------------------------------------------------------------------
(* A property that is in the structure block. *)
LEMMA PropSays ==
  ASSUME NEW c, NEW M, NEW csize, Block(c, M, csize), NEW o \in Nat, NEW val \in Seq(Byte),
         NEW y, y = (o + PropSize) + Len(val), y <= csize,
         WordAt(c, o) = FDT_PROP, PropLen(c, o) = Len(val),
         NEW n \in 0 .. c.size_dt_strings - 1, PropNameOff(c, o) = n,
         Holds(c.mem, c.off_dt_struct + (o + PropSize), val), NEW p, fdt_string(c, n) = p
  PROVE  Says(c, csize, o, y, [tag |-> FDT_PROP, name |-> p, val |-> val])
  <1>1. /\ Len(val) \in Nat /\ PropSize \in Nat /\ PropSize > 0 /\ csize \in Nat
        /\ c.off_dt_struct \in Nat
    BY WithNul, Sizes DEF Block
  <1>2. y \in Nat /\ o < y /\ y \in o + 1 .. csize /\ o + PropSize <= y
    BY <1>1
  <1>3. Whole(c, o, y)
    BY <1>2 DEF Whole
  <1>4. PropValue(c, o) = val
    <2> DEFINE q == c.off_dt_struct + (o + PropSize)
    <2>1. q \in Int /\ (c.off_dt_struct + o) + PropSize = q
      BY <1>1
    <2>2. PropValue(c, o) = Bytes(c.mem, q, Len(val))
      BY <2>1 DEF PropValue
    <2>3. Holds(c.mem, q, val)
      OBVIOUS
    <2> HIDE DEF q
    <2> QED
      BY <2>1, <2>2, <2>3, BytesHeld
  <1>5. Item(c, o) = [tag |-> FDT_PROP, name |-> p, val |-> val]
    <2> DEFINE w == WordAt(c, o)
               nm == NameOf(c, o, y)
               st == fdt_string(c, PropNameOff(c, o))
               v == PropValue(c, o)
    <2>1. Item(c, o) = [tag |-> w, name |-> CASE w = FDT_BEGIN_NODE -> nm
                                             [] w = FDT_PROP -> st
                                             [] OTHER -> << >>,
                        val |-> IF w = FDT_PROP THEN v ELSE << >>]
      BY <1>2, <1>3, ItemIs
    <2>2. w = FDT_PROP /\ st = p /\ v = val /\ FDT_PROP # FDT_BEGIN_NODE
      BY <1>4, Codes
    <2> HIDE DEF w, nm, st, v
    <2> QED
      BY <2>1, <2>2
  <1> QED
    BY <1>2, <1>3, <1>5 DEF Says

(* Bytes at an offset are replaced, and then some of the new ones written. *)
Edit(b, c, x, y, d) ==
  /\ \A i \in 0 .. (b.off_dt_struct + x) - 1 : c.mem[i] = b.mem[i]
  /\ \A i \in b.off_dt_struct + y .. data_size(b) - 1 : c.mem[i + d] = b.mem[i]

LEMMA EditIs ==
  ASSUME NEW b, Sound(b), NEW m, NEW k, NEW c, NEW off \in Nat, NEW old \in Nat, NEW new \in Nat,
         Shift(b.mem, m, b.off_dt_struct + off, old, new, data_size(b)),
         data_size(b) + (new - old) <= FDT_SIZE_MAX,
         (b.off_dt_struct + off) + new <= FDT_SIZE_MAX,
         NEW w \in Nat, NEW s \in Seq(Byte), w + Len(s) <= off + new,
         NEW v \in Nat, NEW t \in Seq(Byte), v + Len(t) <= off + new,
         Wrote(m, k, b.off_dt_struct + w, s), Wrote(k, c.mem, b.off_dt_struct + v, t),
         NEW x \in Nat, x <= w, x <= v, x <= off + new
  PROVE  Edit(b, c, x, off + old, new - old)
  <1> DEFINE S == b.off_dt_struct
             D == 0 .. FDT_SIZE_MAX - 1
             end == data_size(b)
             p == S + w
             q == S + v
             z == c.mem
             d == new - old
             Ls == Len(s)
             Lt == Len(t)
  <1>1. S \in Nat /\ end \in Nat /\ FDT_SIZE_MAX \in Nat /\ Ls \in Nat /\ Lt \in Nat
    BY Inside, Sizes, WithNul
  <1>2. /\ \A i \in D : i < p \/ i >= p + Ls => k[i] = m[i]
        /\ \A i \in D : i < q \/ i >= q + Lt => z[i] = k[i]
    BY DEF Wrote
  <1>3. /\ \A i \in 0 .. ((S + off) + new) - 1 : m[i] = b.mem[i]
        /\ \A i \in (S + off) + old .. end - 1 : m[i + d] = b.mem[i]
    BY DEF Shift
  <1>4. /\ (S + off) + new <= FDT_SIZE_MAX /\ end + d <= FDT_SIZE_MAX
        /\ w + Ls <= off + new /\ v + Lt <= off + new
    OBVIOUS
  <1> HIDE DEF S, end, Ls, Lt, z
  <1>5. ASSUME NEW i \in 0 .. (S + x) - 1 PROVE z[i] = b.mem[i]
    <2>1. i \in D /\ i < p /\ i < q /\ i \in 0 .. ((S + off) + new) - 1
      BY <1>1, <1>4
    <2> QED
      BY <1>2, <1>3, <2>1
  <1>6. ASSUME NEW i \in S + (off + old) .. end - 1 PROVE z[i + d] = b.mem[i]
    <2> DEFINE j == i + d
    <2>1. i \in (S + off) + old .. end - 1
      BY <1>1
    <2>2. j \in D /\ j >= p + Ls /\ j >= q + Lt
      BY <1>1, <1>4
    <2>3. m[j] = b.mem[i]
      BY <1>3, <2>1
    <2> HIDE DEF j, d, p, q
    <2>4. z[j] = b.mem[i]
      BY <1>2, <2>2, <2>3
    <2> QED
      BY <2>4 DEF j
  <1> QED
    BY <1>5, <1>6 DEF Edit, S, end, z

(* The other tags and the strings are then where they were, or moved.      *)
LEMMA EditMoves ==
  ASSUME NEW b, Sound(b), NEW c, Sound(c), NEW x \in Nat, NEW y \in Nat, NEW d \in Int,
         x <= y, y <= b.size_dt_struct, Edit(b, c, x, y, d),
         c.off_dt_struct = b.off_dt_struct, c.off_dt_strings = b.off_dt_strings + d,
         c.size_dt_strings = b.size_dt_strings
  PROVE  /\ Moved(b, b.size_dt_struct, c, x, y, d) /\ SameStrings(b, c)
         /\ LastNul(b) => LastNul(c)
  <1> DEFINE S == b.off_dt_struct
             T == b.off_dt_strings
             z == b.size_dt_strings
             size == b.size_dt_struct
             end == data_size(b)
  <1>1. /\ S \in Nat /\ T \in Nat /\ z \in Nat /\ size \in Nat /\ end = T + z /\ S + size <= T
    BY SoundFields DEF Fields, Ordered, data_size
  <1>2. /\ \A i \in 0 .. (S + x) - 1 : c.mem[i] = b.mem[i]
        /\ \A i \in S + y .. end - 1 : c.mem[i + d] = b.mem[i]
    BY DEF Edit
  <1>3. c.off_dt_struct = S /\ c.off_dt_strings = T + d /\ c.size_dt_strings = z /\ y <= size
    OBVIOUS
  <1> HIDE DEF S, T, z, size, end
  <1>4. ASSUME NEW q \in 0 .. x - 1 PROVE c.mem[S + q] = b.mem[S + q]
    <2>1. S + q \in 0 .. (S + x) - 1
      BY <1>1
    <2> QED
      BY <1>2, <2>1
  <1>5. ASSUME NEW q \in y .. size - 1 PROVE c.mem[S + (q + d)] = b.mem[S + q]
    <2>1. S + q \in S + y .. end - 1 /\ (S + q) + d = S + (q + d)
      BY <1>1
    <2> QED
      BY <1>2, <2>1
  <1>6. ASSUME NEW i \in 0 .. z - 1 PROVE c.mem[(T + d) + i] = b.mem[T + i]
    <2>1. T + i \in S + y .. end - 1 /\ (T + i) + d = (T + d) + i
      BY <1>1, <1>3
    <2> QED
      BY <1>2, <2>1
  <1>7. Moved(b, size, c, x, y, d)
    BY <1>3, <1>4, <1>5 DEF Moved, S
  <1>8. SameStrings(b, c)
    <2>1. z >= z
      BY <1>1
    <2> QED
      BY <1>3, <1>6, <2>1 DEF SameStrings, z, T
  <1>9. ASSUME LastNul(b) PROVE LastNul(c)
    <2> SUFFICES ASSUME z > 0 PROVE c.mem[(T + d) + z - 1] = NUL
      BY <1>3 DEF LastNul
    <2>1. z - 1 \in 0 .. z - 1 /\ (T + d) + (z - 1) = (T + d) + z - 1 /\ T + (z - 1) = T + z - 1
      BY <1>1
    <2>2. b.mem[T + z - 1] = NUL
      BY <1>9 DEF LastNul, T, z
    <2> QED
      BY <1>6, <2>1, <2>2
  <1> QED
    BY <1>7, <1>8, <1>9 DEF size

-----------------------------------------------------------------------------
(* A tag is put in the place of none or of one.                            *)
FieldsMoved(c, b, d) ==
  /\ c.off_dt_struct = b.off_dt_struct /\ c.off_dt_strings = b.off_dt_strings + d
  /\ c.size_dt_strings = b.size_dt_strings /\ c.size_dt_struct = b.size_dt_struct + d

Edits(b, c, n, at, ends, items, k, s, d, g, x, z, y, it, m, citems) ==
  /\ Sound(b) /\ Sound(c) /\ Tells(b, b.size_dt_struct, n, at, ends, items)
  /\ k \in Nat /\ s \in {0, 1} /\ k >= 1 /\ (k + 2) - s <= n /\ k < n
  /\ d \in Int /\ g \in Int /\ d = g * FDT_TAGSIZE /\ FieldsMoved(c, b, d)
  /\ x = at[k + 1] /\ z = at[(k + 2) - s] /\ Edit(b, c, x, z, d)
  /\ it.tag # FDT_END /\ FDT_TAGALIGN(y) = z + d
  /\ SameNames(b, c) => Says(c, c.size_dt_struct, x, y, it)
  /\ m = n + s /\ citems = Put(items, n, k, s, it)

Retold(c, m, at, k, citems) ==
  \E cat, cends : /\ Tells(c, c.size_dt_struct, m, cat, cends, citems)
                  /\ \A i \in 1 .. k : cat[i] = at[i]

LEMMA EditTells ==
  ASSUME NEW b, NEW c, NEW n, NEW at, NEW ends, NEW items, NEW k, NEW s, NEW d, NEW g, NEW x,
         NEW z, NEW y, NEW it, NEW m, NEW citems,
         Edits(b, c, n, at, ends, items, k, s, d, g, x, z, y, it, m, citems)
  PROVE  /\ SameStrings(b, c)
         /\ \E cat, cends : /\ Tells(c, c.size_dt_struct, m, cat, cends, citems)
                            /\ \A i \in 1 .. k : cat[i] = at[i]
  <1> USE DEF Edits
  <1>0. /\ c.off_dt_struct = b.off_dt_struct /\ c.off_dt_strings = b.off_dt_strings + d
        /\ c.size_dt_strings = b.size_dt_strings /\ c.size_dt_struct = b.size_dt_struct + d
    BY DEF FieldsMoved
  <1>1. Block(b, FDT_SIZE_MAX, b.size_dt_struct) /\ Block(c, FDT_SIZE_MAX, c.size_dt_struct)
    BY SoundBlock
  <1>2. /\ \A i \in 1 .. n : at[i] \in Nat /\ at[i] < ends[i] /\ ends[i] <= b.size_dt_struct
        /\ \A j \in 1 .. n : \A i \in 1 .. j : at[i] <= at[j]
    BY <1>1, TellsOrder
  <1>3. n \in Nat /\ k + 1 \in 1 .. n /\ (k + 2) - s \in 1 .. n /\ k + 1 \in 1 .. (k + 2) - s
    BY DEF Tells
  <1>4. x \in Nat /\ z \in Nat /\ x <= z
    BY <1>2, <1>3
  <1>5. z <= b.size_dt_struct
    <2> DEFINE e == ends[(k + 2) - s]
    <2>1. z < e /\ e <= b.size_dt_struct /\ b.size_dt_struct \in Nat /\ e \in Nat
      BY <1>1, <1>2, <1>3 DEF Tells, Maps, Block
    <2> HIDE DEF e
    <2> QED
      BY <1>4, <2>1
  <1>6. LastNul(b)
    BY DEF Tells
  <1>9. Moved(b, b.size_dt_struct, c, x, z, d) /\ SameStrings(b, c) /\ LastNul(c)
    BY <1>0, <1>4, <1>5, <1>6, EditMoves
  <1>10. SameNames(b, c)
    BY <1>1, <1>6, <1>9, SameStringsNames
  <1>11. c.size_dt_strings >= b.size_dt_strings
    BY <1>9 DEF SameStrings
  <1>12. Says(c, c.size_dt_struct, at[k + 1], y, it)
    BY <1>10
  <1>13. Moved(b, b.size_dt_struct, c, at[k + 1], at[(k + 2) - s], d)
    BY <1>9
  <1>14. FDT_TAGALIGN(y) = at[(k + 2) - s] + d
    OBVIOUS
  <1>15. \E cat, cends :
           /\ Tells(c, c.size_dt_struct, n + s, cat, cends, Put(items, n, k, s, it))
           /\ \A i \in 1 .. k : cat[i] = at[i]
    BY <1>0, <1>1, <1>9, <1>10, <1>11, <1>12, <1>13, <1>14, TellsPut
  <1> QED
    BY <1>9, <1>15

(* What is read of a property whose value is replaced.                     *)
Rewritten(b, m, k, c, prop, old, new, q, end, val, p, w) ==
  /\ Sound(b) /\ c.off_dt_struct = b.off_dt_struct
  /\ prop \in Nat /\ old \in Nat /\ new \in Nat
  /\ q = b.off_dt_struct + (prop + PropSize)
  /\ end = data_size(b) /\ Shift(b.mem, m, q, old, new, end)
  /\ q + new <= FDT_SIZE_MAX /\ val \in Seq(Byte) /\ Len(val) <= new
  /\ p = b.off_dt_struct + (prop + FDT_TAGSIZE)
  /\ w = cpu_to_fdt32(Len(val)) /\ Wrote(m, k, p, w) /\ Wrote(k, c.mem, q, val)

LEMMA OldWords ==
  ASSUME NEW b, NEW m, NEW k, NEW c, NEW prop, NEW old, NEW new, NEW q, NEW end, NEW val,
         NEW p, NEW w, Rewritten(b, m, k, c, prop, old, new, q, end, val, p, w)
  PROVE  /\ WordAt(c, prop) = WordAt(b, prop) /\ PropNameOff(c, prop) = PropNameOff(b, prop)
         /\ PropLen(c, prop) = Len(val)
         /\ Holds(c.mem, c.off_dt_struct + (prop + PropSize), val)
  <1> DEFINE S == b.off_dt_struct
             D == 0 .. FDT_SIZE_MAX - 1
             T == FDT_TAGSIZE
             z == c.mem
             L == Len(val)
  <1> USE DEF Rewritten
  <1>0. p = S + (prop + T) /\ q = S + (prop + PropSize)
    OBVIOUS
  <1>1. S \in Nat /\ FDT_SIZE_MAX \in Nat /\ L \in Nat /\ T \in Nat /\ T > 1 /\ PropSize = 3 * T
    BY Inside, Sizes, WithNul
  <1>2. L < WordBase /\ L <= FDT_SIZE_MAX
    BY <1>1, WordBaseIs
  <1>3. Len(w) = T
    BY <1>1, <1>2, Cpu32Is
  <1>4. q + L <= FDT_SIZE_MAX /\ p + T <= q /\ q + new <= FDT_SIZE_MAX /\ p \in Nat /\ q \in Nat
    <2>1. L <= new /\ q + new <= FDT_SIZE_MAX /\ new \in Nat /\ prop \in Nat
      BY DEF L
    <2> HIDE DEF S, T, L, Rewritten
    <2>2. p \in Nat /\ q \in Nat /\ p + T <= q
      BY <1>0, <1>1, <2>1
    <2> QED
      BY <1>1, <2>1, <2>2
  <1>5. /\ Holds(k, p, w) /\ Holds(z, q, val)
        /\ \A i \in D : i < p \/ i >= p + T => k[i] = m[i]
        /\ \A i \in D : i < q \/ i >= q + L => z[i] = k[i]
    <2>1. p + T <= FDT_SIZE_MAX
      <3> HIDE DEF S, T, L
      <3> QED
        BY <1>0, <1>1, <1>4
    <2>2. Wrote(m, k, p, w) /\ Wrote(k, z, q, val)
      OBVIOUS
    <2> HIDE DEF S, T, L, z, D
    <2>3. p + Len(w) <= FDT_SIZE_MAX
      BY <1>3, <2>1
    <2>4. q + Len(val) <= FDT_SIZE_MAX
      BY <1>4 DEF L
    <2> QED
      BY <1>3, <2>2, <2>3, <2>4 DEF Wrote, D, L
  <1>6. \A i \in 0 .. (q + new) - 1 : m[i] = b.mem[i]
    BY DEF Shift
  <1> HIDE DEF S, T, L, z
  <1>7. ASSUME NEW i \in S + prop .. q - 1, i < p \/ i >= p + T PROVE z[i] = b.mem[i]
    <2>1. i \in D /\ i < q /\ i \in 0 .. (q + new) - 1
      <3>1. prop \in Nat /\ new \in Nat
        OBVIOUS
      <3>2. S + prop \in Nat
        BY <1>1, <3>1
      <3> HIDE DEF Rewritten
      <3>3. PICK y : y = S + prop
        OBVIOUS
      <3>4. i \in Int /\ y <= i /\ i < q /\ y \in Nat
        BY <1>4, <3>2, <3>3
      <3> QED
        BY <1>1, <1>4, <3>1, <3>4
    <2> QED
      BY <1>5, <1>6, <1>7, <2>1
  <1>8. WordAt(c, prop) = WordAt(b, prop)
    <2>1. ASSUME NEW j \in 0 .. T - 1 PROVE z[(S + prop) + j] = b.mem[(S + prop) + j]
      <3> DEFINE i == (S + prop) + j
      <3>1. i \in S + prop .. q - 1 /\ i < p
        BY <1>0, <1>1
      <3> HIDE DEF i
      <3>2. z[i] = b.mem[i]
        BY <1>7, <3>1
      <3> QED
        BY <3>2 DEF i
    <2>2. SameBytes(b, prop, c, prop, T)
      BY <2>1 DEF SameBytes, S, z
    <2>3. WordAt(c, prop + 0) = WordAt(b, prop + 0)
      <3>1. 0 \in Nat /\ 0 + FDT_TAGSIZE <= T
        BY <1>1 DEF T
      <3>2. T \in Nat /\ b.off_dt_struct \in Nat /\ c.off_dt_struct \in Nat
        BY <1>1 DEF S
      <3> QED
        BY <2>2, <3>1, <3>2, SameWord
    <2>4. prop + 0 = prop
      OBVIOUS
    <2> QED
      BY <2>3, <2>4
  <1>9. PropNameOff(c, prop) = PropNameOff(b, prop)
    <2> DEFINE o == prop + 2 * T
    <2>1. ASSUME NEW j \in 0 .. T - 1 PROVE z[(S + o) + j] = b.mem[(S + o) + j]
      <3> DEFINE i == (S + o) + j
      <3>1. i \in S + prop .. q - 1 /\ i >= p + T
        BY <1>0, <1>1
      <3> HIDE DEF i
      <3>2. z[i] = b.mem[i]
        BY <1>7, <3>1
      <3> QED
        BY <3>2 DEF i
    <2>2. o \in Nat /\ o + 0 = o
      BY <1>1
    <2> HIDE DEF o
    <2>3. SameBytes(b, o, c, o, T)
      BY <2>1 DEF SameBytes, S, z
    <2>4. WordAt(c, o + 0) = WordAt(b, o + 0)
      <3>1. 0 \in Nat /\ 0 + FDT_TAGSIZE <= T
        BY <1>1 DEF T
      <3>2. T \in Nat /\ b.off_dt_struct \in Nat /\ c.off_dt_struct \in Nat
        BY <1>1 DEF S
      <3> QED
        BY <2>2, <2>3, <3>1, <3>2, SameWord
    <2>5. WordAt(c, o) = WordAt(b, o)
      BY <2>2, <2>4
    <2> QED
      BY <2>5 DEF PropNameOff, o, T
  <1>10. PropLen(c, prop) = L
    <2>1. ASSUME NEW j \in 1 .. Len(w) PROVE z[p + (j - 1)] = w[j]
      <3> DEFINE i == p + (j - 1)
      <3>1. i \in D /\ i < q
        <4> HIDE DEF Rewritten
        <4> QED
          BY <1>1, <1>3, <1>4
      <3>2. k[i] = w[j]
        BY <1>5 DEF Holds
      <3> HIDE DEF i
      <3>3. z[i] = k[i]
        BY <1>5, <3>1
      <3> QED
        BY <3>2, <3>3 DEF i
    <2>2. Holds(z, p, w)
      BY <2>1 DEF Holds
    <2>3. Holds(c.mem, c.off_dt_struct + (prop + FDT_TAGSIZE), cpu_to_fdt32(L))
      BY <2>2 DEF z, S, T, L
    <2>4. c.off_dt_struct \in Nat /\ prop + FDT_TAGSIZE \in Int
      BY <1>1 DEF S, T
    <2>5. WordAt(c, prop + FDT_TAGSIZE) = L
      BY <1>1, <1>2, <2>3, <2>4, WordHeld
    <2> QED
      BY <2>5 DEF PropLen
  <1>11. Holds(c.mem, c.off_dt_struct + (prop + PropSize), val)
    BY <1>5 DEF z, S
  <1> QED
    BY <1>8, <1>9, <1>10, <1>11 DEF L

-----------------------------------------------------------------------------
(* The property has a new value.                                           *)
Resizing(b, f, n, at, ends, items, K, val, prop, r, e, c) ==
  /\ Kept(b, f) /\ whole_mem_rsv_size(f) \in Nat
  /\ Tells(b, b.size_dt_struct, n, at, ends, items) /\ K \in 2 .. n
  /\ items[K].tag = FDT_PROP /\ val \in Seq(Byte) /\ prop = at[K]
  /\ r = splice_struct(b, prop + PropSize, FDT_TAGALIGN(PropLen(b, prop)), FDT_TAGALIGN(Len(val)))
  /\ ~(r.ret < 0)
  /\ e = Write(r.fdt, prop + FDT_TAGSIZE, cpu_to_fdt32(Len(val)))
  /\ c = Write(e, prop + PropSize, val)

LEMMA ResizedTells ==
  ASSUME NEW b, NEW f, NEW n, NEW at, NEW ends, NEW items, NEW K, NEW val, NEW prop, NEW r,
         NEW e, NEW c, Resizing(b, f, n, at, ends, items, K, val, prop, r, e, c)
  PROVE  /\ Retold(c, n, at, K - 1,
                   Put(items, n, K - 1, 0, [tag |-> FDT_PROP, name |-> items[K].name, val |-> val]))
         /\ SameStrings(b, c)
         /\ FieldsMoved(c, b, FDT_TAGALIGN(Len(val)) - FDT_TAGALIGN(PropLen(b, prop)))
  <1> DEFINE old == FDT_TAGALIGN(PropLen(b, prop))
             new == FDT_TAGALIGN(Len(val))
             d == new - old
             S == b.off_dt_struct
             size == b.size_dt_struct
             L == Len(val)
             a == r.fdt
             y == (prop + PropSize) + L
             off == prop + PropSize
             T == FDT_TAGSIZE
             w == cpu_to_fdt32(L)
             nm == items[K].name
             next == at[K + 1]
  <1> USE DEF Resizing
  <1>1. Sound(b) /\ Block(b, FDT_SIZE_MAX, size)
    BY SoundBlock DEF Kept
  <1>2. K \in 1 .. n /\ K + 1 \in 1 .. n /\ K < n /\ n \in Nat
    <2>1. n \in Nat /\ items[n].tag = FDT_END
      BY DEF Tells
    <2> QED
      BY <2>1, Codes
  <1>3. /\ prop \in Aligned /\ next \in Nat /\ next < size
        /\ Said(b, prop, ends[K], items[K]) /\ next = FDT_TAGALIGN(ends[K])
    <2>1. \A i \in 1 .. n : /\ at[i] \in Nat /\ at[i] \in Aligned /\ at[i] < ends[i]
                            /\ ends[i] \in Nat /\ ends[i] <= size
                            /\ Said(b, at[i], ends[i], items[i])
      BY <1>1, TellsOrder
    <2>2. K \in 1 .. n - 1
      BY <1>2
    <2>3. next = FDT_TAGALIGN(ends[K])
      BY <2>2 DEF Tells
    <2>4. next \in Nat /\ next < ends[K + 1] /\ ends[K + 1] <= size /\ ends[K + 1] \in Nat
      BY <1>2, <2>1
    <2>5. size \in Nat
      BY <1>1 DEF Block
    <2> HIDE DEF next
    <2>6. next < size
      BY <2>4, <2>5
    <2> QED
      BY <1>2, <2>1, <2>3, <2>4, <2>6
  <1>4. /\ PropLen(b, prop) \in Nat /\ (prop + PropSize) + PropLen(b, prop) = ends[K]
        /\ WordAt(b, prop) = FDT_PROP /\ nm = PropName(b, prop)
    BY <1>3 DEF Said
  <1>5. /\ prop \in Nat /\ S \in Nat /\ size \in Nat /\ L \in Nat /\ T \in Nat /\ T > 1
        /\ PropSize = 3 * T /\ PropSize \in Nat /\ off \in Nat /\ FDT_SIZE_MAX \in Nat
    <2>1. prop \in Nat /\ L \in Nat
      BY <1>3, AlignedNat, WithNul
    <2>2. S \in Nat /\ size \in Nat
      BY <1>1 DEF Block
    <2>3. /\ T \in Nat /\ T > 1 /\ PropSize = 3 * T /\ PropSize \in Nat
          /\ FDT_SIZE_MAX \in Nat
      BY Sizes
    <2>4. off \in Nat
      BY <2>1, <2>3
    <2> QED
      BY <2>1, <2>2, <2>3, <2>4
  <1>6. PICK j \in Nat : prop = j * T
    BY <1>3 DEF Aligned
  <1>7. off = (j + 3) * T
    BY <1>5, <1>6
  <1>8. old \in Nat /\ new \in Nat /\ old \in Aligned /\ new \in Aligned /\ L <= new
    BY <1>4, <1>5, TagAlign
  <1>9. PICK g \in Int : d = g * T
    <2>1. PICK u \in Nat : old = u * T
      BY <1>8 DEF Aligned
    <2>2. PICK v \in Nat : new = v * T
      BY <1>8 DEF Aligned
    <2>3. d = (v - u) * T /\ v - u \in Int
      <3> HIDE DEF old, new
      <3> QED
        BY <1>5, <2>1, <2>2
    <2> QED
      BY <2>3
  <1>10. next = off + old /\ FDT_TAGALIGN(y) = off + new
    <2> DEFINE pl == PropLen(b, prop)
               h == j + 3
    <2>1. pl \in Nat /\ h \in Int /\ off = h * FDT_TAGSIZE /\ pl + off \in Nat /\ L + off \in Nat
      <3>1. pl \in Nat /\ h \in Int
        BY <1>4
      <3>2. off = h * FDT_TAGSIZE
        BY <1>7
      <3> HIDE DEF pl, h, off, L
      <3> QED
        BY <1>5, <3>1, <3>2
    <2>2. pl + off = ends[K] /\ L + off = y
      BY <1>4, <1>5
    <2> HIDE DEF pl, h, off, L, y
    <2>3. FDT_TAGALIGN(pl + off) = FDT_TAGALIGN(pl) + off
      BY <2>1, TagShift
    <2>4. L \in Nat
      BY <1>5
    <2>5. FDT_TAGALIGN(L + off) = FDT_TAGALIGN(L) + off
      BY <2>1, <2>4, TagShift
    <2>6. old = FDT_TAGALIGN(pl) /\ new = FDT_TAGALIGN(L)
      BY DEF pl, L
    <2>7. off \in Nat
      BY <1>5
    <2> HIDE DEF old, new, next
    <2>8. next = old + off /\ FDT_TAGALIGN(y) = new + off
      BY <1>3, <2>2, <2>3, <2>5, <2>6
    <2> QED
      BY <1>8, <2>7, <2>8
  <1>11. size + d > 0
    <2> HIDE DEF off, size, old, new, next
    <2> QED
      BY <1>3, <1>5, <1>8, <1>10
  <1>12. r = splice_struct(b, off, old, new) /\ ~(r.ret < 0)
    OBVIOUS
  <1>13. Kept(a, f) /\ Kept(e, f) /\ Kept(c, f)
    <2>1. Keeps(splice_struct(b, off, old, new), f)
      <3>1. off \in Nat /\ old \in Nat /\ new \in Nat /\ b.size_dt_struct + (new - old) > 0
        BY <1>5, <1>8, <1>11
      <3> HIDE DEF off, old, new
      <3> QED
        BY <3>1, SpliceStructKeeps
    <2>2. Kept(a, f)
      BY <1>12, <2>1 DEF Keeps
    <2>3. prop + T \in Nat /\ cpu_to_fdt32(Len(val)) \in Seq(Byte)
      <3>1. Len(val) \in Int /\ prop + T \in Nat
        BY <1>5
      <3> QED
        BY <3>1, Cpu32Type
    <2>4. Kept(e, f)
      BY <2>2, <2>3, WriteKeeps DEF T
    <2>5. Kept(c, f)
      BY <1>5, <2>4, WriteKeeps
    <2> QED
      BY <2>2, <2>4, <2>5
  <1>14. Sound(a) /\ Sound(e) /\ Sound(c)
    BY <1>13 DEF Kept
  <1>15. Resized(a, b, off, old, new)
    <2> HIDE DEF off, old, new
    <2> QED
      BY <1>1, <1>5, <1>8, <1>12, ResizedIs
  <1>16. Written(e, a, S + (prop + T), w) /\ Written(c, e, S + off, val)
    <2>1. a.off_dt_struct = S
      BY <1>15 DEF Resized
    <2>2. prop + T \in Nat /\ w \in Seq(Byte)
      <3>1. Len(val) \in Int /\ prop + T \in Nat
        BY <1>5
      <3> QED
        BY <3>1, Cpu32Type
    <2>3. e = Write(a, prop + T, w) /\ c = Write(e, off, val)
      OBVIOUS
    <2> HIDE DEF T, w, a, off, S
    <2>4. Written(e, a, a.off_dt_struct + (prop + T), w)
      BY <1>14, <2>2, <2>3, WrittenIs
    <2>5. e.off_dt_struct = S
      BY <2>1, <2>4 DEF Written, SameFields
    <2>6. Written(c, e, e.off_dt_struct + off, val)
      BY <1>5, <1>14, <2>3, WrittenIs
    <2> QED
      BY <2>1, <2>4, <2>5, <2>6
  <1>17. /\ Shift(b.mem, a.mem, S + off, old, new, data_size(b))
         /\ Wrote(a.mem, e.mem, S + (prop + T), w) /\ Wrote(e.mem, c.mem, S + off, val)
         /\ c.off_dt_struct = S /\ c.size_dt_struct = size + d
         /\ c.off_dt_strings = b.off_dt_strings + d /\ c.size_dt_strings = b.size_dt_strings
    BY <1>15, <1>16 DEF Resized, Written, SameFields
  <1>18. data_size(b) + d <= FDT_SIZE_MAX /\ (S + off) + new <= FDT_SIZE_MAX
    <2>1. /\ data_size(c) <= FDT_SIZE_MAX /\ S + c.size_dt_struct <= FDT_SIZE_MAX
      BY <1>14, <1>17, Inside, SoundBlock DEF Block
    <2>2. b.off_dt_strings \in Nat /\ b.size_dt_strings \in Nat
      BY <1>1 DEF Block
    <2> HIDE DEF S, size, off, old, new, next
    <2>3. data_size(c) = data_size(b) + d
      BY <1>8, <1>17, <2>2 DEF data_size
    <2>4. (S + off) + new <= S + (size + d)
      BY <1>3, <1>5, <1>8, <1>10
    <2>5. (S + off) + new \in Int /\ S + (size + d) \in Int
      BY <1>5, <1>8
    <2> QED
      BY <1>5, <1>17, <2>1, <2>3, <2>4, <2>5
  <1>19. Edit(b, c, prop, next, d)
    <2>1. /\ prop + T \in Nat /\ w \in Seq(Byte) /\ (prop + T) + Len(w) <= off + new
          /\ off + L <= off + new /\ prop <= prop + T /\ prop <= off /\ prop <= off + new
      <3>1. L < WordBase
        <4>1. L <= new /\ (S + off) + new <= FDT_SIZE_MAX
          BY <1>8, <1>18
        <4> HIDE DEF S, off, new, L
        <4> QED
          BY <1>5, <1>8, <4>1, WordBaseIs
      <3>2. Len(w) = T /\ w \in Seq(Byte)
        BY <1>5, <3>1, Cpu32Is
      <3> HIDE DEF w, new, old, L
      <3>3. off = prop + 3 * T
        BY <1>5
      <3> HIDE DEF T, off
      <3>4. new \in Nat /\ L <= new /\ L \in Nat /\ T \in Nat /\ T > 1 /\ prop \in Nat
        BY <1>5, <1>8
      <3>5. /\ prop + T \in Nat /\ (prop + T) + T <= off + new
            /\ prop <= prop + T /\ prop <= off /\ prop <= off + new
        BY <3>3, <3>4
      <3>6. off + L <= off + new
        BY <3>3, <3>4
      <3> QED
        BY <3>2, <3>5, <3>6
    <2>2. data_size(b) + (new - old) <= FDT_SIZE_MAX
      BY <1>18
    <2>3. off + Len(val) <= off + new
      BY <2>1
    <2>4. Edit(b, c, prop, off + old, new - old)
      <3>1. /\ Shift(b.mem, a.mem, b.off_dt_struct + off, old, new, data_size(b))
            /\ (b.off_dt_struct + off) + new <= FDT_SIZE_MAX
            /\ Wrote(a.mem, e.mem, b.off_dt_struct + (prop + T), w)
            /\ Wrote(e.mem, c.mem, b.off_dt_struct + off, val)
        BY <1>17, <1>18
      <3> DEFINE ww == prop + T
      <3>2. ww \in Nat /\ ww + Len(w) <= off + new /\ prop <= ww
            /\ Wrote(a.mem, e.mem, b.off_dt_struct + ww, w)
        BY <2>1, <3>1
      <3>3. off \in Nat /\ old \in Nat /\ new \in Nat /\ prop \in Nat /\ w \in Seq(Byte)
            /\ prop <= off /\ prop <= off + new
        BY <1>5, <1>8, <2>1
      <3> HIDE DEF off, old, new, w, ww, a, T
      <3> QED
        BY <1>1, <2>2, <2>3, <3>1, <3>2, <3>3, EditIs
    <2> HIDE DEF off, old, new
    <2> QED
      BY <1>10, <2>4
  <1>20. /\ WordAt(c, prop) = WordAt(b, prop) /\ PropNameOff(c, prop) = PropNameOff(b, prop)
         /\ PropLen(c, prop) = L /\ Holds(c.mem, c.off_dt_struct + off, val)
    <2>1. PICK q : q = S + off
      OBVIOUS
    <2>2. PICK p : p = S + (prop + T)
      OBVIOUS
    <2>3. PICK end : end = data_size(b)
      OBVIOUS
    <2>4. /\ Shift(b.mem, a.mem, q, old, new, end) /\ q + new <= FDT_SIZE_MAX
          /\ Wrote(a.mem, e.mem, p, w) /\ Wrote(e.mem, c.mem, q, val)
          /\ c.off_dt_struct = b.off_dt_struct
      BY <1>17, <1>18, <2>1, <2>2, <2>3
    <2>5. /\ q = b.off_dt_struct + (prop + PropSize) /\ p = b.off_dt_struct + (prop + FDT_TAGSIZE)
          /\ w = cpu_to_fdt32(Len(val))
      BY <2>1, <2>2
    <2>6. Len(val) <= new /\ prop \in Nat /\ old \in Nat /\ new \in Nat /\ Sound(b)
      BY <1>1, <1>5, <1>8
    <2> HIDE DEF old, new, a, w
    <2>7. /\ WordAt(c, prop) = WordAt(b, prop) /\ PropNameOff(c, prop) = PropNameOff(b, prop)
          /\ PropLen(c, prop) = Len(val)
          /\ Holds(c.mem, c.off_dt_struct + (prop + PropSize), val)
      <3>1. Rewritten(b, a.mem, e.mem, c, prop, old, new, q, end, val, p, w)
        BY <2>3, <2>4, <2>5, <2>6 DEF Rewritten
      <3> QED
        BY <3>1, OldWords
    <2> QED
      BY <2>7
  <1> DEFINE it == [tag |-> FDT_PROP, name |-> nm, val |-> val]
  <1>21. ASSUME SameNames(b, c) PROVE Says(c, c.size_dt_struct, prop, y, it)
    <2> DEFINE no == PropNameOff(b, prop)
    <2>1. no \in 0 .. b.size_dt_strings - 1
      <3>1. Says(b, size, at[K], ends[K], items[K])
        BY <1>2 DEF Tells
      <3> QED
        BY <1>4, <3>1 DEF Says
    <2>2. fdt_string(c, no) = nm /\ no \in 0 .. c.size_dt_strings - 1 /\ PropNameOff(c, prop) = no
      BY <1>4, <1>17, <1>20, <1>21, <2>1 DEF SameNames, PropName
    <2>3. y <= c.size_dt_struct
      <3> HIDE DEF S, size, off, old, new, next, L
      <3>1. y = off + L
        BY DEF off
      <3> HIDE DEF y, Resizing
      <3>2. off \in Nat /\ L \in Nat /\ L <= new /\ new \in Nat /\ old \in Nat /\ next < size
            /\ next = off + old /\ size \in Nat
        BY <1>3, <1>5, <1>8, <1>10
      <3>3. c.size_dt_struct = size + (new - old)
        BY <1>17
      <3> QED
        BY <3>1, <3>2, <3>3
    <2>4. Block(c, FDT_SIZE_MAX, c.size_dt_struct)
      BY <1>14, SoundBlock
    <2>5. /\ WordAt(c, prop) = FDT_PROP /\ PropLen(c, prop) = Len(val)
          /\ Holds(c.mem, c.off_dt_struct + (prop + PropSize), val)
      BY <1>4, <1>20
    <2>6. y = (prop + PropSize) + Len(val) /\ prop \in Nat
      BY <1>5
    <2> HIDE DEF no, y, nm, off
    <2> QED
      BY <2>2, <2>3, <2>4, <2>5, <2>6, PropSays
  <1>22. PICK k : k = K - 1
    OBVIOUS
  <1>23. /\ k \in Nat /\ k >= 1 /\ (k + 2) - 0 <= n /\ k < n /\ k + 1 = K /\ (k + 2) - 0 = K + 1
         /\ 0 \in {0, 1} /\ n = n + 0
    BY <1>2, <1>22
  <1>24. prop = at[k + 1] /\ next = at[(k + 2) - 0]
    BY <1>23
  <1>25. FDT_TAGALIGN(y) = next + d
    <2> HIDE DEF off, old, new, y, next
    <2> QED
      BY <1>5, <1>8, <1>10
  <1>26. it.tag # FDT_END /\ d \in Int /\ d = g * FDT_TAGSIZE
    <2>1. it.tag = FDT_PROP
      OBVIOUS
    <2>2. d \in Int
      <3> HIDE DEF old, new
      <3> QED
        BY <1>8
    <2>3. d = g * FDT_TAGSIZE
      BY <1>9
    <2> HIDE DEF it, d
    <2> QED
      BY <2>1, <2>2, <2>3, Codes
  <1>27. FieldsMoved(c, b, d)
    BY <1>17 DEF FieldsMoved
  <1>28. PICK citems : citems = Put(items, n, k, 0, it)
    OBVIOUS
  <1> HIDE DEF d, y, it, next
  <1>29. /\ SameStrings(b, c)
         /\ \E cat, cends : /\ Tells(c, c.size_dt_struct, n, cat, cends, citems)
                            /\ \A i \in 1 .. k : cat[i] = at[i]
    <2>1. Edits(b, c, n, at, ends, items, k, 0, d, g, prop, next, y, it, n, citems)
      BY <1>1, <1>14, <1>19, <1>21, <1>23, <1>24, <1>25, <1>26, <1>27, <1>28 DEF Edits
    <2> QED
      BY <2>1, EditTells
  <1> QED
    BY <1>22, <1>27, <1>28, <1>29 DEF it, Retold, d

-----------------------------------------------------------------------------
(* A property that is added.                                               *)
LEMMA HoldsCat ==
  ASSUME NEW m, NEW p \in Int, NEW s \in Seq(Byte), NEW t \in Seq(Byte), Holds(m, p, s \o t)
  PROVE  /\ Holds(m, p, s) /\ Holds(m, p + Len(s), t)
         /\ s \o t \in Seq(Byte) /\ Len(s \o t) = Len(s) + Len(t)
  <1> DEFINE B == Byte
             u == s \o t
  <1>1. s \in Seq(B) /\ t \in Seq(B) /\ Holds(m, p, u)
    OBVIOUS
  <1> HIDE DEF B
  <1>2. /\ u \in Seq(B) /\ Len(u) = Len(s) + Len(t) /\ Len(s) \in Nat /\ Len(t) \in Nat
        /\ \A i \in 1 .. Len(s) : u[i] = s[i]
        /\ \A i \in 1 .. Len(t) : u[Len(s) + i] = t[i]
    BY <1>1
  <1> HIDE DEF u
  <1>3. \A i \in 1 .. Len(s) + Len(t) : m[p + (i - 1)] = u[i]
    BY <1>1, <1>2 DEF Holds
  <1>4. Holds(m, p, s)
    <2> SUFFICES ASSUME NEW i \in 1 .. Len(s) PROVE m[p + (i - 1)] = s[i]
      BY DEF Holds
    <2>1. i \in 1 .. Len(s) + Len(t)
      BY <1>2
    <2> QED
      BY <1>2, <1>3, <2>1
  <1>5. Holds(m, p + Len(s), t)
    <2> SUFFICES ASSUME NEW i \in 1 .. Len(t) PROVE m[(p + Len(s)) + (i - 1)] = t[i]
      BY DEF Holds
    <2> DEFINE j == Len(s) + i
    <2>1. j \in 1 .. Len(s) + Len(t) /\ p + (j - 1) = (p + Len(s)) + (i - 1)
      BY <1>2
    <2>2. u[j] = t[i]
      BY <1>2
    <2> HIDE DEF j
    <2>3. m[p + (j - 1)] = u[j]
      BY <1>3, <2>1
    <2> QED
      BY <2>1, <2>2, <2>3
  <1>6. u \in Seq(Byte)
    BY <1>2 DEF B
  <1> QED
    BY <1>2, <1>4, <1>5, <1>6 DEF u

LEMMA CatType ==
  ASSUME NEW s \in Seq(Byte), NEW t \in Seq(Byte)
  PROVE  s \o t \in Seq(Byte) /\ Len(s \o t) = Len(s) + Len(t)
  <1> DEFINE B == Byte
  <1>1. s \in Seq(B) /\ t \in Seq(B)
    OBVIOUS
  <1> HIDE DEF B
  <1>2. s \o t \in Seq(B) /\ Len(s \o t) = Len(s) + Len(t)
    BY <1>1
  <1> QED
    BY <1>2 DEF B

PropHead(len, n) == cpu_to_fdt32(FDT_PROP) \o cpu_to_fdt32(len) \o cpu_to_fdt32(n)

LEMMA HeadType ==
  ASSUME NEW len \in Nat, len < WordBase, NEW n \in Nat, n < WordBase
  PROVE  PropHead(len, n) \in Seq(Byte) /\ Len(PropHead(len, n)) = PropSize
  <1> DEFINE u == cpu_to_fdt32(FDT_PROP)
             v == cpu_to_fdt32(len)
             w == cpu_to_fdt32(n)
  <1>1. FDT_PROP \in Nat /\ FDT_PROP < WordBase
    BY Codes, WordBaseIs
  <1>2. /\ u \in Seq(Byte) /\ v \in Seq(Byte) /\ w \in Seq(Byte)
        /\ Len(u) = FDT_TAGSIZE /\ Len(v) = FDT_TAGSIZE /\ Len(w) = FDT_TAGSIZE
    BY <1>1, Cpu32Is
  <1> HIDE DEF u, v, w
  <1>3. u \o v \in Seq(Byte) /\ Len(u \o v) = Len(u) + Len(v)
    BY <1>2, CatType
  <1>4. (u \o v) \o w \in Seq(Byte) /\ Len((u \o v) \o w) = Len(u \o v) + Len(w)
    BY <1>2, <1>3, CatType
  <1>5. PropSize = 3 * FDT_TAGSIZE /\ FDT_TAGSIZE \in Nat
    BY Sizes
  <1>6. Len((u \o v) \o w) = PropSize
    BY <1>2, <1>3, <1>4, <1>5
  <1> QED
    BY <1>4, <1>6 DEF PropHead, u, v, w

(* What is read of it. *)
LEMMA HeadWords ==
  ASSUME NEW c, c.off_dt_struct \in Nat, NEW o \in Nat,
         NEW len \in Nat, len < WordBase, NEW n \in 0 .. FDT_SIZE_MAX,
         Holds(c.mem, c.off_dt_struct + o, PropHead(len, n))
  PROVE  WordAt(c, o) = FDT_PROP /\ PropLen(c, o) = len /\ PropNameOff(c, o) = n
  <1> DEFINE u == cpu_to_fdt32(FDT_PROP)
             v == cpu_to_fdt32(len)
             w == cpu_to_fdt32(n)
             T == FDT_TAGSIZE
             p == c.off_dt_struct + o
             m == c.mem
  <1>1. FDT_PROP \in Nat /\ FDT_PROP < WordBase /\ n \in Nat /\ n < WordBase /\ T \in Nat
    <2>1. FDT_SIZE_MAX \in Nat /\ T \in Nat
      BY Sizes
    <2> QED
      BY <2>1, Codes, WordBaseIs
  <1>2. /\ u \in Seq(Byte) /\ v \in Seq(Byte) /\ w \in Seq(Byte)
        /\ Len(u) = T /\ Len(v) = T /\ Len(w) = T
    BY <1>1, Cpu32Is
  <1>3. u \o v \in Seq(Byte) /\ Len(u \o v) = T + T
    <2> HIDE DEF u, v, T
    <2> QED
      BY <1>2, CatType
  <1>4. Holds(m, p, (u \o v) \o w) /\ p \in Int
    BY DEF PropHead
  <1> HIDE DEF u, v, w, m, p
  <1>5. Holds(m, p, u \o v) /\ Holds(m, p + (T + T), w)
    <2>1. PICK y : y = u \o v
      OBVIOUS
    <2>2. y \in Seq(Byte) /\ Len(y) = T + T /\ Holds(m, p, y \o w)
      BY <1>3, <1>4, <2>1
    <2>3. Holds(m, p, y) /\ Holds(m, p + Len(y), w)
      BY <1>2, <1>4, <2>2, HoldsCat
    <2> QED
      BY <2>1, <2>2, <2>3
  <1>6. Holds(m, p, u) /\ Holds(m, p + T, v)
    BY <1>2, <1>4, <1>5, HoldsCat
  <1>7. WordAt(c, o) = FDT_PROP
    BY <1>1, <1>6, WordHeld DEF m, p, u
  <1>8. WordAt(c, o + T) = len
    <2>1. p + T = c.off_dt_struct + (o + T) /\ o + T \in Int
      BY <1>1 DEF p
    <2>2. Holds(c.mem, c.off_dt_struct + (o + T), cpu_to_fdt32(len))
      BY <1>6, <2>1 DEF m, v
    <2> QED
      BY <2>1, <2>2, WordHeld
  <1>9. WordAt(c, o + 2 * T) = n
    <2>1. p + (T + T) = c.off_dt_struct + (o + 2 * T) /\ o + 2 * T \in Int
      BY <1>1 DEF p
    <2>2. Holds(c.mem, c.off_dt_struct + (o + 2 * T), cpu_to_fdt32(n))
      BY <1>5, <2>1 DEF m, w
    <2> QED
      BY <1>1, <2>1, <2>2, WordHeld
  <1>10. Signed(n) = n
    BY WordBaseIs
  <1> QED
    BY <1>7, <1>8, <1>9, <1>10 DEF PropLen, PropNameOff, T

-----------------------------------------------------------------------------
Inserting(b, f, n, at, ends, items, k, val, no, nm, off, r, e, c) ==
  /\ Kept(b, f) /\ whole_mem_rsv_size(f) \in Nat
  /\ Tells(b, b.size_dt_struct, n, at, ends, items) /\ k \in 1 .. n - 1
  /\ val \in Seq(Byte) /\ no \in 0 .. b.size_dt_strings - 1 /\ fdt_string(b, no) = nm
  /\ off = at[k + 1]
  /\ r = splice_struct(b, off, 0, PropSize + FDT_TAGALIGN(Len(val))) /\ ~(r.ret < 0)
  /\ e = Write(r.fdt, off, PropHead(Len(val), no))
  /\ c = Write(e, off + PropSize, val)

LEMMA InsertTells ==
  ASSUME NEW b, NEW f, NEW n, NEW at, NEW ends, NEW items, NEW k, NEW val, NEW no, NEW nm,
         NEW off, NEW r, NEW e, NEW c,
         Inserting(b, f, n, at, ends, items, k, val, no, nm, off, r, e, c)
  PROVE  /\ Retold(c, n + 1, at, k,
                   Put(items, n, k, 1, [tag |-> FDT_PROP, name |-> nm, val |-> val]))
         /\ SameStrings(b, c) /\ FieldsMoved(c, b, PropSize + FDT_TAGALIGN(Len(val)))
  <1> DEFINE new == PropSize + FDT_TAGALIGN(Len(val))
             S == b.off_dt_struct
             size == b.size_dt_struct
             L == Len(val)
             a == r.fdt
             v == off + PropSize
             y == v + L
             T == FDT_TAGSIZE
             w == PropHead(L, no)
  <1> USE DEF Inserting
  <1>1. Sound(b) /\ Block(b, FDT_SIZE_MAX, size)
    BY SoundBlock DEF Kept
  <1>2. k \in 1 .. n /\ k + 1 \in 1 .. n /\ k < n /\ n \in Nat
    BY DEF Tells
  <1>3. off \in Nat /\ off \in Aligned /\ off < size
    <2>1. at[k + 1] \in Nat /\ at[k + 1] \in Aligned /\ at[k + 1] < ends[k + 1]
          /\ ends[k + 1] \in Nat /\ ends[k + 1] <= size
      BY <1>1, <1>2, TellsOrder
    <2>2. size \in Nat
      BY <1>1 DEF Block
    <2> QED
      BY <2>1, <2>2
  <1>4. /\ S \in Nat /\ size \in Nat /\ L \in Nat /\ T \in Nat /\ T > 1
        /\ PropSize = 3 * T /\ PropSize \in Nat /\ v \in Nat /\ FDT_SIZE_MAX \in Nat
    <2>1. L \in Nat
      BY WithNul
    <2>2. S \in Nat /\ size \in Nat
      BY <1>1 DEF Block
    <2>3. /\ T \in Nat /\ T > 1 /\ PropSize = 3 * T /\ PropSize \in Nat
          /\ FDT_SIZE_MAX \in Nat
      BY Sizes
    <2>4. v \in Nat
      BY <1>3, <2>3
    <2> QED
      BY <2>1, <2>2, <2>3, <2>4
  <1>5. PICK j \in Nat : off = j * T
    BY <1>3 DEF Aligned
  <1>6. /\ FDT_TAGALIGN(L) \in Nat /\ FDT_TAGALIGN(L) \in Aligned /\ L <= FDT_TAGALIGN(L)
    BY <1>4, TagAlign
  <1>7. PICK u \in Nat : FDT_TAGALIGN(L) = u * T
    BY <1>6 DEF Aligned
  <1>8. PICK tl \in Nat : tl = FDT_TAGALIGN(L)
    BY <1>6
  <1>9. new = PropSize + tl /\ L <= tl /\ tl = u * T
    BY <1>6, <1>7, <1>8
  <1> HIDE DEF new
  <1>10. new \in Nat /\ new = (u + 3) * T /\ PropSize + L <= new /\ u + 3 \in Int
    <2> HIDE DEF T, L
    <2> QED
      BY <1>4, <1>9
  <1>11. FDT_TAGALIGN(y) = off + new
    <2> DEFINE h == j + 3
    <2>1. h \in Int /\ v = h * FDT_TAGSIZE
      BY <1>4, <1>5
    <2>2. L + v \in Nat /\ y = L + v
      BY <1>4
    <2> HIDE DEF h, v, L, y
    <2>3. L \in Nat
      BY <1>4
    <2>4. FDT_TAGALIGN(L + v) = FDT_TAGALIGN(L) + v
      BY <2>1, <2>2, <2>3, TagShift
    <2>5. FDT_TAGALIGN(y) = tl + v
      BY <1>8, <2>2, <2>4
    <2> QED
      BY <1>3, <1>4, <1>9, <2>5 DEF v
  <1>12. size + new > 0
    BY <1>3, <1>4, <1>10
  <1>13. r = splice_struct(b, off, 0, new) /\ ~(r.ret < 0)
    BY DEF new
  <1>14. L < WordBase /\ no \in Nat /\ no \in 0 .. FDT_SIZE_MAX /\ no < WordBase
         /\ Resized(a, b, off, 0, new) /\ Kept(a, f) /\ (S + off) + new <= FDT_SIZE_MAX
         /\ data_size(b) + new <= FDT_SIZE_MAX
    <2>1. Keeps(splice_struct(b, off, 0, new), f)
      <3>1. b.size_dt_struct + (new - 0) > 0 /\ 0 \in Nat
        BY <1>10, <1>12
      <3> QED
        BY <1>3, <1>10, <3>1, SpliceStructKeeps
    <2>2. Kept(a, f)
      BY <1>13, <2>1 DEF Keeps
    <2>3. 0 \in Nat /\ off \in Nat /\ new \in Nat
      BY <1>3, <1>10
    <2>4. Resized(splice_struct(b, off, 0, new).fdt, b, off, 0, new)
      <3>1. ~(splice_struct(b, off, 0, new).ret < 0)
        BY <1>13
      <3> QED
        BY <1>1, <2>3, <3>1, ResizedIs
    <2>5. Resized(a, b, off, 0, new)
      BY <1>13, <2>4
    <2>6. Sound(a)
      BY <2>2 DEF Kept
    <2> HIDE DEF a
    <2>7. data_size(a) <= FDT_SIZE_MAX /\ a.off_dt_struct + a.size_dt_struct <= FDT_SIZE_MAX
      BY <2>6, Inside, SoundBlock DEF Block
    <2>8. /\ a.off_dt_struct = S /\ a.size_dt_struct = size + new
          /\ a.off_dt_strings = b.off_dt_strings + new /\ a.size_dt_strings = b.size_dt_strings
      <3>1. new - 0 = new
        BY <1>10
      <3> QED
        BY <2>5, <3>1 DEF Resized
    <2>9. /\ b.off_dt_strings \in Nat /\ b.size_dt_strings \in Nat
          /\ b.off_dt_strings + b.size_dt_strings <= FDT_SIZE_MAX
      BY <1>1 DEF Block
    <2> HIDE DEF S, size, L
    <2>10. (S + off) + new <= FDT_SIZE_MAX
      <3> HIDE DEF Inserting
      <3>1. off < size /\ off \in Nat /\ S \in Nat /\ size \in Nat /\ new \in Nat
            /\ FDT_SIZE_MAX \in Nat
        BY <1>3, <1>4, <1>10
      <3>2. S + (size + new) <= FDT_SIZE_MAX
        BY <2>7, <2>8
      <3> QED
        BY <3>1, <3>2
    <2>11. data_size(b) + new <= FDT_SIZE_MAX
      <3>1. data_size(a) = data_size(b) + new
        BY <1>10, <2>8, <2>9 DEF data_size
      <3> HIDE DEF Inserting
      <3> QED
        BY <2>7, <3>1
    <2>12. L <= FDT_SIZE_MAX
      <3>1. L <= new /\ new \in Nat /\ L \in Nat /\ S \in Nat /\ off \in Nat
            /\ FDT_SIZE_MAX \in Nat
        BY <1>3, <1>4, <1>10
      <3> HIDE DEF Inserting, L, S
      <3> QED
        BY <2>10, <3>1
    <2>13. no \in Nat /\ no \in 0 .. FDT_SIZE_MAX
      BY <1>4, <2>9
    <2>14. L < WordBase /\ no < WordBase
      BY <1>4, <2>12, <2>13, WordBaseIs
    <2> QED
      BY <2>2, <2>5, <2>10, <2>11, <2>13, <2>14 DEF a
  <1>15. w \in Seq(Byte) /\ Len(w) = PropSize
    BY <1>4, <1>14, HeadType
  <1>16. Kept(e, f) /\ Kept(c, f) /\ Sound(a) /\ Sound(e) /\ Sound(c)
    <2>1. Kept(e, f)
      <3>1. e = Write(a, off, w)
        OBVIOUS
      <3> HIDE DEF w, a
      <3> QED
        BY <1>3, <1>14, <1>15, <3>1, WriteKeeps
    <2>2. Kept(c, f)
      BY <1>4, <2>1, WriteKeeps
    <2> QED
      BY <1>14, <2>1, <2>2 DEF Kept
  <1>17. Written(e, a, S + off, w) /\ Written(c, e, S + v, val)
    <2>1. a.off_dt_struct = S
      BY <1>14 DEF Resized
    <2>2. e = Write(a, off, w) /\ c = Write(e, v, val)
      OBVIOUS
    <2> HIDE DEF w, a, v, S
    <2>3. Written(e, a, a.off_dt_struct + off, w)
      BY <1>3, <1>15, <1>16, <2>2, WrittenIs
    <2>4. e.off_dt_struct = S
      BY <2>1, <2>3 DEF Written, SameFields
    <2>5. Written(c, e, e.off_dt_struct + v, val)
      BY <1>4, <1>16, <2>2, WrittenIs
    <2> QED
      BY <2>1, <2>3, <2>4, <2>5
  <1>18. /\ Shift(b.mem, a.mem, S + off, 0, new, data_size(b))
         /\ Wrote(a.mem, e.mem, S + off, w) /\ Wrote(e.mem, c.mem, S + v, val)
         /\ FieldsMoved(c, b, new)
    <2>1. new - 0 = new
      BY <1>10
    <2> QED
      BY <1>14, <1>17, <2>1 DEF Resized, Written, SameFields, FieldsMoved
  <1>19. Edit(b, c, off, off, new)
    <2>1. /\ off + Len(w) <= off + new /\ v + Len(val) <= off + new /\ off <= v /\ off <= off + new
          /\ off <= off /\ data_size(b) + (new - 0) <= FDT_SIZE_MAX /\ 0 \in Nat
      <3>1. L \in Nat /\ v = off + PropSize /\ L = Len(val)
        BY <1>4
      <3>2. data_size(b) + (new - 0) <= FDT_SIZE_MAX
        <4>1. new - 0 = new
          BY <1>10
        <4> QED
          BY <1>14, <4>1
      <3> HIDE DEF L, w, v
      <3>3. new \in Nat /\ PropSize + L <= new /\ PropSize \in Nat /\ Len(w) = PropSize
        BY <1>4, <1>10, <1>15
      <3>4. L \in Nat /\ off \in Nat
        BY <1>3, <1>4
      <3>5. off <= v /\ off <= off + new /\ off <= off /\ v + Len(val) <= off + new
        BY <3>1, <3>3, <3>4
      <3>6. off + Len(w) <= off + new
        BY <3>3, <3>4
      <3> QED
        BY <3>2, <3>5, <3>6
    <2> DEFINE m == a.mem
    <2>2. /\ Shift(b.mem, m, b.off_dt_struct + off, 0, new, data_size(b))
          /\ (b.off_dt_struct + off) + new <= FDT_SIZE_MAX
          /\ Wrote(m, e.mem, b.off_dt_struct + off, w)
          /\ Wrote(e.mem, c.mem, b.off_dt_struct + v, val)
      BY <1>14, <1>18
    <2> HIDE DEF m, w, v
    <2>3. Edit(b, c, off, off + 0, new - 0)
      BY <1>1, <1>3, <1>4, <1>10, <1>15, <2>1, <2>2, EditIs
    <2>4. off + 0 = off /\ new - 0 = new
      BY <1>3, <1>10
    <2> QED
      BY <2>3, <2>4
  <1>20. /\ WordAt(c, off) = FDT_PROP /\ PropLen(c, off) = L /\ PropNameOff(c, off) = no
         /\ Holds(c.mem, c.off_dt_struct + v, val) /\ c.off_dt_struct = S
    <2>1. c.off_dt_struct = S
      BY <1>18 DEF FieldsMoved
    <2> DEFINE p == S + off
               q == S + v
               z == c.mem
    <2>2. p + PropSize <= FDT_SIZE_MAX /\ q + L <= FDT_SIZE_MAX /\ p + PropSize = q /\ p \in Nat
          /\ q \in Nat
      <3>1. v = off + PropSize /\ p = S + off /\ q = S + v
        OBVIOUS
      <3> HIDE DEF L, v, S, p, q, Inserting
      <3> QED
        <4>1. new \in Nat /\ PropSize + L <= new /\ PropSize \in Nat /\ (S + off) + new <= FDT_SIZE_MAX
          BY <1>4, <1>10, <1>14
        <4>2. S \in Nat /\ L \in Nat /\ FDT_SIZE_MAX \in Nat
          BY <1>4
        <4>3. p \in Nat /\ q \in Nat /\ q = p + PropSize
          <5>1. off \in Nat /\ S \in Nat /\ PropSize \in Nat
            BY <1>3, <4>1, <4>2
          <5>2. p = S + off /\ q = S + (off + PropSize)
            BY <3>1
          <5> QED
            BY <5>1, <5>2
        <4>4. p + new <= FDT_SIZE_MAX
          BY <3>1, <4>1
        <4> QED
          BY <4>1, <4>2, <4>3, <4>4
    <2>3. /\ Holds(e.mem, p, w) /\ Holds(z, q, val)
          /\ \A i \in 0 .. FDT_SIZE_MAX - 1 : i < q \/ i >= q + L => z[i] = e.mem[i]
      <3>1. Wrote(a.mem, e.mem, p, w) /\ Wrote(e.mem, z, q, val)
        BY <1>18
      <3>2. p + Len(w) <= FDT_SIZE_MAX /\ q + Len(val) <= FDT_SIZE_MAX
        BY <1>15, <2>2
      <3> HIDE DEF p, q, w, z, a
      <3> QED
        BY <3>1, <3>2 DEF Wrote
    <2>4. ASSUME NEW i \in 1 .. Len(w) PROVE z[p + (i - 1)] = w[i]
      <3> DEFINE x == p + (i - 1)
      <3> HIDE DEF w, z, p, q, L
      <3>1. x \in 0 .. FDT_SIZE_MAX - 1 /\ x < q
        BY <1>4, <1>15, <2>2
      <3>2. e.mem[x] = w[i]
        BY <2>3 DEF Holds
      <3> HIDE DEF x
      <3>3. z[x] = e.mem[x]
        BY <2>3, <3>1
      <3> QED
        BY <3>2, <3>3 DEF x
    <2>5. Holds(c.mem, c.off_dt_struct + off, PropHead(L, no))
      <3>1. Holds(z, p, w)
        BY <2>4 DEF Holds
      <3> QED
        BY <2>1, <3>1
    <2>6. c.off_dt_struct \in Nat
      BY <1>4, <2>1
    <2> HIDE DEF L
    <2>7. WordAt(c, off) = FDT_PROP /\ PropLen(c, off) = L /\ PropNameOff(c, off) = no
      BY <1>3, <1>4, <1>14, <2>5, <2>6, HeadWords
    <2> QED
      BY <2>1, <2>3, <2>7
  <1> DEFINE it == [tag |-> FDT_PROP, name |-> nm, val |-> val]
  <1>21. ASSUME SameNames(b, c) PROVE Says(c, c.size_dt_struct, off, y, it)
    <2>1. fdt_string(c, no) = nm /\ no \in 0 .. c.size_dt_strings - 1 /\ PropNameOff(c, off) = no
      <3>1. c.size_dt_strings = b.size_dt_strings
        BY <1>18 DEF FieldsMoved
      <3> QED
        BY <1>20, <1>21, <3>1 DEF SameNames
    <2>2. y <= c.size_dt_struct
      <3>1. c.size_dt_struct = size + new /\ y = v + L /\ v = off + PropSize
        BY <1>18 DEF FieldsMoved
      <3>2. off < size /\ off \in Nat /\ size \in Nat
        BY <1>3, <1>4, <1>10
      <3>3. PropSize + L <= new /\ new \in Nat /\ L \in Nat /\ PropSize \in Nat
        BY <1>4, <1>10
      <3> HIDE DEF size, v, L, y, Inserting
      <3> QED
        BY <3>1, <3>2, <3>3
    <2>3. Block(c, FDT_SIZE_MAX, c.size_dt_struct)
      BY <1>16, SoundBlock
    <2>4. /\ WordAt(c, off) = FDT_PROP /\ PropLen(c, off) = Len(val)
          /\ Holds(c.mem, c.off_dt_struct + (off + PropSize), val)
          /\ y = (off + PropSize) + Len(val)
      BY <1>20
    <2> HIDE DEF y, v
    <2> QED
      BY <1>3, <2>1, <2>2, <2>3, <2>4, PropSays
  <1>22. /\ k \in Nat /\ k >= 1 /\ (k + 2) - 1 <= n /\ k < n /\ (k + 2) - 1 = k + 1
         /\ 1 \in {0, 1}
    BY <1>2
  <1>23. it.tag # FDT_END
    <2>1. it.tag = FDT_PROP
      OBVIOUS
    <2> HIDE DEF it
    <2> QED
      BY <2>1, Codes
  <1>24. PICK citems : citems = Put(items, n, k, 1, it)
    OBVIOUS
  <1>25. PICK m : m = n + 1
    OBVIOUS
  <1>26. PICK g \in Int : new = g * FDT_TAGSIZE /\ new \in Int
    BY <1>10
  <1> HIDE DEF y, it
  <1>27. /\ SameStrings(b, c)
         /\ \E cat, cends : /\ Tells(c, c.size_dt_struct, m, cat, cends, citems)
                            /\ \A i \in 1 .. k : cat[i] = at[i]
    <2>1. Edits(b, c, n, at, ends, items, k, 1, new, g, off, off, y, it, m, citems)
      BY <1>1, <1>11, <1>16, <1>18, <1>19, <1>21, <1>22, <1>23, <1>24, <1>25, <1>26 DEF Edits
    <2> QED
      BY <2>1, EditTells
  <1> QED
    BY <1>18, <1>24, <1>25, <1>27 DEF it, Retold, new

-----------------------------------------------------------------------------
(* The node whose first tag is the one at c gets a property.               *)
Holding(b, n, at, ends, items, c) ==
  Tells(b, b.size_dt_struct, n, at, ends, items) /\ Orderly(items) /\ Spot(items, n, c)

SetTo(z, n, items, at, c, p, v) ==
  \E m, cat, cends, citems :
    /\ Holding(z, m, cat, cends, citems, c) /\ cat[c] = at[c]
    /\ TreeOf(citems) = WithProp(TreeOf(items), p, v)
    /\ Followed(items, n, c) => Followed(citems, m, c)

Typed(items, n, p, v) ==
  \E S : p \in S /\ v \in S /\ \A i \in 1 .. n : items[i] \in ItemOf(S)

LEMMA HoldingFacts ==
  ASSUME NEW b, Sound(b), NEW n, NEW at, NEW ends, NEW items, NEW c,
         Holding(b, n, at, ends, items, c), NEW p, NEW v
  PROVE  /\ n \in Nat /\ c \in 1 .. n /\ items[c].tag = FDT_BEGIN_NODE /\ Indexed(items, n)
         /\ \A i \in 1 .. n : Tag(b, n, at, items, i)
         /\ Typed(items, n, p, v)
  <1>1. Tells(b, b.size_dt_struct, n, at, ends, items) /\ Spot(items, n, c)
    BY DEF Holding
  <1>2. c \in 1 .. n /\ items[c].tag = FDT_BEGIN_NODE
    BY <1>1 DEF Spot
  <1>3. Indexed(items, n)
    BY <1>1 DEF Tells, Indexed
  <1>4. n \in Nat /\ \A i \in 1 .. n : Tag(b, n, at, items, i)
    BY <1>1, TagIs
  <1> DEFINE S == AllNames(items, n) \cup {p, v}
  <1>5. Block(b, FDT_SIZE_MAX, b.size_dt_struct) /\ AllNames(items, n) \subseteq S
    BY SoundBlock
  <1>6. p \in S /\ v \in S
    OBVIOUS
  <1> HIDE DEF S
  <1>7. \A i \in 1 .. n : items[i] \in ItemOf(S)
    BY <1>1, <1>5, ItemsType
  <1> QED
    BY <1>2, <1>3, <1>4, <1>6, <1>7 DEF Typed

LEMMA FollowedChange ==
  ASSUME NEW n \in Nat, NEW items, NEW c \in 1 .. n, NEW K \in 1 .. n,
         items[K].tag = FDT_PROP, Followed(items, n, c), NEW it,
         NEW citems, citems = Put(items, n, K - 1, 0, it)
  PROVE  Followed(citems, n, c)
  <1>1. PICK k \in c + 1 .. n : items[k].tag \notin {FDT_PROP, FDT_NOP, FDT_END}
    BY DEF Followed
  <1>2. k # K /\ k \in 1 .. n + 0
    BY <1>1
  <1>3. citems[k] = IF k <= K - 1 THEN items[k]
                    ELSE IF k = (K - 1) + 1 THEN it ELSE items[k - 0]
    BY <1>2 DEF Put
  <1>4. citems[k] = items[k]
    BY <1>2, <1>3
  <1> QED
    BY <1>1, <1>4 DEF Followed

LEMMA FollowedInsert ==
  ASSUME NEW n \in Nat, NEW items, NEW c \in 1 .. n, Followed(items, n, c), NEW it,
         NEW citems, citems = Put(items, n, c, 1, it)
  PROVE  Followed(citems, n + 1, c)
  <1>1. PICK k \in c + 1 .. n : items[k].tag \notin {FDT_PROP, FDT_NOP, FDT_END}
    BY DEF Followed
  <1>2. k + 1 \in c + 1 .. n + 1 /\ k + 1 \in 1 .. n + 1
    BY <1>1
  <1>3. citems[k + 1] = IF k + 1 <= c THEN items[k + 1]
                        ELSE IF k + 1 = c + 1 THEN it ELSE items[(k + 1) - 1]
    BY <1>2 DEF Put
  <1>4. citems[k + 1] = items[k]
    <2>1. ~(k + 1 <= c) /\ k + 1 # c + 1 /\ (k + 1) - 1 = k
      BY <1>1
    <2> QED
      BY <1>3, <2>1
  <1> QED
    BY <1>1, <1>2, <1>4 DEF Followed

LEMMA SetOldTo ==
  ASSUME NEW b, Sound(b), NEW n, NEW at, NEW ends, NEW items, NEW c,
         Holding(b, n, at, ends, items, c), NEW p, NEW v,
         NEW K \in c + 1 .. n, Run(items, p, c + 1, K), items[K].tag = FDT_PROP, items[K].name = p,
         NEW citems, citems = Put(items, n, K - 1, 0, [tag |-> FDT_PROP, name |-> p, val |-> v]),
         NEW z, Retold(z, n, at, K - 1, citems)
  PROVE  SetTo(z, n, items, at, c, p, v)
  <1>1. /\ n \in Nat /\ c \in 1 .. n /\ items[c].tag = FDT_BEGIN_NODE /\ Indexed(items, n)
        /\ Typed(items, n, p, v)
    BY HoldingFacts
  <1>2. PICK S : p \in S /\ v \in S /\ \A i \in 1 .. n : items[i] \in ItemOf(S)
    BY <1>1 DEF Typed
  <1>3. PICK it : it = [tag |-> FDT_PROP, name |-> p, val |-> v]
    OBVIOUS
  <1>4. citems = Put(items, n, K - 1, 0, it)
    BY <1>3
  <1>5. PICK cat, cends : /\ Tells(z, z.size_dt_struct, n, cat, cends, citems)
                         /\ \A i \in 1 .. K - 1 : cat[i] = at[i]
    BY DEF Retold
  <1>6. Orderly(items) /\ Spot(items, n, c)
    BY DEF Holding
  <1>7. K \in 1 .. n /\ c \in 1 .. K - 1 /\ it.tag = FDT_PROP
    BY <1>1, <1>3
  <1>8. Spot(citems, n, c) /\ TreeOf(citems) = WithProp(TreeOf(items), p, v)
    BY <1>1, <1>2, <1>3, <1>4, <1>6, ChangeTree
  <1>9. Orderly(citems)
    BY <1>1, <1>4, <1>6, <1>7, OrderlyChange
  <1>10. Holding(z, n, cat, cends, citems, c)
    BY <1>5, <1>8, <1>9 DEF Holding
  <1>11. cat[c] = at[c]
    BY <1>5, <1>7
  <1>12. Followed(items, n, c) => Followed(citems, n, c)
    BY <1>1, <1>4, <1>7, FollowedChange
  <1> QED
    BY <1>8, <1>10, <1>11, <1>12 DEF SetTo

LEMMA SetNewTo ==
  ASSUME NEW b, Sound(b), NEW n, NEW at, NEW ends, NEW items, NEW c,
         Holding(b, n, at, ends, items, c), NEW p, NEW v, c < n,
         NEW K \in c + 1 .. n, Run(items, p, c + 1, K), items[K].tag \notin {FDT_PROP, FDT_NOP},
         NEW citems, citems = Put(items, n, c, 1, [tag |-> FDT_PROP, name |-> p, val |-> v]),
         NEW z, Retold(z, n + 1, at, c, citems)
  PROVE  SetTo(z, n, items, at, c, p, v)
  <1>1. /\ n \in Nat /\ c \in 1 .. n /\ items[c].tag = FDT_BEGIN_NODE /\ Indexed(items, n)
        /\ Typed(items, n, p, v)
    BY HoldingFacts
  <1>2. PICK S : p \in S /\ v \in S /\ \A i \in 1 .. n : items[i] \in ItemOf(S)
    BY <1>1 DEF Typed
  <1>3. PICK it : it = [tag |-> FDT_PROP, name |-> p, val |-> v]
    OBVIOUS
  <1>4. citems = Put(items, n, c, 1, it)
    BY <1>3
  <1>5. PICK cat, cends : /\ Tells(z, z.size_dt_struct, n + 1, cat, cends, citems)
                         /\ \A i \in 1 .. c : cat[i] = at[i]
    BY DEF Retold
  <1>6. Orderly(items) /\ Spot(items, n, c)
    BY DEF Holding
  <1>7. c \in 1 .. n - 1 /\ c \in 1 .. c /\ it.tag = FDT_PROP
    BY <1>1, <1>3
  <1>8. Spot(citems, n + 1, c) /\ TreeOf(citems) = WithProp(TreeOf(items), p, v)
    BY <1>1, <1>2, <1>3, <1>4, <1>6, InsertTree
  <1>9. Orderly(citems)
    BY <1>1, <1>4, <1>6, <1>7, OrderlyInsert
  <1>10. Holding(z, n + 1, cat, cends, citems, c)
    BY <1>5, <1>8, <1>9 DEF Holding
  <1>11. cat[c] = at[c]
    BY <1>5, <1>7
  <1>12. Followed(items, n, c) => Followed(citems, n + 1, c)
    BY <1>1, <1>4, <1>7, FollowedInsert
  <1> QED
    BY <1>8, <1>10, <1>11, <1>12 DEF SetTo

-----------------------------------------------------------------------------
LEMMA SameStringsOn ==
  ASSUME NEW b, NEW a, NEW z, SameStrings(b, a), SameStrings(a, z),
         b.size_dt_strings \in Nat, a.size_dt_strings \in Nat, z.size_dt_strings \in Nat
  PROVE  SameStrings(b, z)
  <1>1. z.size_dt_strings >= b.size_dt_strings
    BY DEF SameStrings
  <1>2. ASSUME NEW i \in 0 .. b.size_dt_strings - 1
        PROVE  z.mem[z.off_dt_strings + i] = b.mem[b.off_dt_strings + i]
    <2>1. i \in 0 .. a.size_dt_strings - 1
      BY DEF SameStrings
    <2> QED
      BY <2>1 DEF SameStrings
  <1> QED
    BY <1>1, <1>2 DEF SameStrings

LEMMA SpliceErrors ==
  ASSUME NEW b, NEW offset, NEW old, NEW new
  PROVE  splice_struct(b, offset, old, new).ret # -NOTFOUND
  <1> DEFINE p == b.off_dt_struct + offset
             s == splice(b, p, old, new)
             r == splice_struct(b, offset, old, new)
             moved == [b EXCEPT !.mem = memmove(@, p + new, p + old, data_size(b) - p - old)]
             c == [s.fdt EXCEPT !.size_dt_struct = @ + (new - old),
                                !.off_dt_strings = @ + (new - old)]
  <1>1. s = Fail(b, BADOFFSET) \/ s = Fail(b, NOSPACE) \/ s = Done(moved, 0)
    BY DEF splice
  <1>2. s.ret \in {0, -BADOFFSET, -NOSPACE}
    <2> HIDE DEF s, moved
    <2> QED
      BY <1>1 DEF Fail, Done
  <1>3. r = IF s.ret < 0 THEN s ELSE Done(c, 0)
    BY DEF splice_struct, AndThen
  <1> HIDE DEF s, c, r
  <1>4. r.ret # -NOTFOUND
    BY <1>2, <1>3 DEF Done, BADOFFSET, NOSPACE, NOTFOUND
  <1> QED
    BY <1>4 DEF r

(* The property is there.                                                  *)
Resettled(b, z, node, name, val) ==
  /\ SameStrings(b, z)
  /\ FieldsMoved(z, b, FDT_TAGALIGN(Len(val))
                         - FDT_TAGALIGN(PropLen(b, fdt_get_property(b, node, name))))

LEMMA SetOld ==
  ASSUME NEW b, NEW f, Kept(b, f), whole_mem_rsv_size(f) \in Nat, NEW n, NEW at, NEW ends,
         NEW items, NEW c, Holding(b, n, at, ends, items, c), NEW name, NEW val \in Seq(Byte),
         NEW r, r = resize_property(b, at[c], name, Len(val)), ~(r.ret < 0),
         NEW z, z = Write(r.fdt, r.ret + PropSize, val)
  PROVE  SetTo(z, n, items, at, c, name, val) /\ Resettled(b, z, at[c], name, val)
  <1> DEFINE prop == fdt_get_property(b, at[c], name)
             old == FDT_TAGALIGN(PropLen(b, prop))
             new == FDT_TAGALIGN(Len(val))
             s == splice_struct(b, prop + PropSize, old, new)
  <1>1. Sound(b)
    BY DEF Kept
  <1>2. /\ n \in Nat /\ c \in 1 .. n /\ items[c].tag = FDT_BEGIN_NODE
        /\ \A i \in 1 .. n : Tag(b, n, at, items, i)
    BY <1>1, HoldingFacts
  <1>3. PICK K : c < n /\ Found(at, items, n, name, c + 1, prop, K)
    BY <1>1, <1>2, GetPropertyAt
  <1>4. r = IF prop < 0 THEN Done(b, prop)
            ELSE IF s.ret < 0 THEN s
            ELSE Done(Write(s.fdt, prop + FDT_TAGSIZE, cpu_to_fdt32(Len(val))), prop)
    BY DEF resize_property, IfFound, AndThen
  <1> HIDE DEF prop
  <1>5. ~(prop < 0)
    <2> SUFFICES ASSUME prop < 0 PROVE FALSE
      OBVIOUS
    <2>1. r = Done(b, prop)
      BY <1>4
    <2> QED
      BY <2>1 DEF Done
  <1> HIDE DEF s
  <1>6. ~(s.ret < 0) /\ r = Done(Write(s.fdt, prop + FDT_TAGSIZE, cpu_to_fdt32(Len(val))), prop)
    BY <1>4, <1>5
  <1>7. /\ prop = at[K] /\ K \in c + 1 .. n /\ Run(items, name, c + 1, K)
        /\ items[K].tag = FDT_PROP /\ items[K].name = name
    BY <1>3, <1>5 DEF Found
  <1>8. K \in 2 .. n
    BY <1>2, <1>7
  <1>9. PICK e : e = Write(s.fdt, prop + FDT_TAGSIZE, cpu_to_fdt32(Len(val)))
    OBVIOUS
  <1>10. z = Write(e, prop + PropSize, val)
    BY <1>6, <1>9 DEF Done
  <1>11. Tells(b, b.size_dt_struct, n, at, ends, items)
    BY DEF Holding
  <1>12. s = splice_struct(b, prop + PropSize, FDT_TAGALIGN(PropLen(b, prop)),
                           FDT_TAGALIGN(Len(val)))
    BY DEF s
  <1>13. PICK citems : citems = Put(items, n, K - 1, 0, [tag |-> FDT_PROP, name |-> name, val |-> val])
    OBVIOUS
  <1>14. /\ Retold(z, n, at, K - 1, citems) /\ SameStrings(b, z)
         /\ FieldsMoved(z, b, FDT_TAGALIGN(Len(val)) - FDT_TAGALIGN(PropLen(b, prop)))
    <2>1. Resizing(b, f, n, at, ends, items, K, val, prop, s, e, z)
      BY <1>6, <1>7, <1>8, <1>9, <1>10, <1>11, <1>12 DEF Resizing
    <2>2. /\ Retold(z, n, at, K - 1,
                    Put(items, n, K - 1, 0, [tag |-> FDT_PROP, name |-> items[K].name, val |-> val]))
          /\ SameStrings(b, z)
          /\ FieldsMoved(z, b, FDT_TAGALIGN(Len(val)) - FDT_TAGALIGN(PropLen(b, prop)))
      BY <2>1, ResizedTells
    <2> QED
      BY <1>7, <1>13, <2>2
  <1>15. SetTo(z, n, items, at, c, name, val)
    BY <1>1, <1>7, <1>13, <1>14, SetOldTo
  <1> QED
    BY <1>14, <1>15 DEF Resettled, prop

(* It is not.                                                              *)
Settled(b, z, name, val) ==
  /\ SameStrings(b, z)
  /\ FieldsMoved(z, find_add_string(b, name).fdt, PropSize + FDT_TAGALIGN(Len(val)))

LEMMA SetNew ==
  ASSUME NEW b, NEW f, Kept(b, f), whole_mem_rsv_size(f) \in Nat, NEW n, NEW at, NEW ends,
         NEW items, NEW c, Holding(b, n, at, ends, items, c), NEW name \in Seq(Byte),
         \A i \in 1 .. Len(name) : name[i] # NUL, NEW val \in Seq(Byte),
         fdt_get_property(b, at[c], name) < 0,
         NEW r, r = add_property(b, at[c], name, Len(val)), ~(r.ret < 0),
         NEW z, z = Write(r.fdt, r.ret + PropSize, val)
  PROVE  SetTo(z, n, items, at, c, name, val) /\ Settled(b, z, name, val)
  <1> DEFINE prop == fdt_get_property(b, at[c], name)
             next == fdt_check_node_offset(b, at[c])
             str == find_add_string(b, name)
             a == str.fdt
             no == str.ret
             s == splice_struct(a, next, 0, PropSize + FDT_TAGALIGN(Len(val)))
             size == b.size_dt_struct
  <1>1. Sound(b) /\ Tells(b, size, n, at, ends, items)
    BY DEF Kept, Holding
  <1>2. /\ n \in Nat /\ c \in 1 .. n /\ items[c].tag = FDT_BEGIN_NODE
        /\ \A i \in 1 .. n : Tag(b, n, at, items, i)
    BY <1>1, HoldingFacts
  <1>3. PICK K : c < n /\ Found(at, items, n, name, c + 1, prop, K)
    BY <1>1, <1>2, GetPropertyAt
  <1>4. K \in c + 1 .. n /\ Run(items, name, c + 1, K) /\ items[K].tag \notin {FDT_PROP, FDT_NOP}
    <2>1. K \in c + 1 .. n
      BY <1>3 DEF Found
    <2>2. K \in 1 .. n
      BY <1>2, <2>1
    <2>3. at[K] \in Nat
      BY <1>2, <2>2 DEF Tag
    <2>4. prop < 0
      OBVIOUS
    <2> HIDE DEF prop
    <2>5. ~(prop = at[K])
      BY <2>3, <2>4
    <2> QED
      BY <1>3, <2>5 DEF Found
  <1>5. next = at[c + 1] /\ next \in Nat
    <2>1. Tag(b, n, at, items, c)
      BY <1>2
    <2>2. next = at[c + 1]
      BY <1>1, <1>2, <1>3, <2>1, CheckAt
    <2>3. c + 1 \in 1 .. n
      BY <1>2, <1>3
    <2>4. at[c + 1] \in Nat
      BY <1>2, <2>3 DEF Tag
    <2> QED
      BY <2>2, <2>4
  <1>6. r = IF next < 0 THEN Done(b, next)
            ELSE IF no < 0 THEN str
            ELSE IF s.ret < 0 THEN s
            ELSE Done(Write(s.fdt, next, PropHead(Len(val), no)), next)
    BY DEF add_property, IfFound, AndThen, PropHead
  <1> HIDE DEF next, str, s
  <1>7. /\ ~(no < 0) /\ ~(s.ret < 0)
        /\ r = Done(Write(s.fdt, next, PropHead(Len(val), no)), next)
    <2>1. ~(next < 0)
      BY <1>5
    <2>2. ~(no < 0)
      BY <1>6, <2>1
    <2>3. ~(s.ret < 0)
      BY <1>6, <2>1, <2>2
    <2> QED
      BY <1>6, <2>1, <2>2, <2>3
  <1>8. Added(a, b, no, name) /\ Kept(a, f)
    <2>1. LastNul(b)
      BY <1>1 DEF Tells
    <2>2. Added(find_add_string(b, name).fdt, b, find_add_string(b, name).ret, name)
      <3>1. ~(find_add_string(b, name).ret < 0)
        BY <1>7 DEF str
      <3> QED
        BY <2>1, <3>1, FindAddIs
    <2>3. Keeps(find_add_string(b, name), f)
      BY FindAddStringKeeps
    <2> QED
      BY <2>2, <2>3 DEF Keeps, str
  <1> HIDE DEF a, no
  <1>9. Tells(a, a.size_dt_struct, n, at, ends, items) /\ SameStrings(b, a)
    <2>1. Block(b, FDT_SIZE_MAX, size) /\ Sound(a)
      BY <1>1, <1>8, SoundBlock DEF Kept
    <2>2. a.size_dt_struct = size
      BY <1>8 DEF Added
    <2>3. Block(a, FDT_SIZE_MAX, size)
      BY <2>1, <2>2, SoundBlock
    <2> DEFINE S == b.off_dt_struct
               T == b.off_dt_strings
               t == b.size_dt_strings
    <2>4. S \in Nat /\ size \in Nat /\ T \in Nat /\ t \in Nat /\ S + size <= T
      BY <1>1, SoundFields DEF Fields, Ordered
    <2>5. /\ a.off_dt_struct = S /\ a.off_dt_strings = T /\ a.size_dt_strings >= t
          /\ LastNul(a) /\ \A i \in 0 .. (T + t) - 1 : a.mem[i] = b.mem[i]
      BY <1>8 DEF Added, data_size
    <2> HIDE DEF S, T, t, size
    <2>6. ASSUME NEW j \in 0 .. size - 1 PROVE a.mem[(S + 0) + j] = b.mem[(S + 0) + j]
      <3>1. (S + 0) + j \in 0 .. (T + t) - 1
        BY <2>4
      <3> QED
        BY <2>5, <3>1
    <2>7. SameBytes(b, 0, a, 0, size)
      BY <2>5, <2>6 DEF SameBytes, S
    <2>8. ASSUME NEW j \in 0 .. t - 1 PROVE a.mem[T + j] = b.mem[T + j]
      <3>1. T + j \in 0 .. (T + t) - 1
        BY <2>4
      <3> QED
        BY <2>5, <3>1
    <2>9. SameStrings(b, a)
      BY <2>5, <2>8 DEF SameStrings, T, t
    <2>10. Tells(a, size, n, at, ends, items)
      BY <1>1, <2>1, <2>3, <2>5, <2>7, <2>9, TellsSame
    <2> QED
      BY <2>2, <2>9, <2>10
  <1>10. c \in 1 .. n - 1
    BY <1>2, <1>3
  <1>11. no \in 0 .. a.size_dt_strings - 1 /\ fdt_string(a, no) = name
    BY <1>8 DEF Added
  <1>12. PICK e : e = Write(s.fdt, next, PropHead(Len(val), no))
    OBVIOUS
  <1>13. z = Write(e, next + PropSize, val)
    BY <1>7, <1>12 DEF Done
  <1>14. s = splice_struct(a, next, 0, PropSize + FDT_TAGALIGN(Len(val)))
    BY DEF s
  <1>15. PICK citems : citems = Put(items, n, c, 1, [tag |-> FDT_PROP, name |-> name, val |-> val])
    OBVIOUS
  <1>16. /\ Retold(z, n + 1, at, c, citems) /\ SameStrings(a, z)
         /\ FieldsMoved(z, a, PropSize + FDT_TAGALIGN(Len(val)))
    <2>1. Inserting(a, f, n, at, ends, items, c, val, no, name, next, s, e, z)
      BY <1>5, <1>7, <1>8, <1>9, <1>10, <1>11, <1>12, <1>13, <1>14 DEF Inserting
    <2>2. /\ Retold(z, n + 1, at, c,
                    Put(items, n, c, 1, [tag |-> FDT_PROP, name |-> name, val |-> val]))
          /\ SameStrings(a, z) /\ FieldsMoved(z, a, PropSize + FDT_TAGALIGN(Len(val)))
      BY <2>1, InsertTells
    <2> QED
      BY <1>15, <2>2
  <1>17. SameStrings(b, z)
    <2>1. Block(b, FDT_SIZE_MAX, size) /\ Sound(a)
      BY <1>1, <1>8, SoundBlock DEF Kept
    <2>2. Block(a, FDT_SIZE_MAX, a.size_dt_struct)
      BY <2>1, SoundBlock
    <2>3. b.size_dt_strings \in Nat /\ a.size_dt_strings \in Nat
      BY <2>1, <2>2 DEF Block
    <2>4. z.size_dt_strings = a.size_dt_strings
      BY <1>16 DEF FieldsMoved
    <2> HIDE DEF size
    <2> QED
      BY <1>9, <1>16, <2>3, <2>4, SameStringsOn
  <1>18. SetTo(z, n, items, at, c, name, val)
    BY <1>1, <1>3, <1>4, <1>15, <1>16, SetNewTo
  <1> QED
    BY <1>16, <1>17, <1>18 DEF Settled, a, str

LEMMA SetpropGives ==
  ASSUME NEW b, NEW f, Kept(b, f), whole_mem_rsv_size(f) \in Nat, NEW n, NEW at, NEW ends,
         NEW items, NEW c, Holding(b, n, at, ends, items, c), NEW name \in Seq(Byte),
         \A i \in 1 .. Len(name) : name[i] # NUL, NEW val \in Seq(Byte),
         ~(fdt_setprop(b, at[c], name, val).ret < 0)
  PROVE  SetTo(fdt_setprop(b, at[c], name, val).fdt, n, items, at, c, name, val)
  <1> DEFINE r1 == resize_property(b, at[c], name, Len(val))
             r2 == add_property(b, at[c], name, Len(val))
             r == IF r1.ret = -NOTFOUND THEN r2 ELSE r1
             z == Write(r.fdt, r.ret + PropSize + 0, val)
             node == at[c]
  <1>1. rw_check_header(b) = Done(b, 0)
    BY HeaderOk DEF Kept
  <1>2. fdt_setprop(b, node, name, val) = WriteValue(r, 0, val)
    BY <1>1 DEF fdt_setprop, IfHeaderOk, AndThen, Done
  <1>3. Len(val) \in Nat /\ node \in Int
    <2>1. Sound(b)
      BY DEF Kept
    <2>2. c \in 1 .. n /\ \A i \in 1 .. n : Tag(b, n, at, items, i)
      BY <2>1, HoldingFacts
    <2>3. node \in Nat
      BY <2>2 DEF Tag
    <2> QED
      BY <2>3, WithNul
  <1>4. Keeps(r1, f) /\ Keeps(r2, f)
    BY <1>3, ResizeKeeps, AddPropertyKeeps
  <1>5. r1.ret = -NOTFOUND => fdt_get_property(b, node, name) < 0
    <2> DEFINE prop == fdt_get_property(b, node, name)
               s == splice_struct(b, prop + PropSize, FDT_TAGALIGN(PropLen(b, prop)),
                                  FDT_TAGALIGN(Len(val)))
    <2>1. r1 = IF prop < 0 THEN Done(b, prop)
               ELSE IF s.ret < 0 THEN s
               ELSE Done(Write(s.fdt, prop + FDT_TAGSIZE, cpu_to_fdt32(Len(val))), prop)
      BY DEF resize_property, IfFound, AndThen
    <2>2. s.ret # -NOTFOUND
      BY SpliceErrors
    <2> HIDE DEF s, r1
    <2>3. ASSUME ~(prop < 0), r1.ret = -NOTFOUND PROVE FALSE
      <3>1. ~(s.ret < 0)
        BY <2>1, <2>2, <2>3
      <3>2. r1.ret = prop
        BY <2>1, <2>3, <3>1 DEF Done
      <3> HIDE DEF prop
      <3> QED
        BY <2>3, <3>2, Codes
    <2> QED
      BY <2>3
  <1> HIDE DEF r1, r2
  <1>6. r.ret \in Int
    BY <1>4 DEF Keeps
  <1>7. ~(r.ret < 0) /\ fdt_setprop(b, node, name, val) = Done(z, 0)
    <2> HIDE DEF r
    <2>1. ~(r.ret < 0)
      <3> SUFFICES ASSUME r.ret < 0 PROVE FALSE
        OBVIOUS
      <3>1. WriteValue(r, 0, val) = r
        BY DEF WriteValue
      <3> QED
        BY <1>2, <3>1
    <2> QED
      BY <1>2, <2>1 DEF WriteValue
  <1>8. z = Write(r.fdt, r.ret + PropSize, val)
    <2> HIDE DEF r
    <2>1. r.ret + PropSize + 0 = r.ret + PropSize
      BY <1>6, Sizes
    <2> QED
      BY <2>1
  <1> HIDE DEF z
  <1>9. SetTo(z, n, items, at, c, name, val)
    <2>1. CASE r1.ret = -NOTFOUND
      <3>1. ~(r2.ret < 0) /\ z = Write(r2.fdt, r2.ret + PropSize, val)
        BY <1>7, <1>8, <2>1
      <3>2. r2 = add_property(b, at[c], name, Len(val)) /\ fdt_get_property(b, at[c], name) < 0
        BY <1>5, <2>1 DEF r2
      <3> QED
        BY <3>1, <3>2, SetNew
    <2>2. CASE r1.ret # -NOTFOUND
      <3>1. ~(r1.ret < 0) /\ z = Write(r1.fdt, r1.ret + PropSize, val)
        BY <1>7, <1>8, <2>2
      <3>2. r1 = resize_property(b, at[c], name, Len(val))
        BY DEF r1
      <3> QED
        BY <3>1, <3>2, SetOld
    <2> QED
      BY <2>1, <2>2
  <1> QED
    BY <1>7, <1>9 DEF Done

-----------------------------------------------------------------------------
(* The blocks are copied.                                                  *)
Filled(c, m, k, dst, src, n) ==
  /\ Maps(c, 0 .. FDT_SIZE_MAX - 1, Byte)
  /\ \A j \in 0 .. n - 1 : dst + j < FDT_SIZE_MAX => c[dst + j] = k[src + j]
  /\ \A i \in 0 .. FDT_SIZE_MAX - 1 : i < dst \/ i >= dst + n => c[i] = m[i]

LEMMA FilledIs ==
  ASSUME NEW m, Maps(m, 0 .. FDT_SIZE_MAX - 1, Byte), NEW N \in Nat,
         NEW k, Maps(k, 0 .. N - 1, Byte),
         NEW dst \in Nat, NEW src \in Nat, NEW n \in Nat, src + n <= N
  PROVE  Filled(CopyFrom(m, dst, k, src, n), m, k, dst, src, n)
  <1> DEFINE D == 0 .. FDT_SIZE_MAX - 1
             c == CopyFrom(m, dst, k, src, n)
  <1>0. FDT_SIZE_MAX \in Nat
    BY Sizes
  <1>1. Maps(c, D, Byte)
    <2>1. Copied(c, m, k, dst, src, n)
      BY CopyIs
    <2> QED
      BY <2>1 DEF Copied, Beyond
  <1>2. c = [i \in D |-> IF i \in dst .. dst + n - 1 THEN k[src + i - dst] ELSE m[i]]
    BY DEF CopyFrom, Maps
  <1> HIDE DEF c
  <1>3. ASSUME NEW j \in 0 .. n - 1, dst + j < FDT_SIZE_MAX PROVE c[dst + j] = k[src + j]
    <2> DEFINE i == dst + j
    <2>1. i \in D /\ i \in dst .. dst + n - 1 /\ src + i - dst = src + j
      BY <1>0, <1>3
    <2> HIDE DEF i
    <2>2. c[i] = k[src + j]
      BY <1>2, <2>1
    <2> QED
      BY <2>2 DEF i
  <1>4. ASSUME NEW i \in D, i < dst \/ i >= dst + n PROVE c[i] = m[i]
    <2>1. i \notin dst .. dst + n - 1
      BY <1>0, <1>4
    <2> QED
      BY <1>2, <2>1
  <1> QED
    BY <1>1, <1>3, <1>4 DEF Filled, c

PackedBlocks(p, old, k, W, S) ==
  /\ \A j \in 0 .. S - 1 : p.mem[(RsvStart + W) + j] = k[old.off_dt_struct + j]
  /\ \A j \in 0 .. old.size_dt_strings - 1 :
       p.mem[(RsvStart + W + S) + j] = k[old.off_dt_strings + j]

LEMMA PackBlocks ==
  ASSUME NEW old, NEW L, old \in BlobOf(L), NEW W \in Nat, NEW S \in Nat,
         NEW m, Maps(m, 0 .. FDT_SIZE_MAX - 1, Byte), NEW inplace \in BOOLEAN,
         NEW N \in Nat, inplace => N = FDT_SIZE_MAX,
         ~inplace => Maps(old.mem, 0 .. N - 1, Byte),
         old.off_mem_rsvmap + W <= N, old.off_dt_struct + S <= N,
         old.off_dt_strings + old.size_dt_strings <= N,
         RsvStart + W + S + old.size_dt_strings <= FDT_SIZE_MAX,
         inplace => /\ RsvStart + W <= old.off_dt_struct
                    /\ RsvStart + W + S <= old.off_dt_strings
                    /\ old.off_dt_struct + S <= old.off_dt_strings
  PROVE  PackedBlocks(packblocks(old, m, inplace, 0, W, S), old,
                      IF inplace THEN m ELSE old.mem, W, S)
  <1> DEFINE D == 0 .. FDT_SIZE_MAX - 1
             From(now) == IF inplace THEN now ELSE old.mem
             d2 == RsvStart + W
             d3 == d2 + S
             q1 == old.off_mem_rsvmap
             q2 == old.off_dt_struct
             q3 == old.off_dt_strings
             T == old.size_dt_strings
             a1 == 0 + RsvStart
             a2 == 0 + d2
             a3 == 0 + d3
             k1 == From(m)
             m1 == CopyFrom(m, a1, k1, q1, W)
             k2 == From(m1)
             m2 == CopyFrom(m1, a2, k2, q2, S)
             k3 == From(m2)
             m3 == CopyFrom(m2, a3, k3, q3, T)
             p == [old EXCEPT !.off_mem_rsvmap = RsvStart, !.off_dt_struct = d2,
                              !.size_dt_struct = S, !.off_dt_strings = d3, !.mem = m3]
  <1>1. packblocks(old, m, inplace, 0, W, S) = p
    BY DEF packblocks, RsvStart
  <1>2. p.mem = m3
    BY DEF BlobOf
  <1>3. /\ q1 \in Nat /\ q2 \in Nat /\ q3 \in Nat /\ T \in Nat
        /\ q1 + W <= N /\ q2 + S <= N /\ q3 + T <= N
    BY DEF BlobOf
  <1>4. inplace => d2 <= q2 /\ d3 <= q3 /\ q2 + S <= q3 /\ N = FDT_SIZE_MAX
    OBVIOUS
  <1>5. d3 + T <= FDT_SIZE_MAX /\ d2 = RsvStart + W /\ d3 = d2 + S
    OBVIOUS
  <1>6. \A now : Maps(now, D, Byte) => Maps(From(now), 0 .. N - 1, Byte)
    OBVIOUS
  <1>7. /\ inplace => k1 = m /\ k2 = m1 /\ k3 = m2
        /\ ~inplace => k1 = old.mem /\ k2 = old.mem /\ k3 = old.mem
    OBVIOUS
  <1>8. RsvStart \in Nat /\ FDT_SIZE_MAX \in Nat
    BY Sizes
  <1>9. a1 = RsvStart /\ a2 = d2 /\ a3 = d3 /\ a1 \in Nat /\ a2 \in Nat /\ a3 \in Nat
    BY <1>8
  <1>10. Maps(k1, 0 .. N - 1, Byte)
    BY <1>6
  <1> HIDE DEF p, q1, q2, q3, T, From, d2, d3, a1, a2, a3, k1
  <1>11. Filled(m1, m, k1, a1, q1, W)
    BY <1>3, <1>9, <1>10, FilledIs
  <1>12. Maps(k2, 0 .. N - 1, Byte) /\ Maps(m1, D, Byte)
    BY <1>6, <1>11 DEF Filled
  <1> HIDE DEF m1, k2
  <1>13. Filled(m2, m1, k2, a2, q2, S)
    BY <1>3, <1>9, <1>12, FilledIs
  <1>14. Maps(k3, 0 .. N - 1, Byte) /\ Maps(m2, D, Byte)
    BY <1>6, <1>13 DEF Filled
  <1> HIDE DEF m2, k3
  <1>15. Filled(m3, m2, k3, a3, q3, T)
    BY <1>3, <1>9, <1>14, FilledIs
  <1> HIDE DEF m3
  <1>16. d2 \in Nat /\ d3 \in Nat /\ d2 <= d3
    BY <1>5, <1>8
  <1>17. ASSUME NEW j \in 0 .. S - 1 PROVE m3[d2 + j] = k1[q2 + j]
    <2> DEFINE i == d2 + j
               x == q2 + j
    <2>1. i \in D /\ i < d3 /\ i < FDT_SIZE_MAX
      BY <1>3, <1>5, <1>8, <1>16
    <2>2. inplace => x \in D /\ x >= d2
      <3>1. x < N /\ x >= q2 /\ x \in Nat
        BY <1>3
      <3> HIDE DEF x
      <3> QED
        BY <1>3, <1>4, <1>8, <1>16, <3>1
    <2>3. m2[i] = k2[x]
      BY <1>9, <1>13, <2>1 DEF Filled
    <2> HIDE DEF i
    <2>4. m3[i] = m2[i]
      BY <1>9, <1>15, <2>1 DEF Filled
    <2>5. k2[x] = k1[x]
      <3>1. CASE ~inplace
        BY <1>7, <3>1
      <3>2. CASE inplace
        <4> HIDE DEF x
        <4>1. x >= a1 + W /\ x \in D
          BY <1>5, <1>9, <2>2, <3>2
        <4>2. m1[x] = m[x]
          BY <1>11, <4>1 DEF Filled
        <4> QED
          BY <1>7, <3>2, <4>2
      <3> QED
        BY <3>1, <3>2
    <2> QED
      BY <2>3, <2>4, <2>5 DEF i
  <1>18. ASSUME NEW j \in 0 .. T - 1 PROVE m3[d3 + j] = k1[q3 + j]
    <2> DEFINE x == q3 + j
    <2>1. d3 + j < FDT_SIZE_MAX
      BY <1>3, <1>5, <1>8, <1>16
    <2>2. inplace => x \in D /\ x >= d3
      <3>1. x < N /\ x >= q3 /\ x \in Nat
        BY <1>3
      <3> HIDE DEF x
      <3> QED
        BY <1>3, <1>4, <1>8, <1>16, <3>1
    <2>3. m3[d3 + j] = k3[x]
      BY <1>9, <1>15, <2>1 DEF Filled
    <2>4. k3[x] = k1[x]
      <3>1. CASE ~inplace
        BY <1>7, <3>1
      <3>2. CASE inplace
        <4> HIDE DEF x
        <4>1. x >= a2 + S /\ x >= a1 + W /\ x \in D
          BY <1>3, <1>5, <1>8, <1>9, <1>16, <2>2, <3>2
        <4>2. m2[x] = m1[x]
          BY <1>13, <4>1 DEF Filled
        <4>3. m1[x] = m[x]
          BY <1>11, <4>1 DEF Filled
        <4> QED
          BY <1>7, <3>2, <4>2, <4>3
      <3> QED
        BY <3>1, <3>2
    <2> QED
      BY <2>3, <2>4
  <1>19. /\ \A j \in 0 .. S - 1 : p.mem[d2 + j] = k1[q2 + j]
         /\ \A j \in 0 .. T - 1 : p.mem[d3 + j] = k1[q3 + j]
    BY <1>2, <1>17, <1>18
  <1>20. PackedBlocks(p, old, k1, W, S)
    BY <1>19 DEF PackedBlocks, d2, d3, q2, q3, T
  <1> QED
    BY <1>1, <1>20 DEF From, k1

-----------------------------------------------------------------------------
(* A blob that is copied block by block tells the same.                    *)
SameBlocks(b, size, c) ==
  /\ c.size_dt_struct = size /\ c.size_dt_strings = b.size_dt_strings
  /\ \A j \in 0 .. size - 1 : c.mem[c.off_dt_struct + j] = b.mem[b.off_dt_struct + j]
  /\ \A j \in 0 .. b.size_dt_strings - 1 :
       c.mem[c.off_dt_strings + j] = b.mem[b.off_dt_strings + j]

LEMMA CopyTells ==
  ASSUME NEW b, NEW N, NEW size, Block(b, N, size), NEW c, Sound(c),
         SameBlocks(b, size, c),
         NEW n, NEW at, NEW ends, NEW items, Tells(b, size, n, at, ends, items)
  PROVE  Tells(c, c.size_dt_struct, n, at, ends, items)
  <1>1. Block(c, FDT_SIZE_MAX, size)
    BY SoundBlock DEF SameBlocks
  <1>2. /\ b.off_dt_struct \in Int /\ c.off_dt_struct \in Int /\ b.size_dt_strings \in Int
        /\ c.off_dt_strings \in Int /\ b.off_dt_strings \in Int
    BY <1>1 DEF Block
  <1>3. SameBytes(b, 0, c, 0, size)
    <2>1. c.off_dt_struct + 0 = c.off_dt_struct /\ b.off_dt_struct + 0 = b.off_dt_struct
      BY <1>2
    <2> QED
      BY <2>1 DEF SameBytes, SameBlocks
  <1>4. SameStrings(b, c)
    BY <1>2 DEF SameStrings, SameBlocks
  <1>5. LastNul(c)
    <2>1. SUFFICES ASSUME c.size_dt_strings > 0
                   PROVE  c.mem[c.off_dt_strings + c.size_dt_strings - 1] = NUL
      BY DEF LastNul
    <2> DEFINE j == b.size_dt_strings - 1
    <2>2. j \in 0 .. b.size_dt_strings - 1 /\ c.size_dt_strings = b.size_dt_strings
      BY <1>2, <2>1 DEF SameBlocks
    <2>3. c.mem[c.off_dt_strings + j] = b.mem[b.off_dt_strings + j]
      <3> HIDE DEF j
      <3> QED
        BY <2>2 DEF SameBlocks
    <2>4. b.mem[b.off_dt_strings + b.size_dt_strings - 1] = NUL
      BY <2>1, <2>2 DEF Tells, LastNul
    <2>5. /\ b.off_dt_strings + b.size_dt_strings - 1 = b.off_dt_strings + j
          /\ c.off_dt_strings + c.size_dt_strings - 1 = c.off_dt_strings + j
      BY <1>2, <2>2
    <2> QED
      BY <2>3, <2>4, <2>5
  <1>6. Tells(c, size, n, at, ends, items)
    BY <1>1, <1>3, <1>4, <1>5, TellsSame
  <1> QED
    BY <1>6 DEF SameBlocks

(* What a file with the header of a DTB tells.                             *)
Tale(b, size, items) ==
  \E n, at, ends : Tells(b, size, n, at, ends, items) /\ Orderly(items)
Recites(b, items) == Tale(b, b.size_dt_struct, items)
Told(b, t) == \E items : Recites(b, items) /\ TreeOf(items) = t
ToldAt(b, o, t) ==
  \E n, at, ends, items, c :
    Holding(b, n, at, ends, items, c) /\ at[c] = o /\ TreeOf(items) = t

LEMMA CopyTold ==
  ASSUME NEW b, NEW N, NEW size, Block(b, N, size), NEW c, Sound(c),
         SameBlocks(b, size, c), NEW items, Tale(b, size, items)
  PROVE  Recites(c, items)
  <1>1. PICK n, at, ends : Tells(b, size, n, at, ends, items) /\ Orderly(items)
    BY DEF Tale
  <1>2. Tells(c, c.size_dt_struct, n, at, ends, items)
    BY <1>1, CopyTells
  <1> QED
    BY <1>1, <1>2 DEF Recites, Tale

LEMMA FileTells ==
  ASSUME NEW f, Good(f)
  PROVE  /\ Block(f, f.totalsize, SizeOfStruct(f))
         /\ Tale(f, SizeOfStruct(f), Items(f))
  <1> DEFINE size == SizeOfStruct(f)
             at == TagOffsets(f)
             items == [i \in 1 .. Len(at) |-> Item(f, at[i])]
  <1>1. /\ f \in BlobOf(f.totalsize) /\ f.totalsize \in Nat
        /\ Maps(f.mem, 0 .. f.totalsize - 1, Byte) /\ WellFormed(f)
    BY FileFacts
  <1>2. /\ size \in Nat /\ f.off_dt_struct + size <= f.totalsize
        /\ f.off_dt_strings + f.size_dt_strings <= f.totalsize
        /\ Listed(f, size, at) /\ Orderly(Items(f)) /\ Named(f, at)
    BY <1>1 DEF WellFormed, SizeOfStruct
  <1>3. /\ f.off_dt_struct \in Nat /\ f.off_dt_strings \in Nat /\ f.size_dt_strings \in Nat
    BY <1>1 DEF BlobOf
  <1>4. f.version >= 17 => size = f.size_dt_struct
    BY DEF SizeOfStruct
  <1> HIDE DEF size, at
  <1>5. Block(f, f.totalsize, size)
    BY <1>1, <1>2, <1>3, <1>4 DEF Block
  <1>6. PICK ends : Tells(f, size, Len(at), at, ends, items)
    BY <1>2, <1>5, ListedTells
  <1>7. Items(f) = items
    <2>1. at \in Seq(Nat)
      BY <1>2 DEF Listed
    <2>2. DOMAIN at = 1 .. Len(at)
      BY <2>1
    <2> QED
      BY <2>2 DEF Items, at
  <1> HIDE DEF items
  <1>8. Orderly(items)
    BY <1>2, <1>7
  <1>9. Tale(f, size, Items(f))
    BY <1>6, <1>7, <1>8 DEF Tale
  <1> QED
    BY <1>5, <1>9 DEF size

(* And a sound blob that tells a tree has it.                              *)
LEMMA ToldTree ==
  ASSUME NEW b, Sound(b), NEW t, Told(b, t)
  PROVE  Tree(b) = t
  <1>1. PICK n, at, ends, items :
          Tells(b, b.size_dt_struct, n, at, ends, items) /\ TreeOf(items) = t
    BY DEF Told, Recites, Tale
  <1>2. Items(b) = items
    BY <1>1, TellsItems
  <1> QED
    BY <1>1, <1>2 DEF Tree

-----------------------------------------------------------------------------
(* The DTB as it is opened, and the room it takes.                         *)
Roomy(b, f, room) ==
  room \in Int /\ b.totalsize = FDT_SIZE_MAX /\ data_size(b) <= room /\ SameStrings(f, b)

LEMMA BlocksStrings ==
  ASSUME NEW b, NEW size, NEW c, SameBlocks(b, size, c), b.size_dt_strings \in Nat
  PROVE  SameStrings(b, c)
  BY DEF SameBlocks, SameStrings

LEMMA OpenedTells ==
  ASSUME NEW f, Good(f), NEW buf, Maps(buf, 0 .. FDT_SIZE_MAX - 1, Byte),
         ~blocks_misordered(f, whole_mem_rsv_size(f), SizeOfStruct(f))
  PROVE  Recites(Opened(f, buf), Items(f)) /\ Roomy(Opened(f, buf), f, data_size(f))
  <1> DEFINE S == SizeOfStruct(f)
             n == f.totalsize
             z == 0
             m == CopyFrom(buf, z, f.mem, z, n)
             b == Opened(f, buf)
  <1>1. /\ n \in Nat /\ n <= FDT_SIZE_MAX /\ Maps(f.mem, 0 .. n - 1, Byte)
        /\ FDT_SIZE_MAX \in Nat /\ f \in BlobOf(n)
    BY FileFacts, Sizes
  <1>2. Block(f, n, S) /\ Tale(f, S, Items(f))
    BY FileTells
  <1>3. Sound(b)
    BY OpenedKeeps DEF Kept
  <1>4. /\ b.mem = m /\ b.size_dt_struct = S /\ b.off_dt_struct = f.off_dt_struct
        /\ b.off_dt_strings = f.off_dt_strings /\ b.size_dt_strings = f.size_dt_strings
        /\ b.totalsize = FDT_SIZE_MAX
    <2>1. b = [f EXCEPT !.mem = m, !.version = 17, !.size_dt_struct = S,
                        !.totalsize = FDT_SIZE_MAX]
      BY DEF Opened
    <2> HIDE DEF b, m, S, n
    <2> QED
      BY <1>1, <2>1 DEF BlobOf
  <1>5. z \in Nat /\ z + n <= n
    BY <1>1
  <1> HIDE DEF b, n, S, z
  <1>6. Filled(m, buf, f.mem, z, z, n)
    BY <1>1, <1>5, FilledIs
  <1>7. \A j \in 0 .. n - 1 : m[j] = f.mem[j]
    <2>1. \A j \in 0 .. n - 1 : z + j = j /\ z + j < FDT_SIZE_MAX
      BY <1>1 DEF z
    <2> HIDE DEF m
    <2> QED
      BY <1>6, <2>1 DEF Filled
  <1>8. /\ f.off_dt_struct \in Nat /\ f.off_dt_strings \in Nat /\ f.size_dt_strings \in Nat
        /\ S \in Nat /\ f.off_dt_struct + S <= n /\ f.off_dt_strings + f.size_dt_strings <= n
    BY <1>2 DEF Block
  <1>9. /\ \A j \in 0 .. S - 1 : f.off_dt_struct + j \in 0 .. n - 1
        /\ \A j \in 0 .. f.size_dt_strings - 1 : f.off_dt_strings + j \in 0 .. n - 1
    <2>1. PICK s, k, T : s = f.off_dt_struct /\ k = f.off_dt_strings /\ T = f.size_dt_strings
      OBVIOUS
    <2>2. s \in Nat /\ k \in Nat /\ T \in Nat /\ S \in Nat /\ n \in Nat
          /\ s + S <= n /\ k + T <= n
      BY <1>1, <1>8, <2>1
    <2>3. \A j \in 0 .. S - 1 : s + j \in 0 .. n - 1
      BY <2>2
    <2>4. \A j \in 0 .. T - 1 : k + j \in 0 .. n - 1
      BY <2>2
    <2> QED
      BY <2>1, <2>3, <2>4
  <1> HIDE DEF m
  <1>10. SameBlocks(f, S, b)
    BY <1>4, <1>7, <1>9 DEF SameBlocks
  <1>11. Recites(b, Items(f))
    BY <1>2, <1>3, <1>10, CopyTold
  <1>12. Roomy(b, f, data_size(f))
    <2>1. SameStrings(f, b)
      BY <1>8, <1>10, BlocksStrings
    <2>2. data_size(b) <= data_size(f)
      BY <1>4, <1>8 DEF data_size
    <2> QED
      BY <1>4, <1>8, <2>1, <2>2 DEF Roomy, data_size
  <1> QED
    BY <1>11, <1>12 DEF b

(* A packed copy of a blob holds its blocks.                               *)
LEMMA PackedSame ==
  ASSUME NEW p, NEW old, NEW k, NEW W, NEW S, PackedBlocks(p, old, k, W, S), k = old.mem,
         NEW c, c.mem = p.mem, c.size_dt_struct = S,
         c.off_dt_struct = RsvStart + W, c.off_dt_strings = RsvStart + W + S,
         c.size_dt_strings = old.size_dt_strings
  PROVE  SameBlocks(old, S, c)
  BY DEF PackedBlocks, SameBlocks

LEMMA ReorderedTells ==
  ASSUME NEW f, Good(f), NEW buf, Maps(buf, 0 .. FDT_SIZE_MAX - 1, Byte),
         SizeOrdered(f) <= FDT_SIZE_MAX
  PROVE  Recites(Reordered(f, buf), Items(f)) /\ Roomy(Reordered(f, buf), f, SizeOrdered(f))
  <1> DEFINE W == whole_mem_rsv_size(f)
             S == SizeOfStruct(f)
             n == f.totalsize
             q == f.off_mem_rsvmap
             T == f.size_dt_strings
             p == PackedInto(f, buf)
             b == Reordered(f, buf)
  <1>1. /\ f \in BlobOf(n) /\ n \in Nat /\ n <= FDT_SIZE_MAX /\ Maps(f.mem, 0 .. n - 1, Byte)
        /\ W \in Nat /\ q \in Nat /\ q + W <= n /\ FDT_SIZE_MAX \in Nat /\ RsvStart \in Nat
    BY FileFacts, FileCount, Sizes
  <1>2. Block(f, n, S) /\ Tale(f, S, Items(f))
    BY FileTells
  <1>3. /\ S \in Nat /\ f.off_dt_struct + S <= n /\ f.off_dt_strings + f.size_dt_strings <= n
        /\ T \in Nat
    BY <1>2 DEF Block
  <1>4. RsvStart + W + S + T <= FDT_SIZE_MAX
    BY DEF SizeOrdered
  <1>5. Sound(b)
    BY ReorderedKeeps DEF Kept
  <1> HIDE DEF n, S, W
  <1>6. RsvStart + W <= FDT_SIZE_MAX
    <2> HIDE DEF T
    <2> QED
      BY <1>1, <1>3, <1>4
  <1>7. Packed(p, f, f.mem, W, S) /\ PackedBlocks(p, f, f.mem, W, S)
    <2> DEFINE i == FALSE
    <2>1. i \in BOOLEAN /\ ~i
      OBVIOUS
    <2> HIDE DEF i, q
    <2>2. Packed(packblocks(f, buf, i, 0, W, S), f, IF i THEN buf ELSE f.mem, W, S)
      <3> HIDE DEF T
      <3> QED
        BY <1>1, <1>3, <1>6, <2>1, PackIs DEF q
    <2>3. PackedBlocks(packblocks(f, buf, i, 0, W, S), f, IF i THEN buf ELSE f.mem, W, S)
      <3>1. RsvStart + W + S + f.size_dt_strings <= FDT_SIZE_MAX
        BY <1>4
      <3> HIDE DEF T
      <3> QED
        BY <1>1, <1>3, <2>1, <3>1, PackBlocks DEF q
    <2>4. packblocks(f, buf, i, 0, W, S) = p
      BY DEF PackedInto, i, W, S
    <2> QED
      BY <2>1, <2>2, <2>3, <2>4
  <1> HIDE DEF p
  <1>8. memmove(p.mem, 0, 0, SizeOrdered(f)) = p.mem
    <2>1. Maps(p.mem, 0 .. FDT_SIZE_MAX - 1, Byte)
      BY <1>7 DEF Packed, BlobOf, Maps
    <2> QED
      BY <2>1, MoveNone
  <1>9. b = [p EXCEPT !.mem = p.mem, !.totalsize = FDT_SIZE_MAX, !.version = 17,
                      !.last_comp_version = 16, !.boot_cpuid_phys = f.boot_cpuid_phys]
    BY <1>8 DEF Reordered, p
  <1> HIDE DEF b
  <1>10. /\ b.mem = p.mem /\ b.size_dt_struct = S /\ b.off_dt_struct = RsvStart + W
         /\ b.off_dt_strings = RsvStart + W + S /\ b.size_dt_strings = f.size_dt_strings
         /\ b.totalsize = FDT_SIZE_MAX
    <2>1. p \in BlobOf(FDT_SIZE_MAX)
      BY <1>7 DEF Packed
    <2>2. /\ b.mem = p.mem /\ b.size_dt_struct = p.size_dt_struct
          /\ b.off_dt_struct = p.off_dt_struct
          /\ b.off_dt_strings = p.off_dt_strings /\ b.size_dt_strings = p.size_dt_strings
          /\ b.totalsize = FDT_SIZE_MAX
      BY <1>9, <2>1 DEF BlobOf
    <2> QED
      BY <1>7, <2>2 DEF Packed
  <1>11. SameBlocks(f, S, b)
    BY <1>7, <1>10, PackedSame
  <1>12. Recites(b, Items(f))
    BY <1>2, <1>5, <1>11, CopyTold
  <1>13. Roomy(b, f, SizeOrdered(f))
    <2>1. SameStrings(f, b)
      BY <1>3, <1>11, BlocksStrings
    <2>2. data_size(b) = RsvStart + W + S + T
      BY <1>10 DEF data_size
    <2>3. SizeOrdered(f) = RsvStart + W + S + T
      BY DEF SizeOrdered, W, S
    <2>4. RsvStart + W + S + T \in Nat
      <3> HIDE DEF T
      <3> QED
        BY <1>1, <1>3
    <2>5. data_size(b) <= SizeOrdered(f)
      BY <2>2, <2>3, <2>4
    <2> QED
      BY <1>10, <2>1, <2>3, <2>4, <2>5 DEF Roomy
  <1> QED
    BY <1>12, <1>13 DEF b

OpenRoom(f) ==
  IF blocks_misordered(f, whole_mem_rsv_size(f), SizeOfStruct(f))
  THEN SizeOrdered(f) ELSE data_size(f)

LEMMA OpenTells ==
  ASSUME NEW f \in Files, NEW buf, Maps(buf, 0 .. FDT_SIZE_MAX - 1, Byte)
  PROVE  LET r == fdt_open_into(f, buf, FALSE) IN
         /\ r.ret >= 0 => Recites(r.fdt, Items(f)) /\ Roomy(r.fdt, f, OpenRoom(f))
         /\ r.ret < 0 => fdt_check_header(f) # 0 \/ OpenRoom(f) > FDT_SIZE_MAX
  <1> DEFINE r == fdt_open_into(f, buf, FALSE)
  <1> DEFINE Held == Recites(r.fdt, Items(f)) /\ Roomy(r.fdt, f, OpenRoom(f))
  <1>0. r.ret >= 0 => Good(f)
    BY OpenKeeps
  <1> SUFFICES /\ r.ret >= 0 => Held
               /\ r.ret < 0 => fdt_check_header(f) # 0 \/ OpenRoom(f) > FDT_SIZE_MAX
    OBVIOUS
  <1> SUFFICES ASSUME Good(f)
               PROVE  (r.ret >= 0 => Held) /\ (r.ret < 0 => OpenRoom(f) > FDT_SIZE_MAX)
    <2>1. r.ret \in Int
      BY OpenKeeps
    <2> HIDE DEF r, Held
    <2> QED
      BY <1>0, <2>1 DEF Good
  <1>1. Good(f)
    OBVIOUS
  <1> DEFINE W == whole_mem_rsv_size(f)
             S == SizeOfStruct(f)
             n == SizeOrdered(f)
             R == RsvStart
  <1>2. /\ S \in Nat /\ f.totalsize \in Nat /\ f.totalsize <= FDT_SIZE_MAX
        /\ FDT_SIZE_MAX \in Nat /\ n \in Nat /\ fdt_check_header(f) = 0
    <2>1. S \in Nat
      BY <1>1, FileFacts DEF WellFormed, SizeOfStruct
    <2>2. f.size_dt_strings \in Nat
      BY <1>1, FileFacts DEF BlobOf
    <2>3. RsvStart \in Nat /\ W \in Nat
      BY <1>1, Sizes, FileCount
    <2> HIDE DEF S, W
    <2>4. n = RsvStart + W + S + f.size_dt_strings
      BY DEF SizeOrdered, W, S
    <2> QED
      BY <1>1, <2>1, <2>2, <2>3, <2>4, FileFacts, Sizes DEF Good
  <1>3. Cardinality(DOMAIN buf) = FDT_SIZE_MAX
    <2>1. DOMAIN buf = 0 .. FDT_SIZE_MAX - 1
      BY DEF Maps
    <2>2. Cardinality(0 .. FDT_SIZE_MAX - 1) =
            IF 0 > FDT_SIZE_MAX - 1 THEN 0 ELSE (FDT_SIZE_MAX - 1) - 0 + 1
      BY <1>2, FS_Interval
    <2> QED
      BY <1>2, <2>1, <2>2
  <1>4. r = IF ~blocks_misordered(f, W, S)
            THEN IF f.totalsize > FDT_SIZE_MAX THEN Fail(f, NOSPACE)
                 ELSE Done(Opened(f, buf), 0)
            ELSE IF 0 + n > FDT_SIZE_MAX THEN Fail(f, NOSPACE)
                 ELSE Done(Reordered(f, buf), 0)
    <2>1. ~(S < 0)
      BY <1>2
    <2> QED
      BY <1>2, <1>3, <2>1
         DEF fdt_open_into, Opened, Reordered, PackedInto, SizeOrdered, SizeOfStruct, RsvStart
  <1> HIDE DEF r
  <1>5. CASE ~blocks_misordered(f, W, S)
    <2>1. r = Done(Opened(f, buf), 0) /\ OpenRoom(f) = data_size(f)
      <3>1. OpenRoom(f) = data_size(f)
        BY <1>5 DEF OpenRoom
      <3> HIDE DEF W, S
      <3> QED
        BY <1>2, <1>4, <1>5, <3>1
    <2>2. Recites(Opened(f, buf), Items(f)) /\ Roomy(Opened(f, buf), f, data_size(f))
      BY <1>1, <1>5, OpenedTells
    <2>3. r.fdt = Opened(f, buf) /\ r.ret = 0
      BY <2>1 DEF Done
    <2> QED
      BY <2>1, <2>2, <2>3
  <1>6. CASE blocks_misordered(f, W, S) /\ n > FDT_SIZE_MAX
    <2>1. OpenRoom(f) = n
      BY <1>6 DEF OpenRoom
    <2>2. r = Fail(f, NOSPACE)
      <3> HIDE DEF W, S, n
      <3> QED
        BY <1>2, <1>4, <1>6
    <2>3. r.ret < 0 /\ ~(r.ret >= 0)
      BY <2>2 DEF Fail, NOSPACE
    <2> QED
      BY <1>6, <2>1, <2>3
  <1>7. CASE blocks_misordered(f, W, S) /\ n <= FDT_SIZE_MAX
    <2>1. r = Done(Reordered(f, buf), 0) /\ OpenRoom(f) = SizeOrdered(f)
      <3>1. OpenRoom(f) = SizeOrdered(f)
        BY <1>7 DEF OpenRoom
      <3> HIDE DEF W, S, n
      <3> QED
        BY <1>2, <1>4, <1>7, <3>1
    <2>2. Recites(Reordered(f, buf), Items(f)) /\ Roomy(Reordered(f, buf), f, SizeOrdered(f))
      BY <1>1, <1>7, ReorderedTells
    <2>3. r.fdt = Reordered(f, buf) /\ r.ret = 0
      BY <2>1 DEF Done
    <2> QED
      BY <2>1, <2>2, <2>3
  <1>8. n > FDT_SIZE_MAX \/ n <= FDT_SIZE_MAX
    <2> HIDE DEF n
    <2> QED
      BY <1>2
  <1> QED
    BY <1>5, <1>6, <1>7, <1>8

LEMMA PackTells ==
  ASSUME NEW b, NEW f, Good(f), Kept(b, f), NEW t, Told(b, t)
  PROVE  Told(fdt_pack(b).fdt, t)
  <1> DEFINE W == whole_mem_rsv_size(f)
             S == b.size_dt_struct
             T == b.size_dt_strings
             q == b.off_mem_rsvmap
             p == packblocks(b, b.mem, TRUE, 0, W, S)
             c == [p EXCEPT !.totalsize = data_size(p)]
  <1>1. fdt_pack(b).fdt = c
    <2>1. rw_check_header(b) = Done(b, 0) /\ whole_mem_rsv_size(b) = W
      BY HeaderOk, SameMap DEF Kept
    <2> QED
      BY <2>1 DEF fdt_pack, IfHeaderOk, AndThen, Done
  <1>2. Sound(b) /\ Fields(b) /\ Ordered(b) /\ b \in BlobOf(FDT_SIZE_MAX) /\ SameFront(b, f)
    BY SoundFields DEF Kept, Sound
  <1>3. /\ q \in Nat /\ S \in Nat /\ T \in Nat /\ W \in Nat /\ b.off_dt_struct \in Nat
        /\ b.off_dt_strings \in Nat /\ b.totalsize \in Nat /\ b.totalsize <= FDT_SIZE_MAX
        /\ FDT_SIZE_MAX \in Nat /\ RsvStart \in Nat
    BY <1>2, FileCount, Sizes DEF Fields, Ordered
  <1>4. /\ RsvStart <= q /\ q + W <= b.off_dt_struct
        /\ b.off_dt_struct + S <= b.off_dt_strings
        /\ b.off_dt_strings + T <= b.totalsize /\ S > 0
    BY <1>2 DEF Ordered, SameFront
  <1>0. PICK items : Recites(b, items) /\ TreeOf(items) = t
    BY DEF Told
  <1>5. Block(b, FDT_SIZE_MAX, S) /\ Tale(b, S, items) /\ Sound(fdt_pack(b).fdt)
    BY <1>0, <1>2, SoundBlock, PackKeeps DEF Kept, Recites
  <1> HIDE DEF S, T, W, q
  <1>6. /\ q + W <= FDT_SIZE_MAX /\ b.off_dt_struct + S <= FDT_SIZE_MAX
        /\ b.off_dt_strings + T <= FDT_SIZE_MAX /\ RsvStart + W <= FDT_SIZE_MAX
        /\ RsvStart + W + S + T <= FDT_SIZE_MAX
        /\ RsvStart + W <= b.off_dt_struct /\ RsvStart + W + S <= b.off_dt_strings
    BY <1>3, <1>4
  <1>7. Packed(p, b, b.mem, W, S) /\ PackedBlocks(p, b, b.mem, W, S)
    <2> DEFINE i == TRUE
               N == FDT_SIZE_MAX
    <2>1. /\ i \in BOOLEAN /\ N \in Nat /\ i => N = FDT_SIZE_MAX
          /\ ~i => Maps(b.mem, 0 .. N - 1, Byte)
      BY <1>3
    <2>2. i
      OBVIOUS
    <2>3. /\ q + W <= N /\ b.off_dt_struct + S <= N /\ b.off_dt_strings + T <= N
          /\ Maps(b.mem, 0 .. FDT_SIZE_MAX - 1, Byte)
      BY <1>2, <1>6 DEF Fields
    <2> HIDE DEF i, N
    <2>4. Packed(packblocks(b, b.mem, i, 0, W, S), b, IF i THEN b.mem ELSE b.mem, W, S)
      BY <1>2, <1>3, <1>6, <2>1, <2>2, <2>3, PackIs DEF q, T
    <2>5. PackedBlocks(packblocks(b, b.mem, i, 0, W, S), b, IF i THEN b.mem ELSE b.mem, W, S)
      BY <1>2, <1>3, <1>4, <1>6, <2>1, <2>2, <2>3, PackBlocks DEF q, T
    <2> QED
      BY <2>4, <2>5 DEF i
  <1> HIDE DEF p
  <1>8. /\ c.mem = p.mem /\ c.size_dt_struct = S /\ c.off_dt_struct = RsvStart + W
        /\ c.off_dt_strings = RsvStart + W + S /\ c.size_dt_strings = b.size_dt_strings
    <2>1. p \in BlobOf(FDT_SIZE_MAX)
      BY <1>7 DEF Packed
    <2>2. /\ c.mem = p.mem /\ c.size_dt_struct = p.size_dt_struct
          /\ c.off_dt_struct = p.off_dt_struct
          /\ c.off_dt_strings = p.off_dt_strings /\ c.size_dt_strings = p.size_dt_strings
      BY <2>1 DEF BlobOf
    <2> QED
      BY <1>7, <2>2 DEF Packed
  <1> HIDE DEF c
  <1>9. SameBlocks(b, S, c)
    BY <1>7, <1>8, PackedSame
  <1>10. Recites(fdt_pack(b).fdt, items)
    BY <1>1, <1>5, <1>9, CopyTold
  <1> QED
    BY <1>0, <1>10 DEF Told

-----------------------------------------------------------------------------
(* The tree in the buffer at each step, from that of the DTB on.           *)
Telling ==
  /\ pc = "chosen" => Recites(fdt, Items(boot_param))
  /\ pc = "bootargs" => ToldAt(fdt, chosen, Tree(boot_param))
  /\ pc = "initrd_start" => ToldAt(fdt, chosen, Args)
  /\ pc = "initrd_end" => initrd.size # 0 /\ ToldAt(fdt, chosen, WithStart)
  /\ pc = "pack" => Told(fdt, Expected)
  /\ pc = "kernel" => Told(fdt, Expected) /\ start = "fdt"

LEMMA ToldAtTold ==
  ASSUME NEW b, NEW o, NEW t, ToldAt(b, o, t)
  PROVE  Told(b, t)
  BY DEF ToldAt, Told, Recites, Tale, Holding

(* An edit of the node chosen is the edit of the tree.                     *)
LEMMA SetTells ==
  ASSUME IInv, pc \in Edited, NEW name \in Seq(Byte),
         \A i \in 1 .. Len(name) : name[i] # NUL, NEW val \in Seq(Byte),
         NEW t, ToldAt(fdt, chosen, t), ~(fdt_setprop(fdt, chosen, name, val).ret < 0)
  PROVE  ToldAt(fdt_setprop(fdt, chosen, name, val).fdt, chosen, WithProp(t, name, val))
  <1>1. /\ Good(boot_param) /\ Kept(fdt, boot_param)
    BY DEF IInv, Work
  <1>2. whole_mem_rsv_size(boot_param) \in Nat
    BY <1>1, FileCount
  <1>3. PICK n, at, ends, items, c :
          Holding(fdt, n, at, ends, items, c) /\ at[c] = chosen /\ TreeOf(items) = t
    BY DEF ToldAt
  <1> DEFINE z == fdt_setprop(fdt, at[c], name, val).fdt
  <1>4. ~(fdt_setprop(fdt, at[c], name, val).ret < 0)
    BY <1>3
  <1>5. SetTo(z, n, items, at, c, name, val)
    BY <1>1, <1>2, <1>3, <1>4, SetpropGives
  <1>6. z = fdt_setprop(fdt, chosen, name, val).fdt
    BY <1>3
  <1> HIDE DEF z
  <1>7. ToldAt(z, chosen, WithProp(t, name, val))
    BY <1>3, <1>5 DEF SetTo, ToldAt
  <1> QED
    BY <1>6, <1>7

LEMMA NoNuls ==
  \A name \in {BOOTARGS, INITRD_START, INITRD_END} :
    name \in Seq(Byte) /\ \A i \in 1 .. Len(name) : name[i] # NUL
  <1>1. \A n \in {CHOSEN, BOOTARGS, INITRD_START, INITRD_END} : Plain(n)
    BY UpdateAssumption, Zenon
  <1> DEFINE Q == Seq(Byte)
  <1> SUFFICES ASSUME NEW name \in {BOOTARGS, INITRD_START, INITRD_END}
               PROVE  name \in Q /\ \A i \in 1 .. Len(name) : name[i] # NUL
    OBVIOUS
  <1>2. Plain(name)
    BY <1>1
  <1>3. name \in Seq(Byte) /\ \A i \in DOMAIN name : name[i] # NUL
    BY <1>2 DEF Plain
  <1>4. DOMAIN name = 1 .. Len(name)
    <2> DEFINE B == Byte
    <2>1. name \in Seq(B)
      BY <1>3
    <2> HIDE DEF B
    <2> QED
      BY <2>1
  <1> QED
    BY <1>3, <1>4

LEMMA TellingStep ==
  ASSUME IInv, Telling, [Next]_vars
  PROVE  Telling'
  <1>1. CASE SetCmdline \/ LoadInitrd \/ LoadDtb
    <2>1. pc' = "prompt"
      BY <1>1 DEF SetCmdline, LoadInitrd, LoadDtb
    <2> QED
      BY <2>1 DEF Telling
  <1>2. CASE Alloc
    <2>1. pc' \in {"open", "failed"}
      BY <1>2 DEF Alloc
    <2> QED
      BY <2>1 DEF Telling
  <1>3. CASE Return
    <2>1. pc' = "prompt"
      BY <1>3 DEF Return
    <2> QED
      BY <2>1 DEF Telling
  <1>4. CASE Open
    <2> DEFINE r == fdt_open_into(boot_param, fdt.mem, FALSE)
    <2>1. boot_param \in Files /\ Maps(fdt.mem, 0 .. FDT_SIZE_MAX - 1, Byte)
      BY <1>4 DEF Open, IInv, Given, Work, Buffer
    <2>2. r.ret \in Int /\ (r.ret >= 0 => Recites(r.fdt, Items(boot_param)))
      BY <2>1, OpenKeeps, OpenTells
    <2>3. /\ fdt' = IF r.ret < 0 THEN fdt ELSE r.fdt
          /\ pc' = IF r.ret < 0 THEN "failed" ELSE "chosen"
          /\ boot_param' = boot_param
      BY <1>4 DEF Open, settings
    <2> HIDE DEF r
    <2>4. CASE r.ret < 0
      BY <2>3, <2>4 DEF Telling
    <2>5. CASE ~(r.ret < 0)
      <3>1. pc' = "chosen" /\ Recites(fdt', Items(boot_param'))
        BY <2>2, <2>3, <2>5
      <3> QED
        BY <3>1 DEF Telling
    <2> QED
      BY <2>4, <2>5
  <1>5. CASE FindChosen
    <2> DEFINE e == fdt_subnode_offset(fdt, 0, CHOSEN)
               r == fdt_make_node(fdt, 0, CHOSEN)
    <2>1. pc = "chosen" /\ "chosen" \in Edited
      BY <1>5 DEF FindChosen, Edited
    <2> DEFINE items == Items(boot_param)
    <2>2. Sound(fdt) /\ Recites(fdt, items)
      BY <2>1 DEF IInv, Work, Kept, Telling
    <2> HIDE DEF items
    <2>3. PICK n, at, ends :
            Tells(fdt, fdt.size_dt_struct, n, at, ends, items) /\ Orderly(items)
      BY <2>2 DEF Recites, Tale
    <2>4. (e \in Int /\ e < 0) \/ AtSpot(at, items, n, e)
      BY <2>2, <2>3, ChosenAt
    <2>5. r.fdt = fdt /\ r.ret = e /\ e \in Int
      <3>1. e \in Int /\ e # NOTFOUND
        BY <2>2, SubnodeIs
      <3>2. r = IF e # NOTFOUND THEN Done(fdt, e) ELSE fdt_add_subnode(fdt, 0, CHOSEN)
        BY DEF fdt_make_node
      <3> HIDE DEF e, r
      <3> QED
        BY <3>1, <3>2 DEF Done
    <2>7. /\ chosen' = r.ret /\ fdt' = r.fdt
          /\ pc' = IF r.ret < 0 THEN "failed" ELSE "bootargs"
          /\ boot_param' = boot_param
      BY <1>5 DEF FindChosen, settings
    <2>9. r.ret < 0 \/ AtSpot(at, items, n, r.ret)
      <3> HIDE DEF e, r
      <3> QED
        BY <2>4, <2>5
    <2> HIDE DEF r, e
    <2>10. CASE r.ret < 0
      <3>1. pc' = "failed"
        BY <2>7, <2>10
      <3> QED
        BY <3>1 DEF Telling
    <2>11. CASE ~(r.ret < 0)
      <3>1. PICK c \in 1 .. n : r.ret = at[c] /\ Spot(items, n, c)
        BY <2>9, <2>11 DEF AtSpot
      <3>2. Holding(fdt, n, at, ends, items, c)
        BY <2>3, <3>1 DEF Holding
      <3>3. ToldAt(fdt', chosen', Tree(boot_param'))
        <4>1. TreeOf(items) = Tree(boot_param')
          BY <2>7 DEF Tree, items
        <4> QED
          BY <2>5, <2>7, <3>1, <3>2, <4>1 DEF ToldAt
      <3>4. pc' = "bootargs"
        BY <2>7, <2>11
      <3> QED
        BY <3>3, <3>4 DEF Telling
    <2> QED
      BY <2>10, <2>11
  <1>6. CASE SetBootargs
    <2> DEFINE s == Append(kernel_cmdline, NUL)
               w == SetString(BOOTARGS, kernel_cmdline)
               r == IF kernel_cmdline = << >> THEN Done(fdt, 0) ELSE w
    <2>1. pc \in Edited /\ ToldAt(fdt, chosen, Tree(boot_param))
      BY <1>6 DEF SetBootargs, Edited, Telling
    <2>2. s \in Seq(Byte)
      <3> DEFINE e == Byte
      <3>1. NUL \in e
        BY DEF NUL, Byte, Base
      <3>2. kernel_cmdline \in Seq(e)
        BY DEF IInv, Given
      <3> HIDE DEF e
      <3>3. s \in Seq(e)
        BY <3>1, <3>2
      <3> QED
        BY <3>3 DEF e
    <2> HIDE DEF s
    <2>3. ~(w.ret < 0) => ToldAt(w.fdt, chosen, WithProp(Tree(boot_param), BOOTARGS, s))
      BY <2>1, <2>2, SetTells, NoNuls DEF SetString, s
    <2>4. /\ fdt' = r.fdt /\ pc' = IF r.ret < 0 THEN "failed" ELSE "initrd_start"
          /\ chosen' = chosen /\ boot_param' = boot_param
          /\ kernel_cmdline' = kernel_cmdline
      BY <1>6 DEF SetBootargs, Step, Failed, settings
    <2>5. Args' = IF kernel_cmdline = << >> THEN Tree(boot_param)
                  ELSE WithProp(Tree(boot_param), BOOTARGS, s)
      BY <2>4 DEF Args, s
    <2> HIDE DEF w
    <2>6. ~(r.ret < 0) => ToldAt(r.fdt, chosen, Args')
      <3>1. CASE kernel_cmdline = << >>
        BY <2>1, <2>5, <3>1 DEF Done
      <3>2. CASE kernel_cmdline # << >>
        BY <2>3, <2>5, <3>2
      <3> QED
        BY <3>1, <3>2
    <2> HIDE DEF r
    <2>7. pc' = "failed" \/ (pc' = "initrd_start" /\ ToldAt(fdt', chosen', Args'))
      BY <2>4, <2>6
    <2> QED
      BY <2>7 DEF Telling
  <1>7. CASE SetInitrdStart
    <2> DEFINE r == SetCell(INITRD_START, initrd.addr)
    <2>1. pc \in Edited /\ ToldAt(fdt, chosen, Args)
      BY <1>7 DEF SetInitrdStart, Edited, Telling
    <2>2. cpu_to_fdt32(initrd.addr) \in Seq(Byte)
      BY Cpu32Type DEF IInv, Given
    <2>3. ~(r.ret < 0) => ToldAt(r.fdt, chosen, WithStart)
      BY <2>1, <2>2, SetTells, NoNuls DEF SetCell, WithStart
    <2> HIDE DEF r
    <2>4. UNCHANGED <<settings, chosen>>
      BY <1>7 DEF SetInitrdStart, Step
    <2>5. Args' = Args /\ WithStart' = WithStart /\ Expected' = Expected
          /\ initrd' = initrd /\ chosen' = chosen
      BY <2>4 DEF settings, Args, WithStart, Expected, initrd_end
    <2>6. CASE initrd.size = 0
      <3>1. fdt' = Done(fdt, 0).fdt
            /\ pc' = IF Done(fdt, 0).ret < 0 THEN "failed" ELSE "pack"
        BY <1>7, <2>6 DEF SetInitrdStart, Step, Failed
      <3>2. fdt' = fdt /\ pc' = "pack"
        BY <3>1 DEF Done
      <3>3. Expected = Args
        BY <2>6 DEF Expected
      <3>4. Told(fdt', Expected')
        BY <2>1, <2>5, <3>2, <3>3, ToldAtTold
      <3> QED
        BY <3>2, <3>4 DEF Telling
    <2>7. CASE initrd.size # 0
      <3>1. fdt' = r.fdt /\ pc' = IF r.ret < 0 THEN "failed" ELSE "initrd_end"
        BY <1>7, <2>7 DEF SetInitrdStart, Step, Failed, r
      <3>2. pc' = "failed" \/ (pc' = "initrd_end" /\ ToldAt(fdt', chosen', WithStart'))
        BY <2>3, <2>5, <3>1
      <3>3. initrd'.size # 0
        BY <2>5, <2>7
      <3> QED
        BY <3>2, <3>3 DEF Telling
    <2> QED
      BY <2>6, <2>7
  <1>8. CASE SetInitrdEnd
    <2> DEFINE x == initrd_end
               r == SetCell(INITRD_END, x)
    <2>1. pc \in Edited /\ initrd.size # 0 /\ ToldAt(fdt, chosen, WithStart)
      BY <1>8 DEF SetInitrdEnd, Edited, Telling
    <2>2. x \in Int
      <3>1. initrd.addr + initrd.size \in Int
        BY DEF IInv, Given
      <3>2. WordBase \in Nat /\ WordBase > 0
        BY PowerIs, Sizes DEF WordBase
      <3> QED
        BY <3>1, <3>2 DEF initrd_end
    <2> HIDE DEF x
    <2>3. cpu_to_fdt32(x) \in Seq(Byte)
      BY <2>2, Cpu32Type
    <2>4. Expected = WithProp(WithStart, INITRD_END, cpu_to_fdt32(x))
      BY <2>1 DEF Expected, x
    <2>5. ~(r.ret < 0) => ToldAt(r.fdt, chosen, Expected)
      BY <2>1, <2>3, <2>4, SetTells, NoNuls DEF SetCell
    <2>6. /\ fdt' = r.fdt /\ pc' = IF r.ret < 0 THEN "failed" ELSE "pack"
          /\ UNCHANGED <<settings, chosen>>
      BY <1>8 DEF SetInitrdEnd, Step, Failed, x
    <2> HIDE DEF r
    <2>7. Expected' = Expected
      BY <2>6 DEF settings, Expected, WithStart, Args, initrd_end
    <2>8. pc' = "failed" \/ (pc' = "pack" /\ Told(fdt', Expected'))
      BY <2>5, <2>6, <2>7, ToldAtTold
    <2> QED
      BY <2>8 DEF Telling
  <1>9. CASE Pack
    <2>1. pc \in Edited /\ Told(fdt, Expected)
      BY <1>9 DEF Pack, Edited, Telling
    <2>2. Good(boot_param) /\ Kept(fdt, boot_param)
      BY <2>1 DEF IInv, Work
    <2>3. Told(fdt_pack(fdt).fdt, Expected)
      BY <2>1, <2>2, PackTells
    <2>4. /\ fdt' = fdt_pack(fdt).fdt /\ start' = "fdt" /\ pc' = "kernel"
          /\ UNCHANGED <<kernel_cmdline, initrd, boot_param>>
      BY <1>9 DEF Pack
    <2>5. Expected' = Expected
      BY <2>4 DEF Expected, WithStart, Args, initrd_end
    <2>6. Told(fdt', Expected')
      BY <2>3, <2>4, <2>5
    <2> QED
      BY <2>4, <2>6 DEF Telling
  <1>10. CASE UNCHANGED vars
    <2>1. /\ pc' = pc /\ fdt' = fdt /\ chosen' = chosen /\ start' = start
          /\ kernel_cmdline' = kernel_cmdline /\ initrd' = initrd /\ boot_param' = boot_param
      BY <1>10 DEF vars, settings
    <2>2. Expected' = Expected /\ Args' = Args /\ WithStart' = WithStart
      BY <2>1 DEF Expected, Args, WithStart, initrd_end
    <2> QED
      BY <2>1, <2>2 DEF Telling
  <1> QED
    BY <1>1, <1>2, <1>3, <1>4, <1>5, <1>6, <1>7, <1>8, <1>9, <1>10 DEF Next

LEMMA InvHanded == IInv /\ Telling => HandedOver
  <1> SUFFICES ASSUME IInv, Telling, pc = "kernel"
               PROVE  start = "fdt" /\ Tree(fdt) = Expected
    BY DEF HandedOver
  <1>1. Told(fdt, Expected) /\ start = "fdt"
    BY DEF Telling
  <1>2. Sound(fdt)
    BY DEF IInv, Work, Edited, Kept
  <1> QED
    BY <1>1, <1>2, ToldTree

(* When the kernel is entered, it is handed the buffer, and the tree in it *)
(* is the one it should be given: that of the DTB loaded last, with the    *)
(* command line and the initrd of the settings in its node chosen, and     *)
(* with no other change; of any DTB, of any size, whatever the order of    *)
(* its blocks, whether the properties are there before or not, and         *)
(* whichever boots failed before.                                          *)
THEOREM TreeHandedOver == Spec => []HandedOver
  <1>1. Init => IInv /\ Telling
    <2>1. Init => Telling
      BY DEF Init, Telling
    <2> QED
      BY <2>1, InitHolds
  <1>2. IInv /\ Telling /\ [Next]_vars => IInv' /\ Telling'
    BY StepInv, TellingStep
  <1>3. IInv /\ Telling => HandedOver
    BY InvHanded
  <1> QED
    BY <1>1, <1>2, <1>3, PTL DEF Spec

-----------------------------------------------------------------------------
(* What an edit that fails would have needed, and that one which does not  *)
(* leaves the size of the buffer.                                          *)
Rooms(r, b, d) ==
  /\ r.ret < 0 => data_size(b) + d > b.totalsize
  /\ ~(r.ret < 0) => r.fdt.totalsize = b.totalsize

LEMMA SpliceRoom ==
  ASSUME NEW b, Sound(b), NEW p \in Nat, NEW old \in Nat, NEW new \in Nat,
         p + old <= data_size(b)
  PROVE  Rooms(splice(b, p, old, new), b, new - old)
  <1> DEFINE end == data_size(b)
             moved == [b EXCEPT !.mem = memmove(@, p + new, p + old, end - p - old)]
             r == splice(b, p, old, new)
             total == b.totalsize
  <1>1. end \in Nat /\ total \in Nat
    BY Inside, SoundFields DEF Fields
  <1>2. CASE end - old + new > total
    <2>1. end + (new - old) > total
      BY <1>1, <1>2
    <2>2. r = Fail(b, NOSPACE)
      BY <1>1, <1>2 DEF splice
    <2>3. r.ret = -NOSPACE
      BY <2>2 DEF Fail
    <2> QED
      BY <2>1, <2>3 DEF Rooms, NOSPACE
  <1>3. CASE ~(end - old + new > total)
    <2>1. r = Done(moved, 0)
      BY <1>1, <1>3 DEF splice
    <2>2. moved.totalsize = total
      OBVIOUS
    <2> HIDE DEF moved
    <2> QED
      BY <2>1, <2>2 DEF Rooms, Done
  <1> QED
    BY <1>2, <1>3

LEMMA StructRoom ==
  ASSUME NEW b, Sound(b), NEW offset \in Nat, NEW old \in Nat, NEW new \in Nat,
         offset + old <= b.size_dt_struct
  PROVE  Rooms(splice_struct(b, offset, old, new), b, new - old)
  <1> DEFINE p == b.off_dt_struct + offset
             s == splice(b, p, old, new)
             r == splice_struct(b, offset, old, new)
             c == [s.fdt EXCEPT !.size_dt_struct = @ + (new - old),
                                !.off_dt_strings = @ + (new - old)]
  <1>1. p \in Nat /\ p + old <= data_size(b)
    <2>1. /\ b.off_dt_struct \in Nat /\ b.size_dt_struct \in Nat
          /\ b.off_dt_strings \in Nat /\ b.size_dt_strings \in Nat
          /\ b.off_dt_struct + b.size_dt_struct <= b.off_dt_strings
      BY SoundFields DEF Fields, Ordered
    <2> QED
      BY <2>1 DEF data_size
  <1>2. Rooms(s, b, new - old)
    <2> HIDE DEF p
    <2> QED
      BY <1>1, SpliceRoom
  <1>3. r = IF s.ret < 0 THEN s ELSE Done(c, 0)
    BY DEF splice_struct, AndThen
  <1>4. c.totalsize = s.fdt.totalsize
    <2>1. s.fdt = b \/ s.fdt = [b EXCEPT !.mem = memmove(@, p + new, p + old, data_size(b) - p - old)]
      BY DEF splice, Fail, Done
    <2> QED
      BY <2>1 DEF Sound, BlobOf
  <1> HIDE DEF c, s, r
  <1>5. Rooms(r, b, new - old)
    BY <1>2, <1>3, <1>4 DEF Rooms, Done
  <1> QED
    BY <1>5 DEF r

(* The name is there, or is added at the end.                              *)
NameRoom(b, name) ==
  IF fdt_find_string(b.mem, b.off_dt_strings, b.size_dt_strings, name) < 0
  THEN Len(name) + 1 ELSE 0

LEMMA FindAddRoom ==
  ASSUME NEW b, Sound(b), NEW s \in Seq(Byte)
  PROVE  /\ Rooms(find_add_string(b, s), b, NameRoom(b, s))
         /\ ~(find_add_string(b, s).ret < 0) =>
              data_size(find_add_string(b, s).fdt) = data_size(b) + NameRoom(b, s)
  <1> DEFINE r == find_add_string(b, s)
             p == fdt_find_string(b.mem, b.off_dt_strings, b.size_dt_strings, s)
             len == Len(s) + 1
             a == splice(b, data_size(b), 0, len)
             c == splice_string(b, len)
             more == [a.fdt EXCEPT !.size_dt_strings = @ + len]
             z == [c.fdt EXCEPT !.mem = memcpy(@, data_size(b), Append(s, NUL))]
  <1>1. r = IF p >= 0 THEN Done(b, p)
            ELSE IF c.ret < 0 THEN c ELSE Done(z, b.size_dt_strings)
    BY DEF find_add_string, AndThen
  <1>2. /\ p \in Int /\ data_size(b) \in Nat /\ len \in Nat /\ b.totalsize \in Nat
        /\ data_size(b) <= b.totalsize
        /\ b.off_dt_strings \in Nat /\ b.size_dt_strings \in Nat
    <2>1. /\ b.off_dt_strings \in Nat /\ b.size_dt_strings \in Nat /\ b.totalsize \in Nat
      BY SoundFields DEF Fields
    <2>2. p \in Nat \cup {-1}
      BY <2>1, FindStringIs
    <2>3. Len(s) \in Nat
      OBVIOUS
    <2>4. data_size(b) \in Nat /\ data_size(b) <= b.totalsize
      BY Inside
    <2> HIDE DEF p
    <2> QED
      BY <2>1, <2>2, <2>3, <2>4
  <1>3. CASE p >= 0
    <2>1. NameRoom(b, s) = 0
      <3>1. ~(p < 0)
        BY <1>2, <1>3
      <3> QED
        BY <3>1 DEF NameRoom
    <2>2. r = Done(b, p)
      BY <1>1, <1>3
    <2>3. ~(r.ret < 0) /\ r.fdt = b
      <3> HIDE DEF p, r
      <3> QED
        BY <1>2, <1>3, <2>2 DEF Done
    <2>4. data_size(b) + 0 = data_size(b)
      BY <1>2
    <2> HIDE DEF r
    <2>5. Rooms(r, b, 0)
      BY <2>3 DEF Rooms
    <2> QED
      BY <2>1, <2>3, <2>4, <2>5 DEF r
  <1>4. CASE ~(p >= 0)
    <2>1. NameRoom(b, s) = len
      <3>1. p < 0
        BY <1>2, <1>4
      <3> QED
        BY <3>1 DEF NameRoom
    <2>2. Rooms(a, b, len)
      <3>1. data_size(b) + 0 <= data_size(b) /\ 0 \in Nat /\ len - 0 = len
        BY <1>2
      <3> HIDE DEF len
      <3>2. Rooms(splice(b, data_size(b), 0, len), b, len - 0)
        BY <1>2, <3>1, SpliceRoom
      <3> QED
        BY <3>1, <3>2
    <2>3. c = IF a.ret < 0 THEN a ELSE Done(more, 0)
      BY DEF splice_string, AndThen
    <2>4. a.fdt = b \/ a.fdt = [b EXCEPT !.mem = memmove(@, data_size(b) + len, data_size(b) + 0, data_size(b) - data_size(b) - 0)]
      BY DEF splice, Fail, Done
    <2>5. /\ more.totalsize = a.fdt.totalsize /\ more.off_dt_strings = b.off_dt_strings
          /\ more.size_dt_strings = b.size_dt_strings + len
      BY <2>4 DEF Sound, BlobOf
    <2> HIDE DEF a, more
    <2>6. Rooms(c, b, len) /\ (~(c.ret < 0) => c.fdt = more)
      <3> HIDE DEF c
      <3> QED
        BY <2>2, <2>3, <2>5 DEF Rooms, Done
    <2>7. z.totalsize = c.fdt.totalsize /\ z.off_dt_strings = c.fdt.off_dt_strings
          /\ z.size_dt_strings = c.fdt.size_dt_strings
      BY <2>3, <2>4 DEF a, more, Done, Sound, BlobOf
    <2>8. r = IF c.ret < 0 THEN c ELSE Done(z, b.size_dt_strings)
      BY <1>1, <1>4
    <2> HIDE DEF c, z, r, len
    <2>9. CASE c.ret < 0
      <3>1. r = c
        BY <2>8, <2>9
      <3> QED
        BY <2>1, <2>6, <2>9, <3>1 DEF r
    <2>10. CASE ~(c.ret < 0)
      <3>1. r = Done(z, b.size_dt_strings)
        BY <2>8, <2>10
      <3>2. r.fdt = z /\ ~(r.ret < 0)
        BY <1>2, <3>1 DEF Done
      <3>3. r.fdt.totalsize = b.totalsize
        BY <2>6, <2>7, <2>10, <3>2 DEF Rooms
      <3>4. data_size(z) = data_size(b) + len
        <4>1. z.off_dt_strings = b.off_dt_strings /\ z.size_dt_strings = b.size_dt_strings + len
          BY <2>5, <2>6, <2>7, <2>10
        <4> QED
          BY <1>2, <4>1 DEF data_size
      <3>5. Rooms(r, b, len)
        BY <3>2, <3>3 DEF Rooms
      <3> QED
        BY <2>1, <3>2, <3>4, <3>5 DEF r
    <2> QED
      BY <2>9, <2>10
  <1> QED
    BY <1>3, <1>4

(* A name that is in the strings of a DTB is in those of its copy.         *)
LEMMA NameRoomSame ==
  ASSUME NEW f, NEW b, SameStrings(f, b), NEW name \in Seq(Byte),
         f.off_dt_strings \in Nat, f.size_dt_strings \in Nat,
         b.off_dt_strings \in Nat, b.size_dt_strings \in Nat
  PROVE  NameRoom(b, name) \in Nat /\ NameRoom(f, name) \in Nat /\ NameRoom(b, name) <= NameRoom(f, name)
  <1> DEFINE s == Append(name, NUL)
             L == Len(s)
             places(x) == {p \in x.off_dt_strings .. x.off_dt_strings + x.size_dt_strings - L :
                             Bytes(x.mem, p, L) = s}
             found(x) == fdt_find_string(x.mem, x.off_dt_strings, x.size_dt_strings, name)
  <1>1. found(f) \in Nat \cup {-1} /\ found(b) \in Nat \cup {-1}
    BY FindStringIs
  <1>2. L = Len(name) + 1 /\ Len(name) \in Nat
    BY DEF Byte
  <1>3. ASSUME ~(found(f) < 0) PROVE ~(found(b) < 0)
    <2>1. found(f) = IF places(f) = {} THEN -1 ELSE Least(places(f)) - f.off_dt_strings
      BY DEF fdt_find_string
    <2>2. found(b) = IF places(b) = {} THEN -1 ELSE Least(places(b)) - b.off_dt_strings
      BY DEF fdt_find_string
    <2> HIDE DEF found
    <2>3. places(f) # {}
      <3> SUFFICES ASSUME places(f) = {} PROVE FALSE
        OBVIOUS
      <3>1. found(f) = -1
        BY <2>1
      <3> QED
        BY <1>3, <3>1
    <2>4. PICK p \in places(f) : TRUE
      BY <2>3
    <2> DEFINE o == p - f.off_dt_strings
               q == b.off_dt_strings + o
    <2> HIDE DEF L
    <2>5. /\ p \in f.off_dt_strings .. f.off_dt_strings + f.size_dt_strings - L
          /\ Bytes(f.mem, p, L) = s
      BY <2>4
    <2>6. f.size_dt_strings <= b.size_dt_strings
      BY DEF SameStrings
    <2>7. q \in b.off_dt_strings .. b.off_dt_strings + b.size_dt_strings - L
      BY <1>2, <2>5, <2>6
    <2>8. ASSUME NEW i \in 1 .. L PROVE b.mem[q + i - 1] = f.mem[p + i - 1]
      <3>1. o + i - 1 \in 0 .. f.size_dt_strings - 1
        <4> DEFINE z == f.size_dt_strings
                   y == f.off_dt_strings
        <4>1. /\ z \in Nat /\ y \in Nat /\ L \in Nat /\ i \in 1 .. L
              /\ p \in y .. y + z - L /\ o = p - y
          BY <1>2, <2>5
        <4> HIDE DEF z, y, o, places, s
        <4>2. o \in Nat /\ o + L <= z
          BY <4>1
        <4>3. o + i - 1 \in 0 .. z - 1
          BY <4>1, <4>2
        <4> QED
          BY <4>3 DEF z
      <3>2. b.off_dt_strings + (o + i - 1) = q + i - 1 /\ f.off_dt_strings + (o + i - 1) = p + i - 1
        BY <1>2, <2>5
      <3>3. b.mem[b.off_dt_strings + (o + i - 1)] = f.mem[f.off_dt_strings + (o + i - 1)]
        BY <3>1 DEF SameStrings
      <3> QED
        BY <3>2, <3>3
    <2>9. Bytes(b.mem, q, L) = Bytes(f.mem, p, L)
      <3> HIDE DEF q
      <3> QED
        BY <2>8 DEF Bytes
    <2>10. q \in places(b)
      BY <2>5, <2>7, <2>9
    <2>11. places(b) \subseteq Nat /\ places(b) # {}
      <3>1. places(b) # {}
        BY <2>10
      <3>2. ASSUME NEW l \in places(b) PROVE l \in Nat
        <4>1. l \in b.off_dt_strings .. b.off_dt_strings + b.size_dt_strings - L
          OBVIOUS
        <4> HIDE DEF places
        <4> QED
          BY <1>2, <4>1
      <3> HIDE DEF places
      <3> QED
        BY <3>1, <3>2
    <2>12. Least(places(b)) \in places(b)
      <3> HIDE DEF places
      <3> QED
        BY <2>11, LeastOf
    <2>13. Least(places(b)) \in Nat /\ Least(places(b)) >= b.off_dt_strings
      <3> DEFINE l == Least(places(b))
      <3>1. l \in b.off_dt_strings .. b.off_dt_strings + b.size_dt_strings - L
        BY <2>12
      <3> HIDE DEF l
      <3>2. l \in Nat /\ l >= b.off_dt_strings
        BY <1>2, <3>1
      <3> QED
        BY <3>2 DEF l
    <2>14. found(b) = Least(places(b)) - b.off_dt_strings
      BY <2>2, <2>11
    <2> HIDE DEF places
    <2> QED
      BY <2>13, <2>14
  <1>4. NameRoom(f, name) = IF found(f) < 0 THEN Len(name) + 1 ELSE 0
    BY DEF NameRoom
  <1>5. NameRoom(b, name) = IF found(b) < 0 THEN Len(name) + 1 ELSE 0
    BY DEF NameRoom
  <1> HIDE DEF found
  <1> QED
    BY <1>2, <1>3, <1>4, <1>5

-----------------------------------------------------------------------------
ValLen(it) == Len(it.val)
Placed(b, o, it) ==
  /\ o \in Nat /\ PropLen(b, o) \in Nat /\ PropLen(b, o) = ValLen(it)
  /\ (o + PropSize) + FDT_TAGALIGN(PropLen(b, o)) <= b.size_dt_struct

(* Where the value of a property is, and how long it is.                   *)
LEMMA PropPlace ==
  ASSUME NEW b, Sound(b), NEW n, NEW at, NEW ends, NEW items,
         Tells(b, b.size_dt_struct, n, at, ends, items), NEW K \in 1 .. n,
         items[K].tag = FDT_PROP
  PROVE  Placed(b, at[K], items[K])
  <1> DEFINE size == b.size_dt_struct
             prop == at[K]
             len == PropLen(b, prop)
             off == prop + PropSize
             next == at[K + 1]
  <1>1. Block(b, FDT_SIZE_MAX, size) /\ size \in Nat
    BY SoundBlock DEF Block
  <1>2. K \in 1 .. n - 1 /\ K + 1 \in 1 .. n
    <2>1. n \in Nat /\ items[n].tag = FDT_END
      BY DEF Tells
    <2> QED
      BY <2>1, Codes
  <1>3. \A i \in 1 .. n : /\ at[i] \in Nat /\ at[i] \in Aligned /\ ends[i] \in Nat
                          /\ at[i] < ends[i] /\ ends[i] <= size
                          /\ Said(b, at[i], ends[i], items[i])
    BY <1>1, TellsOrder
  <1>4. next = FDT_TAGALIGN(ends[K]) /\ next \in Nat /\ next <= size
    <2>1. next = FDT_TAGALIGN(ends[K])
      BY <1>2 DEF Tells
    <2>2. next \in Nat /\ next < ends[K + 1] /\ ends[K + 1] <= size /\ ends[K + 1] \in Nat
      BY <1>2, <1>3
    <2> HIDE DEF next, size
    <2> QED
      BY <1>1, <2>1, <2>2
  <1>5. /\ prop \in Nat /\ prop \in Aligned /\ len \in Nat /\ off + len = ends[K]
        /\ items[K].val = Bytes(b.mem, b.off_dt_struct + prop + PropSize, len)
    BY <1>3 DEF Said, PropValue
  <1>6. len = ValLen(items[K])
    <2> HIDE DEF len, prop
    <2> QED
      BY <1>5 DEF Bytes, ValLen
  <1>7. PICK j \in Nat : prop = j * FDT_TAGSIZE
    BY <1>5 DEF Aligned
  <1>8. off = (j + 3) * FDT_TAGSIZE /\ off \in Nat
    <2>1. PropSize = 3 * FDT_TAGSIZE /\ FDT_TAGSIZE \in Nat
      BY Sizes
    <2> HIDE DEF prop
    <2> QED
      BY <1>5, <1>7, <2>1
  <1>9. FDT_TAGALIGN(len + off) = FDT_TAGALIGN(len) + off
    <2>1. j + 3 \in Int /\ len + off \in Nat
      BY <1>5, <1>8
    <2> HIDE DEF len, off
    <2> QED
      BY <1>5, <1>8, <2>1, TagShift
  <1>10. FDT_TAGALIGN(len) \in Nat
    BY <1>5, TagAlign
  <1>11. off + FDT_TAGALIGN(len) <= size
    <2>1. len + off = ends[K]
      <3> HIDE DEF len, off
      <3> QED
        BY <1>5, <1>8
    <2> HIDE DEF len, off, next, size
    <2> QED
      BY <1>4, <1>8, <1>9, <1>10, <2>1
  <1> QED
    BY <1>5, <1>6, <1>11 DEF Placed

-----------------------------------------------------------------------------
(* What an edit of a property takes: a value of another size in the place  *)
(* of the first property of that name, or a property and perhaps a name.   *)
Takes(items, n, c, f, p, v, d) ==
  \E K \in c + 1 .. n :
    /\ Run(items, p, c + 1, K)
    /\ \/ /\ items[K].tag = FDT_PROP /\ items[K].name = p
          /\ d = FDT_TAGALIGN(Len(v)) - FDT_TAGALIGN(ValLen(items[K]))
       \/ /\ items[K].tag \notin {FDT_PROP, FDT_NOP}
          /\ d = PropSize + FDT_TAGALIGN(Len(v)) + NameRoom(f, p)

Fits(ret, z, b, d) ==
  /\ d \in Int
  /\ ret < 0 => data_size(b) + d > b.totalsize
  /\ ~(ret < 0) => /\ z.totalsize = b.totalsize /\ data_size(z) <= data_size(b) + d
                   /\ SameStrings(b, z)

LEMMA MovedSize ==
  ASSUME NEW z, NEW b, NEW d \in Int, FieldsMoved(z, b, d),
         b.off_dt_strings \in Nat, b.size_dt_strings \in Nat
  PROVE  data_size(z) = data_size(b) + d
  BY DEF FieldsMoved, data_size

WithValue(r, val) == Write(r.fdt, r.ret + PropSize, val)

LEMMA ResizeRoom ==
  ASSUME NEW b, NEW f, Kept(b, f), whole_mem_rsv_size(f) \in Nat, NEW n, NEW at, NEW ends,
         NEW items, NEW c, Holding(b, n, at, ends, items, c), NEW name, NEW val \in Seq(Byte),
         NEW prop, prop = fdt_get_property(b, at[c], name), ~(prop < 0),
         NEW r, r = resize_property(b, at[c], name, Len(val))
  PROVE  /\ r.ret # -NOTFOUND
         /\ \E d : Takes(items, n, c, f, name, val, d) /\ Fits(r.ret, WithValue(r, val), b, d)
  <1> DEFINE old == FDT_TAGALIGN(PropLen(b, prop))
             new == FDT_TAGALIGN(Len(val))
             s == splice_struct(b, prop + PropSize, old, new)
             e == Write(s.fdt, prop + FDT_TAGSIZE, cpu_to_fdt32(Len(val)))
             z == WithValue(r, val)
  <1>1. Sound(b) /\ Tells(b, b.size_dt_struct, n, at, ends, items)
    BY DEF Kept, Holding
  <1>2. /\ n \in Nat /\ c \in 1 .. n /\ items[c].tag = FDT_BEGIN_NODE
        /\ \A i \in 1 .. n : Tag(b, n, at, items, i)
    BY <1>1, HoldingFacts
  <1>3. PICK K : c < n /\ Found(at, items, n, name, c + 1, prop, K)
    BY <1>1, <1>2, GetPropertyAt
  <1>4. /\ prop = at[K] /\ K \in c + 1 .. n /\ Run(items, name, c + 1, K)
        /\ items[K].tag = FDT_PROP /\ items[K].name = name
    BY <1>3 DEF Found
  <1>5. K \in 1 .. n
    BY <1>2, <1>4
  <1>6. /\ prop \in Nat /\ PropLen(b, prop) \in Nat
        /\ (prop + PropSize) + old <= b.size_dt_struct
        /\ PropLen(b, prop) = ValLen(items[K])
    <2>1. Placed(b, at[K], items[K])
      BY <1>1, <1>4, <1>5, PropPlace
    <2>2. Placed(b, prop, items[K])
      BY <1>4, <2>1
    <2> QED
      BY <2>2 DEF Placed
  <1>7. old \in Nat /\ new \in Nat /\ new - old \in Int /\ prop + PropSize \in Nat /\ Len(val) \in Nat
    <2>1. Len(val) \in Nat
      BY WithNul
    <2>2. old \in Nat /\ new \in Nat
      BY <1>6, <2>1, TagAlign
    <2> HIDE DEF old, new
    <2> QED
      BY <1>6, <2>1, <2>2, Sizes
  <1>8. Rooms(s, b, new - old)
    <2> HIDE DEF old, new
    <2> QED
      BY <1>1, <1>6, <1>7, StructRoom
  <1>9. r = IF s.ret < 0 THEN s ELSE Done(e, prop)
    BY DEF resize_property, IfFound, AndThen
  <1>10. s.ret # -NOTFOUND
    BY SpliceErrors
  <1>11. Takes(items, n, c, f, name, val, new - old)
    <2>1. new - old = FDT_TAGALIGN(Len(val)) - FDT_TAGALIGN(ValLen(items[K]))
      BY <1>6
    <2> HIDE DEF old, new
    <2> QED
      BY <1>4, <2>1 DEF Takes
  <1>12. CASE s.ret < 0
    <2>1. r = s
      BY <1>9, <1>12
    <2>2. data_size(b) + (new - old) > b.totalsize
      BY <1>8, <1>12 DEF Rooms
    <2> HIDE DEF s, old, new, z
    <2> QED
      BY <1>7, <1>10, <1>11, <1>12, <2>1, <2>2 DEF Fits
  <1>13. CASE ~(s.ret < 0)
    <2>1. r = Done(e, prop)
      BY <1>9, <1>13
    <2>2. r.fdt = e /\ r.ret = prop /\ ~(r.ret < 0) /\ r.ret # -NOTFOUND
      <3>1. r.fdt = e /\ r.ret = prop
        BY <2>1 DEF Done
      <3>2. prop \in Nat /\ NOTFOUND = 1
        BY <1>6, Codes
      <3> HIDE DEF e
      <3> QED
        BY <3>1, <3>2
    <2>3. Resettled(b, z, at[c], name, val)
      <3>1. z = Write(r.fdt, r.ret + PropSize, val)
        BY DEF WithValue
      <3> HIDE DEF z
      <3> QED
        BY <2>2, <3>1, SetOld
    <2>4. SameStrings(b, z) /\ FieldsMoved(z, b, new - old)
      BY <2>3 DEF Resettled
    <2>5. z.totalsize = b.totalsize
      <3>1. s.fdt.totalsize = b.totalsize
        BY <1>8, <1>13 DEF Rooms
      <3>2. e.totalsize = s.fdt.totalsize
        BY DEF Write
      <3>3. z.totalsize = r.fdt.totalsize
        BY DEF WithValue, Write
      <3> QED
        BY <2>2, <3>1, <3>2, <3>3
    <2>6. data_size(z) = data_size(b) + (new - old)
      <3>1. b.off_dt_strings \in Nat /\ b.size_dt_strings \in Nat
        BY <1>1, SoundFields DEF Fields
      <3> HIDE DEF z, old, new
      <3> QED
        BY <1>7, <2>4, <3>1, MovedSize
    <2>7. data_size(b) \in Nat
      BY <1>1, Inside
    <2> HIDE DEF z, old, new
    <2>8. data_size(z) <= data_size(b) + (new - old)
      BY <1>7, <2>6, <2>7
    <2> QED
      BY <1>7, <1>11, <2>2, <2>4, <2>5, <2>8 DEF z, Fits
  <1> QED
    BY <1>12, <1>13

-----------------------------------------------------------------------------
LEMMA AddRoom ==
  ASSUME NEW b, NEW f, Kept(b, f), whole_mem_rsv_size(f) \in Nat, NEW n, NEW at, NEW ends,
         NEW items, NEW c, Holding(b, n, at, ends, items, c), NEW name \in Seq(Byte),
         \A i \in 1 .. Len(name) : name[i] # NUL, NEW val \in Seq(Byte),
         fdt_get_property(b, at[c], name) < 0,
         NEW r, r = add_property(b, at[c], name, Len(val)),
         NEW d, d = PropSize + FDT_TAGALIGN(Len(val)) + NameRoom(b, name)
  PROVE  Fits(r.ret, WithValue(r, val), b, d)
  <1> DEFINE next == fdt_check_node_offset(b, at[c])
             str == find_add_string(b, name)
             a == str.fdt
             nr == NameRoom(b, name)
             new == PropSize + FDT_TAGALIGN(Len(val))
             s == splice_struct(a, next, 0, new)
             e == Write(s.fdt, next, PropHead(Len(val), str.ret))
             z == WithValue(r, val)
             size == b.size_dt_struct
             total == b.totalsize
             sum == data_size(b)
  <1>1. Sound(b) /\ Tells(b, size, n, at, ends, items)
    BY DEF Kept, Holding
  <1>2. /\ n \in Nat /\ c \in 1 .. n /\ items[c].tag = FDT_BEGIN_NODE
        /\ \A i \in 1 .. n : Tag(b, n, at, items, i)
    BY <1>1, HoldingFacts
  <1>3. c < n
    BY <1>1, <1>2, GetPropertyAt
  <1>4. next = at[c + 1] /\ next \in Nat /\ next <= size /\ size \in Nat
    <2>1. Tag(b, n, at, items, c) /\ c + 1 \in 1 .. n
      BY <1>2, <1>3
    <2>2. next = at[c + 1]
      BY <1>1, <1>2, <1>3, <2>1, CheckAt
    <2>3. Block(b, FDT_SIZE_MAX, size) /\ size \in Nat
      BY <1>1, SoundBlock DEF Block
    <2>4. \A i \in 1 .. n : at[i] \in Nat /\ at[i] < ends[i] /\ ends[i] <= size /\ ends[i] \in Nat
      BY <1>1, <2>3, TellsOrder
    <2>5. at[c + 1] \in Nat /\ at[c + 1] <= size
      <3>1. /\ at[c + 1] \in Nat /\ at[c + 1] < ends[c + 1] /\ ends[c + 1] <= size
            /\ ends[c + 1] \in Nat
        BY <2>1, <2>4
      <3> HIDE DEF size
      <3> QED
        BY <2>3, <3>1
    <2> QED
      BY <2>2, <2>3, <2>5
  <1>5. /\ nr \in Nat /\ new \in Nat /\ sum \in Nat /\ total \in Nat
        /\ d = new + nr /\ Len(val) \in Nat
    <2>1. Len(name) \in Nat /\ Len(val) \in Nat
      BY WithNul
    <2>2. nr \in Nat
      BY <2>1 DEF NameRoom
    <2>3. FDT_TAGALIGN(Len(val)) \in Nat /\ PropSize \in Nat
      BY <2>1, TagAlign, Sizes
    <2>4. sum \in Nat /\ total \in Nat
      BY <1>1, Inside, SoundFields DEF Fields
    <2> HIDE DEF nr, sum, total
    <2> QED
      BY <2>1, <2>2, <2>3, <2>4 DEF nr
  <1>6. /\ Rooms(str, b, nr)
        /\ ~(str.ret < 0) => data_size(a) = sum + nr
    BY <1>1, FindAddRoom
  <1>7. Kept(a, f) /\ str.ret \in Int
    <2>1. Keeps(find_add_string(b, name), f)
      BY FindAddStringKeeps
    <2> QED
      BY <2>1 DEF Keeps
  <1>8. r = IF next < 0 THEN Done(b, next)
            ELSE IF str.ret < 0 THEN str
            ELSE IF s.ret < 0 THEN s ELSE Done(e, next)
    BY DEF add_property, IfFound, AndThen, PropHead
  <1>9. ~(next < 0)
    BY <1>4
  <1>10. CASE str.ret < 0
    <2>1. r = str
      BY <1>8, <1>9, <1>10
    <2>2. sum + nr > total
      BY <1>6, <1>10 DEF Rooms
    <2>3. sum + d > total /\ d \in Int
      <3> HIDE DEF sum, nr, total, new
      <3> QED
        BY <1>5, <2>2
    <2> HIDE DEF str, z, total
    <2> QED
      BY <1>10, <2>1, <2>3 DEF total, Fits
  <1>11. CASE ~(str.ret < 0)
    <2>1. Sound(a) /\ a.totalsize = total /\ data_size(a) = sum + nr
      BY <1>6, <1>7, <1>11 DEF Rooms, Kept
    <2>2. a.size_dt_struct = size
      <3>1. LastNul(b)
        BY <1>1 DEF Tells
      <3>2. Added(find_add_string(b, name).fdt, b, find_add_string(b, name).ret, name)
        BY <1>11, <3>1, FindAddIs
      <3> QED
        BY <3>2 DEF Added
    <2>3. Rooms(s, a, new - 0)
      <3>1. next + 0 <= a.size_dt_struct /\ 0 \in Nat
        BY <1>4, <2>2
      <3> HIDE DEF a, next, new
      <3> QED
        BY <1>4, <1>5, <2>1, <3>1, StructRoom
    <2>4. new - 0 = new /\ d \in Int
      <3> HIDE DEF new, nr
      <3> QED
        BY <1>5
    <2>5. CASE s.ret < 0
      <3>1. r = s
        BY <1>8, <1>9, <1>11, <2>5
      <3>2. (sum + nr) + new > total
        BY <2>1, <2>3, <2>4, <2>5 DEF Rooms
      <3>3. sum + d > total
        <4> HIDE DEF sum, nr, total, new
        <4> QED
          BY <1>5, <3>2
      <3> HIDE DEF s, z
      <3> QED
        BY <2>4, <2>5, <3>1, <3>3 DEF Fits
    <2>6. CASE ~(s.ret < 0)
      <3>1. r = Done(e, next)
        BY <1>8, <1>9, <1>11, <2>6
      <3>2. r.fdt = e /\ ~(r.ret < 0)
        <4> HIDE DEF e, next
        <4> QED
          BY <1>9, <3>1 DEF Done
      <3>3. Settled(b, z, name, val)
        <4>1. z = Write(r.fdt, r.ret + PropSize, val)
          BY DEF WithValue
        <4> HIDE DEF z
        <4> QED
          BY <3>2, <4>1, SetNew
      <3>4. SameStrings(b, z) /\ FieldsMoved(z, a, new)
        BY <3>3 DEF Settled
      <3>5. z.totalsize = total
        <4>1. s.fdt.totalsize = total
          BY <2>1, <2>3, <2>6 DEF Rooms
        <4>2. e.totalsize = s.fdt.totalsize
          BY DEF Write
        <4>3. z.totalsize = r.fdt.totalsize
          BY DEF WithValue, Write
        <4> QED
          BY <3>2, <4>1, <4>2, <4>3
      <3>6. data_size(z) = data_size(a) + new
        <4>1. a.off_dt_strings \in Nat /\ a.size_dt_strings \in Nat
          BY <2>1, SoundFields DEF Fields
        <4>2. new \in Int
          BY <1>5
        <4> HIDE DEF z, a, new
        <4> QED
          BY <3>4, <4>1, <4>2, MovedSize
      <3>7. data_size(z) = sum + d
        <4>1. data_size(z) = (sum + nr) + new
          BY <2>1, <3>6
        <4> HIDE DEF z, sum, nr, new
        <4> QED
          BY <1>5, <4>1
      <3>8. data_size(z) <= sum + d
        <4> HIDE DEF z, sum
        <4> QED
          BY <1>5, <2>4, <3>7
      <3> HIDE DEF z, sum
      <3> QED
        BY <2>4, <3>2, <3>4, <3>5, <3>8 DEF z, sum, Fits
    <2> QED
      BY <2>5, <2>6
  <1> QED
    BY <1>10, <1>11

-----------------------------------------------------------------------------
(* The search of a node that is followed by another tag finds the property *)
(* or ends with the error that has it added.                               *)
LEMMA Searched ==
  ASSUME NEW b, Sound(b), NEW n, NEW at, NEW ends, NEW items, NEW c,
         Holding(b, n, at, ends, items, c), Followed(items, n, c), NEW name,
         fdt_get_property(b, at[c], name) < 0
  PROVE  /\ fdt_get_property(b, at[c], name) = -NOTFOUND
         /\ \E K \in c + 1 .. n :
              Run(items, name, c + 1, K) /\ items[K].tag \notin {FDT_PROP, FDT_NOP}
  <1> DEFINE prop == fdt_get_property(b, at[c], name)
  <1>1. /\ n \in Nat /\ c \in 1 .. n /\ items[c].tag = FDT_BEGIN_NODE
        /\ \A i \in 1 .. n : Tag(b, n, at, items, i)
    BY HoldingFacts
  <1>2. PICK K : c < n /\ Found(at, items, n, name, c + 1, prop, K)
    BY <1>1, GetPropertyAt
  <1>3. prop < 0
    OBVIOUS
  <1> HIDE DEF prop
  <1>4. K \in c + 1 .. n /\ K \in 1 .. n /\ Run(items, name, c + 1, K)
    BY <1>1, <1>2 DEF Found
  <1>5. ~(prop = at[K])
    <2>1. at[K] \in Nat
      BY <1>1, <1>4 DEF Tag
    <2> QED
      BY <1>3, <2>1
  <1>6. /\ items[K].tag \notin {FDT_PROP, FDT_NOP}
        /\ items[K].tag # FDT_END => prop = -NOTFOUND
    BY <1>2, <1>5 DEF Found
  <1>7. items[K].tag # FDT_END
    <2> SUFFICES ASSUME items[K].tag = FDT_END PROVE FALSE
      OBVIOUS
    <2>1. ~(K < n)
      BY <1>1, <1>4 DEF Tag
    <2>2. PICK k \in c + 1 .. n : items[k].tag \notin {FDT_PROP, FDT_NOP, FDT_END}
      BY DEF Followed
    <2>3. K = n /\ k # K
      BY <1>1, <1>4, <2>1, <2>2
    <2>4. k \in c + 1 .. K - 1
      BY <1>1, <2>2, <2>3
    <2> QED
      BY <1>4, <2>2, <2>4 DEF Run
  <1> QED
    BY <1>4, <1>6, <1>7 DEF prop

LEMMA SetpropRoom ==
  ASSUME NEW b, NEW f, Kept(b, f), whole_mem_rsv_size(f) \in Nat, SameStrings(f, b),
         f.off_dt_strings \in Nat, f.size_dt_strings \in Nat, NEW n, NEW at, NEW ends,
         NEW items, NEW c, Holding(b, n, at, ends, items, c), Followed(items, n, c),
         NEW name \in Seq(Byte), \A i \in 1 .. Len(name) : name[i] # NUL, NEW val \in Seq(Byte)
  PROVE  \E d : /\ Takes(items, n, c, f, name, val, d)
                /\ Fits(fdt_setprop(b, at[c], name, val).ret,
                        fdt_setprop(b, at[c], name, val).fdt, b, d)
  <1> DEFINE node == at[c]
             prop == fdt_get_property(b, node, name)
             r1 == resize_property(b, node, name, Len(val))
             r2 == add_property(b, node, name, Len(val))
             r == IF r1.ret = -NOTFOUND THEN r2 ELSE r1
             w == fdt_setprop(b, node, name, val)
             z == WithValue(r, val)
  <1>1. Sound(b) /\ rw_check_header(b) = Done(b, 0)
    BY HeaderOk DEF Kept
  <1>2. w = WriteValue(r, 0, val)
    BY <1>1 DEF fdt_setprop, IfHeaderOk, AndThen, Done
  <1>3. Len(val) \in Nat /\ node \in Int
    <2>1. c \in 1 .. n /\ \A i \in 1 .. n : Tag(b, n, at, items, i)
      BY <1>1, HoldingFacts
    <2>2. node \in Nat
      BY <2>1 DEF Tag
    <2> QED
      BY <2>2, WithNul
  <1>4. r.ret \in Int
    <2>1. Keeps(r1, f) /\ Keeps(r2, f)
      BY <1>3, ResizeKeeps, AddPropertyKeeps
    <2> HIDE DEF r1, r2
    <2> QED
      BY <2>1 DEF Keeps
  <1>5. w = IF r.ret < 0 THEN r ELSE Done(z, 0)
    <2> HIDE DEF r
    <2>1. r.ret + PropSize + 0 = r.ret + PropSize
      BY <1>4, Sizes
    <2> QED
      BY <1>2, <2>1 DEF WriteValue, WithValue
  <1>6. ASSUME NEW d, Fits(r.ret, z, b, d) PROVE Fits(w.ret, w.fdt, b, d)
    <2>1. CASE r.ret < 0
      <3>1. w = r
        BY <1>5, <2>1
      <3> HIDE DEF r, w, z
      <3> QED
        BY <1>6, <2>1, <3>1 DEF Fits
    <2>2. CASE ~(r.ret < 0)
      <3>1. w = Done(z, 0)
        BY <1>5, <2>2
      <3>2. w.fdt = z /\ ~(w.ret < 0)
        <4> HIDE DEF z, w
        <4> QED
          BY <3>1 DEF Done
      <3> HIDE DEF r, w, z
      <3> QED
        BY <1>6, <2>2, <3>2 DEF Fits
    <2> QED
      BY <2>1, <2>2
  <1>7. CASE ~(prop < 0)
    <2>1. /\ r1.ret # -NOTFOUND
          /\ \E d : /\ Takes(items, n, c, f, name, val, d)
                    /\ Fits(r1.ret, WithValue(r1, val), b, d)
      <3>1. PICK p : p = prop
        OBVIOUS
      <3>2. PICK x : x = r1
        OBVIOUS
      <3>3. p = fdt_get_property(b, at[c], name) /\ ~(p < 0)
        BY <1>7, <3>1
      <3>4. x = resize_property(b, at[c], name, Len(val))
        BY <3>2
      <3>5. /\ x.ret # -NOTFOUND
            /\ \E d : Takes(items, n, c, f, name, val, d) /\ Fits(x.ret, WithValue(x, val), b, d)
        BY <3>3, <3>4, ResizeRoom
      <3> HIDE DEF r1
      <3> QED
        BY <3>2, <3>5
    <2>2. r = r1
      BY <2>1
    <2>3. PICK d : Takes(items, n, c, f, name, val, d) /\ Fits(r1.ret, WithValue(r1, val), b, d)
      BY <2>1
    <2>4. Fits(r.ret, z, b, d)
      BY <2>2, <2>3
    <2>5. Fits(w.ret, w.fdt, b, d)
      BY <1>6, <2>4
    <2> QED
      BY <2>3, <2>5
  <1>8. CASE prop < 0
    <2>1. prop = -NOTFOUND /\ \E K \in c + 1 .. n :
            Run(items, name, c + 1, K) /\ items[K].tag \notin {FDT_PROP, FDT_NOP}
      BY <1>1, <1>8, Searched
    <2>2. r = r2
      <3>1. r1 = Done(b, prop)
        BY <1>8 DEF resize_property, IfFound
      <3>2. r1.ret = -NOTFOUND
        <4> HIDE DEF r1, prop
        <4> QED
          BY <2>1, <3>1 DEF Done
      <3> QED
        BY <3>2
    <2> DEFINE had == PropSize + FDT_TAGALIGN(Len(val)) + NameRoom(b, name)
               d == PropSize + FDT_TAGALIGN(Len(val)) + NameRoom(f, name)
    <2>3. Fits(r2.ret, WithValue(r2, val), b, had)
      <3>1. PICK x, y : x = r2 /\ y = had
        OBVIOUS
      <3>2. x = add_property(b, at[c], name, Len(val)) /\ fdt_get_property(b, at[c], name) < 0
        BY <1>8, <3>1
      <3>3. y = PropSize + FDT_TAGALIGN(Len(val)) + NameRoom(b, name)
        BY <3>1
      <3>4. Fits(x.ret, WithValue(x, val), b, y)
        BY <3>2, <3>3, AddRoom
      <3> HIDE DEF r2, had
      <3> QED
        BY <3>1, <3>4
    <2>4. d \in Int /\ had <= d
      <3>1. b.off_dt_strings \in Nat /\ b.size_dt_strings \in Nat
        BY <1>1, SoundFields DEF Fields
      <3>2. /\ NameRoom(b, name) \in Nat /\ NameRoom(f, name) \in Nat
            /\ NameRoom(b, name) <= NameRoom(f, name)
        BY <3>1, NameRoomSame
      <3>3. PropSize \in Nat /\ FDT_TAGALIGN(Len(val)) \in Nat
        BY <1>3, Sizes, TagAlign
      <3> QED
        BY <3>2, <3>3
    <2>5. Takes(items, n, c, f, name, val, d)
      BY <2>1 DEF Takes
    <2>6. Fits(r.ret, z, b, d)
      <3>1. data_size(b) \in Nat /\ b.totalsize \in Nat /\ had \in Int
        BY <1>1, <2>3, Inside, SoundFields DEF Fields, Fits
      <3>2. Fits(r.ret, z, b, had)
        BY <2>2, <2>3
      <3>3. ASSUME ~(r.ret < 0) PROVE data_size(z) \in Int
        <4>1. Keeps(w, f)
          BY SetpropKeeps, <1>3
        <4>2. w = Done(z, 0)
          BY <1>5, <3>3
        <4> HIDE DEF w, z
        <4>3. Sound(z)
          BY <4>1, <4>2 DEF Keeps, Kept, Done
        <4> QED
          BY <4>3, Inside
      <3> HIDE DEF d, had, w, r, r1, r2, z
      <3> QED
        BY <2>4, <3>1, <3>2, <3>3 DEF Fits
    <2>7. Fits(w.ret, w.fdt, b, d)
      BY <1>6, <2>6
    <2> QED
      BY <2>5, <2>7
  <1> QED
    BY <1>7, <1>8

-----------------------------------------------------------------------------
(* What an edit takes is what the tree says it does.                       *)
NamedProps(ps, p) == {k \in DOMAIN ps : ps[k].name = p}

LEMMA PropOfSame ==
  ASSUME NEW S, NEW t \in Seq(NodeOf(S)), NEW L \in 1 .. Len(t), L = Least(Chosens(t)),
         NEW p, NEW v, WithProp(t, p, v) = t
  PROVE  /\ NamedProps(t[L].props, p) # {}
         /\ t[L].props[Least(NamedProps(t[L].props, p))].val = v
  <1> DEFINE ps == t[L].props
             at == NamedProps(ps, p)
             P == Prop(S)
             y == [name |-> p, val |-> v]
  <1>1. t[L] = [depth |-> t[L].depth, name |-> t[L].name, props |-> ps] /\ ps \in Seq(P) /\ L \in DOMAIN t
    BY NodeIs
  <1>2. DOMAIN ps = 1 .. Len(ps) /\ Len(ps) \in Nat /\ \A j \in 1 .. Len(ps) : ps[j] \in P
    <2> HIDE DEF ps, P
    <2> QED
      BY <1>1, PropsIn
  <1>3. WithProp(t, p, v) = IF at = {} THEN [t EXCEPT ![L].props = <<y>> \o @]
                            ELSE [t EXCEPT ![L].props[Least(at)].val = v]
    BY DEF WithProp, NamedProps
  <1>4. at # {}
    <2> SUFFICES ASSUME at = {} PROVE FALSE
      OBVIOUS
    <2>1. t = [t EXCEPT ![L].props = <<y>> \o @]
      BY <1>3
    <2>2. t[L] = [t[L] EXCEPT !.props = <<y>> \o t[L].props]
      <3> HIDE DEF y, ps
      <3> QED
        BY <1>1, <2>1
    <2>3. ps = <<y>> \o ps
      <3> HIDE DEF y
      <3> QED
        BY <1>1, <2>2
    <2>4. Len(<<y>> \o ps) = 1 + Len(ps)
      <3>1. y \in {y} \cup P /\ ps \in Seq({y} \cup P)
        <4> HIDE DEF y, ps, P
        <4> QED
          BY <1>1
      <3> HIDE DEF y, ps, P
      <3> QED
        BY <3>1
    <2> HIDE DEF y, ps
    <2> QED
      BY <1>2, <2>3, <2>4
  <1>5. Least(at) \in at
    <2>1. at \subseteq Nat
      <3> HIDE DEF ps
      <3> QED
        BY <1>2 DEF NamedProps
    <2> HIDE DEF at
    <2> QED
      BY <1>4, <2>1, LeastOf
  <1>6. PICK q : q = Least(at)
    OBVIOUS
  <1>7. q \in DOMAIN ps
    BY <1>5, <1>6 DEF NamedProps
  <1>8. t = [t EXCEPT ![L].props[q].val = v]
    <2> HIDE DEF at
    <2> QED
      BY <1>3, <1>4, <1>6
  <1>9. ps[q].val = v
    <2>1. t[L] = [t[L] EXCEPT !.props[q].val = v]
      BY <1>1, <1>8
    <2>2. ps = [ps EXCEPT ![q].val = v]
      <3> HIDE DEF ps
      <3>1. [t[L] EXCEPT !.props[q].val = v].props = [t[L].props EXCEPT ![q].val = v]
        BY <1>1
      <3> QED
        BY <1>1, <2>1, <3>1 DEF ps
    <2>3. ps[q] = [ps[q] EXCEPT !.val = v]
      <3> HIDE DEF ps
      <3> QED
        BY <1>7, <2>2
    <2>4. ps[q] \in P
      <3> HIDE DEF ps, P
      <3> QED
        BY <1>2, <1>7
    <2> HIDE DEF ps
    <2> QED
      BY <2>3, <2>4 DEF Prop
  <1> QED
    BY <1>4, <1>6, <1>9

LEMMA TakenOld ==
  ASSUME NEW b, Sound(b), NEW n, NEW at, NEW ends, NEW items, NEW c,
         Holding(b, n, at, ends, items, c), NEW p, NEW v,
         NEW K \in c + 1 .. n, Run(items, p, c + 1, K), items[K].tag = FDT_PROP, items[K].name = p
  PROVE  Taken(TreeOf(items), p, v) = FDT_TAGALIGN(Len(v)) - FDT_TAGALIGN(ValLen(items[K]))
  <1>1. /\ n \in Nat /\ c \in 1 .. n /\ items[c].tag = FDT_BEGIN_NODE /\ Indexed(items, n)
        /\ Typed(items, n, p, v)
    BY HoldingFacts
  <1>2. PICK S : p \in S /\ v \in S /\ \A i \in 1 .. n : items[i] \in ItemOf(S)
    BY <1>1 DEF Typed
  <1>3. K \in 1 .. n /\ Spot(items, n, c)
    BY <1>1 DEF Holding
  <1>4. PICK it, x : it = items[K] /\ x = items[K].val
    OBVIOUS
  <1>5. x \in S /\ it = [tag |-> FDT_PROP, name |-> p, val |-> x]
    BY <1>2, <1>3, <1>4 DEF ItemOf
  <1>6. items = Put(items, n, K - 1, 0, it)
    <2>1. ASSUME NEW i \in 1 .. n
          PROVE  items[i] = IF i <= K - 1 THEN items[i] ELSE IF i = (K - 1) + 1 THEN it ELSE items[i - 0]
      BY <1>1, <1>3, <1>4
    <2>2. n + 0 = n
      BY <1>1
    <2> QED
      BY <1>1, <2>1, <2>2 DEF Put, Indexed
  <1>7. WithProp(TreeOf(items), p, x) = TreeOf(items)
    BY <1>1, <1>2, <1>3, <1>5, <1>6, ChangeTree
  <1>8. PICK f : Grown(f, n, items, S) /\ TreeOf(items) = f[n].seq
    BY <1>1, <1>2, TreeOfIs
  <1>9. PICK t, L : t = TreeOf(items) /\ L = Least(Chosens(t))
    OBVIOUS
  <1>10. t \in Seq(NodeOf(S)) /\ L \in 1 .. Len(t)
    <2>1. n \in 0 .. n
      BY <1>1
    <2>2. f[n].seq \in Seq(NodeOf(S))
      BY <1>1, <1>8, <2>1, GrownAt
    <2>3. Len(f[c].seq) = Least(Chosens(f[n].seq)) /\ Len(f[c].seq) \in 1 .. Len(f[n].seq)
      BY <1>1, <1>2, <1>3, <1>8, SpotAt
    <2> QED
      BY <1>8, <1>9, <2>2, <2>3
  <1>11. /\ NamedProps(t[L].props, p) # {}
         /\ t[L].props[Least(NamedProps(t[L].props, p))].val = x
    BY <1>7, <1>9, <1>10, PropOfSame
  <1>12. Taken(t, p, v) = FDT_TAGALIGN(Len(v))
                            - FDT_TAGALIGN(Len(t[L].props[Least(NamedProps(t[L].props, p))].val))
    BY <1>9, <1>11 DEF Taken, NamedProps
  <1>13. Taken(t, p, v) = FDT_TAGALIGN(Len(v)) - FDT_TAGALIGN(Len(x))
    BY <1>11, <1>12
  <1> QED
    BY <1>4, <1>9, <1>13 DEF ValLen

LEMMA TakenNew ==
  ASSUME NEW b, Sound(b), NEW n, NEW at, NEW ends, NEW items, NEW c,
         Holding(b, n, at, ends, items, c), NEW p, NEW v,
         NEW K \in c + 1 .. n, Run(items, p, c + 1, K), items[K].tag \notin {FDT_PROP, FDT_NOP}
  PROVE  Taken(TreeOf(items), p, v) = PropSize + FDT_TAGALIGN(Len(v)) + NameRoom(boot_param, p)
  <1>1. /\ n \in Nat /\ c \in 1 .. n /\ items[c].tag = FDT_BEGIN_NODE /\ Indexed(items, n)
        /\ Typed(items, n, p, v)
    BY HoldingFacts
  <1>2. PICK S : p \in S /\ v \in S /\ \A i \in 1 .. n : items[i] \in ItemOf(S)
    BY <1>1 DEF Typed
  <1>3. Spot(items, n, c) /\ Orderly(items) /\ DOMAIN items = 1 .. n
    BY <1>1 DEF Holding, Indexed
  <1>4. PICK f : Grown(f, n, items, S) /\ TreeOf(items) = f[n].seq
    BY <1>1, <1>2, TreeOfIs
  <1>5. PICK t, L : t = TreeOf(items) /\ L = Least(Chosens(t))
    OBVIOUS
  <1>6. t \in Seq(NodeOf(S)) /\ L \in 1 .. Len(t) /\ Nameless(t[L].props, p)
    <2>1. n \in 0 .. n /\ n \in c .. n
      BY <1>1
    <2>2. f[n].seq \in Seq(NodeOf(S))
      BY <1>1, <1>4, <2>1, GrownAt
    <2>3. Len(f[c].seq) = Least(Chosens(f[n].seq)) /\ Len(f[c].seq) \in 1 .. Len(f[n].seq)
      BY <1>1, <1>2, <1>3, <1>4, SpotAt
    <2>4. Nameless(PropsAt(f, n, Len(f[c].seq)), p)
      BY <1>1, <1>2, <1>3, <1>4, <2>1, RunEnd
    <2> QED
      BY <1>4, <1>5, <2>2, <2>3, <2>4 DEF PropsAt
  <1>7. NamedProps(t[L].props, p) = {}
    <2>1. t[L].props \in Seq(Prop(S))
      BY <1>6, NodeIs
    <2>2. DOMAIN t[L].props = 1 .. Len(t[L].props)
      BY <2>1, PropsIn
    <2> QED
      BY <1>6, <2>2 DEF NamedProps, Nameless
  <1>8. Taken(t, p, v) = PropSize + FDT_TAGALIGN(Len(v)) + NameRoom(boot_param, p)
    BY <1>5, <1>7 DEF Taken, NamedProps, NameRoom
  <1> QED
    BY <1>5, <1>8

LEMMA TakesIs ==
  ASSUME NEW b, Sound(b), NEW n, NEW at, NEW ends, NEW items, NEW c,
         Holding(b, n, at, ends, items, c), NEW p, NEW v, NEW d,
         Takes(items, n, c, boot_param, p, v, d)
  PROVE  d = Taken(TreeOf(items), p, v)
  <1>1. PICK K \in c + 1 .. n :
          /\ Run(items, p, c + 1, K)
          /\ \/ /\ items[K].tag = FDT_PROP /\ items[K].name = p
                /\ d = FDT_TAGALIGN(Len(v)) - FDT_TAGALIGN(ValLen(items[K]))
             \/ /\ items[K].tag \notin {FDT_PROP, FDT_NOP}
                /\ d = PropSize + FDT_TAGALIGN(Len(v)) + NameRoom(boot_param, p)
    BY DEF Takes
  <1>2. CASE items[K].tag = FDT_PROP
    <2>1. Taken(TreeOf(items), p, v) = FDT_TAGALIGN(Len(v)) - FDT_TAGALIGN(ValLen(items[K]))
      BY <1>1, <1>2, TakenOld
    <2> QED
      BY <1>1, <1>2, <2>1
  <1>3. CASE items[K].tag # FDT_PROP
    <2>1. Taken(TreeOf(items), p, v) = PropSize + FDT_TAGALIGN(Len(v)) + NameRoom(boot_param, p)
      BY <1>1, <1>3, TakenNew
    <2> QED
      BY <1>1, <1>3, <2>1
  <1> QED
    BY <1>2, <1>3

-----------------------------------------------------------------------------
(* The blob in the buffer has no more in it than what has been edited      *)
(* takes, and the node of the settings is followed by another tag, if the  *)
(* DTB begins with its root.                                               *)
FollowedAt(b, o, t) ==
  \E n, at, ends, items, c :
    /\ Holding(b, n, at, ends, items, c) /\ at[c] = o /\ TreeOf(items) = t
    /\ Followed(items, n, c)

InRoom(room, t) == Roomy(fdt, boot_param, room) /\ FollowedAt(fdt, chosen, t)
HasRoot == Rooted(Items(boot_param))

Roomed ==
  /\ pc = "chosen" => Roomy(fdt, boot_param, RoomOpened)
  /\ pc = "bootargs" /\ HasRoot => InRoom(RoomOpened, Tree(boot_param))
  /\ pc = "initrd_start" /\ HasRoot => InRoom(RoomArgs, Args)
  /\ pc = "initrd_end" => initrd.size # 0 /\ (HasRoot => InRoom(RoomStart, WithStart))

LEMMA RoomOpenedIs == RoomOpened = OpenRoom(boot_param)
  <1> DEFINE b == boot_param
             W == whole_mem_rsv_size(b)
             S == SizeOfStruct(b)
  <1>1. RoomOpened = IF blocks_misordered(b, W, S) THEN SizeOrdered(b) ELSE data_size(b)
    BY DEF RoomOpened, SizeOfStruct, SizeOrdered, RsvStart
  <1> QED
    BY <1>1 DEF OpenRoom

SetFits(r, d, room, t) ==
  /\ r.ret < 0 => room + d > FDT_SIZE_MAX
  /\ ~(r.ret < 0) => Roomy(r.fdt, boot_param, room + d) /\ FollowedAt(r.fdt, chosen, t)

LEMMA SetRoom ==
  ASSUME IInv, pc \in Edited, NEW name \in Seq(Byte),
         \A i \in 1 .. Len(name) : name[i] # NUL, NEW val \in Seq(Byte),
         NEW room, NEW t, InRoom(room, t)
  PROVE  SetFits(fdt_setprop(fdt, chosen, name, val), Taken(t, name, val), room,
                 WithProp(t, name, val))
  <1> DEFINE f == boot_param
             r == fdt_setprop(fdt, chosen, name, val)
  <1>1. Good(f) /\ Kept(fdt, f) /\ Sound(fdt)
    BY DEF IInv, Work, Kept
  <1>2. whole_mem_rsv_size(f) \in Nat
    BY <1>1, FileCount
  <1>3. f.off_dt_strings \in Nat /\ f.size_dt_strings \in Nat
    BY <1>1, FileTells DEF Block
  <1>4. PICK n, at, ends, items, c :
          /\ Holding(fdt, n, at, ends, items, c) /\ at[c] = chosen /\ TreeOf(items) = t
          /\ Followed(items, n, c)
    BY DEF InRoom, FollowedAt
  <1>5. room \in Int /\ fdt.totalsize = FDT_SIZE_MAX /\ data_size(fdt) <= room
        /\ SameStrings(f, fdt)
    BY DEF InRoom, Roomy
  <1>6. PICK d : /\ Takes(items, n, c, f, name, val, d)
                 /\ Fits(fdt_setprop(fdt, at[c], name, val).ret,
                         fdt_setprop(fdt, at[c], name, val).fdt, fdt, d)
    BY <1>1, <1>2, <1>3, <1>4, <1>5, SetpropRoom
  <1>7. Fits(r.ret, r.fdt, fdt, d)
    BY <1>4, <1>6
  <1>8. d = Taken(t, name, val)
    BY <1>1, <1>4, <1>6, TakesIs
  <1>9. data_size(fdt) \in Nat /\ FDT_SIZE_MAX \in Nat
    BY <1>1, Inside, Sizes
  <1>10. CASE r.ret < 0
    <2>1. data_size(fdt) + d > FDT_SIZE_MAX /\ d \in Int
      BY <1>5, <1>7, <1>10 DEF Fits
    <2>2. room + d > FDT_SIZE_MAX
      BY <1>5, <1>9, <2>1
    <2> HIDE DEF r
    <2>3. SetFits(r, d, room, WithProp(t, name, val))
      BY <1>10, <2>2 DEF SetFits
    <2> QED
      BY <1>8, <2>3 DEF r
  <1>11. CASE ~(r.ret < 0)
    <2>1. /\ r.fdt.totalsize = fdt.totalsize /\ data_size(r.fdt) <= data_size(fdt) + d
          /\ SameStrings(fdt, r.fdt) /\ d \in Int
      BY <1>7, <1>11 DEF Fits
    <2>2. Sound(r.fdt)
      <3>1. chosen \in Int
        <4>1. c \in 1 .. n /\ \A i \in 1 .. n : Tag(fdt, n, at, items, i)
          BY <1>1, <1>4, HoldingFacts
        <4> QED
          BY <1>4, <4>1 DEF Tag
      <3>2. Keeps(r, f)
        BY <1>1, <1>2, <3>1, SetpropKeeps
      <3> QED
        BY <3>2 DEF Keeps, Kept
    <2>3. SameStrings(f, r.fdt)
      <3>1. fdt.size_dt_strings \in Nat /\ r.fdt.size_dt_strings \in Nat
        BY <1>1, <2>2, SoundFields DEF Fields
      <3> HIDE DEF r
      <3> QED
        BY <1>3, <1>5, <2>1, <3>1, SameStringsOn
    <2>4. data_size(r.fdt) \in Nat
      BY <2>2, Inside
    <2>5. FollowedAt(r.fdt, chosen, WithProp(t, name, val))
      <3> DEFINE z == fdt_setprop(fdt, at[c], name, val).fdt
      <3>1. ~(fdt_setprop(fdt, at[c], name, val).ret < 0)
        BY <1>4, <1>11
      <3>2. SetTo(z, n, items, at, c, name, val)
        BY <1>1, <1>2, <1>4, <3>1, SetpropGives
      <3>3. z = r.fdt
        BY <1>4
      <3> HIDE DEF z, r
      <3>4. FollowedAt(z, chosen, WithProp(t, name, val))
        BY <1>4, <3>2 DEF SetTo, FollowedAt
      <3> QED
        BY <3>3, <3>4
    <2> HIDE DEF r, f
    <2>6. room + d \in Int /\ data_size(r.fdt) <= room + d
      BY <1>5, <1>9, <2>1, <2>4
    <2>7. Roomy(r.fdt, f, room + d)
      BY <1>5, <2>1, <2>3, <2>6 DEF Roomy
    <2>8. SetFits(r, d, room, WithProp(t, name, val))
      BY <1>11, <2>5, <2>7 DEF SetFits, f
    <2> QED
      BY <1>8, <2>8 DEF r
  <1> QED
    BY <1>10, <1>11

-----------------------------------------------------------------------------
(* A boot that has failed had a cause.                                     *)
Causes == Roomed /\ FailsForCause

LEMMA SameRooms ==
  ASSUME boot_param' = boot_param, kernel_cmdline' = kernel_cmdline, initrd' = initrd
  PROVE  /\ RoomOpened' = RoomOpened /\ RoomArgs' = RoomArgs /\ RoomStart' = RoomStart
         /\ RoomEnd' = RoomEnd /\ Args' = Args /\ WithStart' = WithStart
         /\ HasRoot' = HasRoot /\ NoDtb' = NoDtb
  <1>1. RoomOpened' = RoomOpened
    BY DEF RoomOpened
  <1>2. Args' = Args /\ WithStart' = WithStart
    BY DEF Args, WithStart
  <1>4. RoomArgs' = RoomArgs
    BY <1>1 DEF RoomArgs, Taken
  <1>5. RoomStart' = RoomStart
    BY <1>2, <1>4 DEF RoomStart, Taken
  <1>6. RoomEnd' = RoomEnd
    BY <1>2, <1>5 DEF RoomEnd, Taken, initrd_end
  <1>7. HasRoot' = HasRoot /\ NoDtb' = NoDtb
    BY DEF HasRoot, NoDtb
  <1> QED
    BY <1>1, <1>2, <1>4, <1>5, <1>6, <1>7

LEMMA NamedSettings ==
  LET ok(n) == n \in Seq(Byte) /\ \A i \in 1 .. Len(n) : n[i] # NUL IN
  ok(BOOTARGS) /\ ok(INITRD_START) /\ ok(INITRD_END)
  BY NoNuls

(* Each step: a failure has a cause, and a success keeps to its room.      *)
LEMMA OpenCauses ==
  ASSUME IInv, Open
  PROVE  Causes'
  <1> DEFINE r == fdt_open_into(boot_param, fdt.mem, FALSE)
  <1>1. boot_param \in Files /\ Maps(fdt.mem, 0 .. FDT_SIZE_MAX - 1, Byte)
    BY DEF Open, IInv, Given, Work, Buffer
  <1>2. /\ r.ret \in Int
        /\ r.ret >= 0 => Roomy(r.fdt, boot_param, RoomOpened)
        /\ r.ret < 0 => NoDtb \/ RoomOpened > FDT_SIZE_MAX
    BY <1>1, OpenKeeps, OpenTells, RoomOpenedIs DEF NoDtb
  <1>3. /\ fdt' = IF r.ret < 0 THEN fdt ELSE r.fdt
        /\ pc' = IF r.ret < 0 THEN "failed" ELSE "chosen"
        /\ boot_param' = boot_param /\ kernel_cmdline' = kernel_cmdline /\ initrd' = initrd
    BY DEF Open, settings
  <1>4. RoomOpened' = RoomOpened /\ NoDtb' = NoDtb
    BY <1>3, SameRooms
  <1> HIDE DEF r
  <1>5. CASE r.ret < 0
    <2>1. pc' = "failed" /\ (NoDtb' \/ RoomOpened' > FDT_SIZE_MAX)
      BY <1>2, <1>3, <1>4, <1>5
    <2> QED
      BY <2>1 DEF Causes, Roomed, FailsForCause
  <1>6. CASE ~(r.ret < 0)
    <2>1. pc' = "chosen" /\ Roomy(fdt', boot_param', RoomOpened')
      BY <1>2, <1>3, <1>4, <1>6
    <2> QED
      BY <2>1 DEF Causes, Roomed, FailsForCause
  <1> QED
    BY <1>5, <1>6

LEMMA ChosenCauses ==
  ASSUME IInv, Telling, Causes, FindChosen
  PROVE  Causes'
  <1> DEFINE e == fdt_subnode_offset(fdt, 0, CHOSEN)
             r == fdt_make_node(fdt, 0, CHOSEN)
             items == Items(boot_param)
  <1>1. /\ pc = "chosen" /\ Sound(fdt) /\ Recites(fdt, items)
        /\ Roomy(fdt, boot_param, RoomOpened)
    BY DEF FindChosen, Edited, IInv, Work, Kept, Telling, Causes, Roomed
  <1>2. r.fdt = fdt /\ r.ret = e /\ e \in Int
    <2>1. e \in Int /\ e # NOTFOUND
      BY <1>1, SubnodeIs
    <2>2. r = IF e # NOTFOUND THEN Done(fdt, e) ELSE fdt_add_subnode(fdt, 0, CHOSEN)
      BY DEF fdt_make_node
    <2> HIDE DEF e, r
    <2> QED
      BY <2>1, <2>2 DEF Done
  <1>3. /\ chosen' = r.ret /\ fdt' = r.fdt
        /\ pc' = IF r.ret < 0 THEN "failed" ELSE "bootargs"
        /\ boot_param' = boot_param /\ kernel_cmdline' = kernel_cmdline /\ initrd' = initrd
    BY DEF FindChosen, settings
  <1>4. /\ RoomOpened' = RoomOpened /\ HasRoot' = HasRoot
        /\ Chosens(Tree(boot_param))' = Chosens(Tree(boot_param))
        /\ Tree(boot_param) = TreeOf(items) /\ Tree(boot_param)' = Tree(boot_param)
        /\ Rooted(Items(boot_param))' = HasRoot
    BY <1>3, SameRooms DEF HasRoot, Tree
  <1> HIDE DEF items, r
  <1>5. PICK n, at, ends :
          Tells(fdt, fdt.size_dt_struct, n, at, ends, items) /\ Orderly(items)
    BY <1>1 DEF Recites, Tale
  <1>6. /\ (e \in Int /\ e < 0) \/ AtSpot(at, items, n, e)
        /\ HasRoot => /\ e < 0 => Chosens(TreeOf(items)) = {}
                      /\ \A c \in 1 .. n : items[c].tag = FDT_BEGIN_NODE =>
                           Followed(items, n, c)
    BY <1>1, <1>5, ChosenAt DEF HasRoot, items
  <1> HIDE DEF e
  <1>7. CASE e < 0
    <2>1. pc' = "failed" /\ (HasRoot => Chosens(Tree(boot_param))' = {})
      BY <1>2, <1>3, <1>4, <1>6, <1>7
    <2>2. Rooted(Items(boot_param))' => Chosens(Tree(boot_param))' = {}
      BY <1>4, <2>1
    <2> QED
      BY <2>1, <2>2 DEF Causes, Roomed, FailsForCause
  <1>8. CASE ~(e < 0)
    <2>1. PICK c \in 1 .. n : e = at[c] /\ Spot(items, n, c)
      BY <1>6, <1>8 DEF AtSpot
    <2>2. Holding(fdt, n, at, ends, items, c)
      BY <1>5, <2>1 DEF Holding
    <2>3. pc' = "bootargs" /\ fdt' = fdt /\ chosen' = e /\ boot_param' = boot_param
      BY <1>2, <1>3, <1>8
    <2>4. HasRoot => FollowedAt(fdt, e, Tree(boot_param))
      <3> SUFFICES ASSUME HasRoot PROVE FollowedAt(fdt, e, Tree(boot_param))
        OBVIOUS
      <3>1. Followed(items, n, c)
        BY <1>6, <2>1 DEF Spot
      <3>2. at[c] = e /\ TreeOf(items) = Tree(boot_param)
        BY <1>4, <2>1
      <3> QED
        BY <2>2, <3>1, <3>2 DEF FollowedAt
    <2>5. HasRoot' => InRoom(RoomOpened, Tree(boot_param))'
      BY <1>1, <1>4, <2>3, <2>4 DEF InRoom
    <2> QED
      BY <2>3, <2>5 DEF Causes, Roomed, FailsForCause
  <1> QED
    BY <1>7, <1>8

LEMMA BootargsCauses ==
  ASSUME IInv, Causes, SetBootargs
  PROVE  Causes'
  <1> DEFINE s == Append(kernel_cmdline, NUL)
             w == SetString(BOOTARGS, kernel_cmdline)
             r == IF kernel_cmdline = << >> THEN Done(fdt, 0) ELSE w
             d == Taken(Tree(boot_param), BOOTARGS, s)
  <1>1. pc \in Edited /\ (HasRoot => InRoom(RoomOpened, Tree(boot_param)))
    BY DEF SetBootargs, Edited, Causes, Roomed
  <1>2. s \in Seq(Byte)
    <2> DEFINE b == Byte
    <2>1. NUL \in b
      BY DEF NUL, Byte, Base
    <2>2. kernel_cmdline \in Seq(b)
      BY DEF IInv, Given
    <2> HIDE DEF b
    <2>3. s \in Seq(b)
      BY <2>1, <2>2
    <2> QED
      BY <2>3 DEF b
  <1> HIDE DEF s
  <1>3. HasRoot => SetFits(w, d, RoomOpened, WithProp(Tree(boot_param), BOOTARGS, s))
    BY <1>1, <1>2, SetRoom, NamedSettings DEF SetString, s
  <1>4. /\ fdt' = r.fdt /\ pc' = IF r.ret < 0 THEN "failed" ELSE "initrd_start"
        /\ chosen' = chosen /\ boot_param' = boot_param
        /\ kernel_cmdline' = kernel_cmdline /\ initrd' = initrd
    BY DEF SetBootargs, Step, Failed, settings
  <1>5. RoomArgs' = RoomArgs /\ Args' = Args /\ HasRoot' = HasRoot
    BY <1>4, SameRooms
  <1>6. /\ Args = IF kernel_cmdline = << >> THEN Tree(boot_param)
                  ELSE WithProp(Tree(boot_param), BOOTARGS, s)
        /\ RoomArgs = RoomOpened + (IF kernel_cmdline = << >> THEN 0 ELSE d)
    BY DEF Args, RoomArgs, s
  <1> HIDE DEF w, d
  <1>7. HasRoot => /\ r.ret < 0 => RoomArgs > FDT_SIZE_MAX
                   /\ ~(r.ret < 0) => /\ Roomy(r.fdt, boot_param, RoomArgs)
                                      /\ FollowedAt(r.fdt, chosen, Args)
    <2> SUFFICES ASSUME HasRoot
                 PROVE  /\ r.ret < 0 => RoomArgs > FDT_SIZE_MAX
                        /\ ~(r.ret < 0) => /\ Roomy(r.fdt, boot_param, RoomArgs)
                                           /\ FollowedAt(r.fdt, chosen, Args)
      OBVIOUS
    <2>1. CASE kernel_cmdline = << >>
      <3>1. r.ret = 0 /\ r.fdt = fdt
        BY <2>1 DEF Done
      <3>2. RoomOpened \in Int /\ InRoom(RoomOpened, Tree(boot_param))
        BY <1>1 DEF InRoom, Roomy
      <3>3. RoomArgs = RoomOpened /\ Args = Tree(boot_param)
        BY <1>6, <2>1, <3>2
      <3> QED
        BY <3>1, <3>2, <3>3 DEF InRoom
    <2>2. CASE kernel_cmdline # << >>
      <3>1. r = w /\ RoomArgs = RoomOpened + d
            /\ Args = WithProp(Tree(boot_param), BOOTARGS, s)
        BY <1>6, <2>2
      <3>2. SetFits(w, d, RoomOpened, Args)
        BY <1>3, <3>1
      <3> QED
        BY <3>1, <3>2 DEF SetFits
    <2> QED
      BY <2>1, <2>2
  <1> HIDE DEF r
  <1>8. CASE r.ret < 0
    <2>1. pc' = "failed" /\ (HasRoot' => RoomArgs' > FDT_SIZE_MAX)
      BY <1>4, <1>5, <1>7, <1>8
    <2> QED
      BY <2>1 DEF Causes, Roomed, FailsForCause, HasRoot
  <1>9. CASE ~(r.ret < 0)
    <2>1. pc' = "initrd_start" /\ (HasRoot' => InRoom(RoomArgs, Args)')
      BY <1>4, <1>5, <1>7, <1>9 DEF InRoom
    <2> QED
      BY <2>1 DEF Causes, Roomed, FailsForCause
  <1> QED
    BY <1>8, <1>9

LEMMA StartCauses ==
  ASSUME IInv, Causes, SetInitrdStart
  PROVE  Causes'
  <1> DEFINE v == cpu_to_fdt32(initrd.addr)
             r == SetCell(INITRD_START, initrd.addr)
             d == Taken(Args, INITRD_START, v)
  <1>1. pc \in Edited /\ (HasRoot => InRoom(RoomArgs, Args))
    BY DEF SetInitrdStart, Edited, Causes, Roomed
  <1>2. v \in Seq(Byte)
    BY Cpu32Type DEF IInv, Given
  <1> HIDE DEF v
  <1>3. HasRoot => SetFits(r, d, RoomArgs, WithProp(Args, INITRD_START, v))
    BY <1>1, <1>2, SetRoom, NamedSettings DEF SetCell, v
  <1>4. WithStart = WithProp(Args, INITRD_START, v) /\ RoomStart = RoomArgs + d
    BY DEF WithStart, RoomStart, v
  <1>5. /\ chosen' = chosen /\ boot_param' = boot_param
        /\ kernel_cmdline' = kernel_cmdline /\ initrd' = initrd
    BY DEF SetInitrdStart, Step, settings
  <1>6. RoomStart' = RoomStart /\ WithStart' = WithStart /\ HasRoot' = HasRoot
    BY <1>5, SameRooms
  <1> HIDE DEF r, d
  <1>7. CASE initrd.size = 0
    <2>1. pc' = IF Done(fdt, 0).ret < 0 THEN "failed" ELSE "pack"
      BY <1>7 DEF SetInitrdStart, Step, Failed
    <2>2. pc' = "pack"
      BY <2>1 DEF Done
    <2> QED
      BY <2>2 DEF Causes, Roomed, FailsForCause
  <1>8. CASE initrd.size # 0
    <2>1. fdt' = r.fdt /\ pc' = IF r.ret < 0 THEN "failed" ELSE "initrd_end"
      BY <1>8 DEF SetInitrdStart, Step, Failed, r
    <2>2. CASE r.ret < 0
      <3>1. pc' = "failed" /\ initrd'.size # 0 /\ (HasRoot' => RoomStart' > FDT_SIZE_MAX)
        BY <1>3, <1>4, <1>5, <1>6, <1>8, <2>1, <2>2 DEF SetFits
      <3> QED
        BY <3>1 DEF Causes, Roomed, FailsForCause, HasRoot
    <2>3. CASE ~(r.ret < 0)
      <3>1. HasRoot => Roomy(r.fdt, boot_param, RoomStart) /\ FollowedAt(r.fdt, chosen, WithStart)
        BY <1>3, <1>4, <2>3 DEF SetFits
      <3>2. /\ pc' = "initrd_end" /\ initrd'.size # 0
            /\ HasRoot' => InRoom(RoomStart, WithStart)'
        BY <1>5, <1>6, <1>8, <2>1, <2>3, <3>1 DEF InRoom
      <3> QED
        BY <3>2 DEF Causes, Roomed, FailsForCause
    <2> QED
      BY <2>2, <2>3
  <1> QED
    BY <1>7, <1>8

LEMMA EndCauses ==
  ASSUME IInv, Causes, SetInitrdEnd
  PROVE  Causes'
  <1> DEFINE x == initrd_end
             v == cpu_to_fdt32(x)
             r == SetCell(INITRD_END, x)
             d == Taken(WithStart, INITRD_END, v)
  <1>1. pc \in Edited /\ initrd.size # 0 /\ (HasRoot => InRoom(RoomStart, WithStart))
    BY DEF SetInitrdEnd, Edited, Causes, Roomed
  <1>2. x \in Int
    <2>1. initrd.addr + initrd.size \in Int
      BY DEF IInv, Given
    <2>2. WordBase \in Nat /\ WordBase > 0
      BY PowerIs, Sizes DEF WordBase
    <2> QED
      BY <2>1, <2>2 DEF initrd_end
  <1>3. RoomEnd = RoomStart + d
    BY DEF RoomEnd
  <1>4. /\ fdt' = r.fdt /\ pc' = IF r.ret < 0 THEN "failed" ELSE "pack"
        /\ UNCHANGED settings
    BY DEF SetInitrdEnd, Step, Failed
  <1> HIDE DEF x
  <1>5. v \in Seq(Byte)
    BY <1>2, Cpu32Type
  <1> HIDE DEF v
  <1>6. HasRoot => SetFits(r, d, RoomStart, WithProp(WithStart, INITRD_END, v))
    BY <1>1, <1>5, SetRoom, NamedSettings DEF SetCell, v
  <1>7. /\ boot_param' = boot_param /\ kernel_cmdline' = kernel_cmdline /\ initrd' = initrd
    BY <1>4 DEF settings
  <1>8. RoomEnd' = RoomEnd /\ HasRoot' = HasRoot
    BY <1>7, SameRooms
  <1> HIDE DEF r, d
  <1>9. CASE r.ret < 0
    <2>1. pc' = "failed" /\ initrd'.size # 0 /\ (HasRoot' => RoomEnd' > FDT_SIZE_MAX)
      BY <1>1, <1>3, <1>4, <1>6, <1>7, <1>8, <1>9 DEF SetFits
    <2> QED
      BY <2>1 DEF Causes, Roomed, FailsForCause, HasRoot
  <1>10. CASE ~(r.ret < 0)
    <2>1. pc' = "pack"
      BY <1>4, <1>10
    <2> QED
      BY <2>1 DEF Causes, Roomed, FailsForCause
  <1> QED
    BY <1>9, <1>10

LEMMA CausesStep ==
  ASSUME IInv, Telling, Causes, [Next]_vars
  PROVE  Causes'
  <1>1. CASE SetCmdline \/ LoadInitrd \/ LoadDtb \/ Return
    <2>1. pc' = "prompt"
      BY <1>1 DEF SetCmdline, LoadInitrd, LoadDtb, Return
    <2> QED
      BY <2>1 DEF Causes, Roomed, FailsForCause
  <1>2. CASE Alloc
    <2>1. pc' = "open" \/ (pc' = "failed" /\ fdt' = NoBuffer)
      BY <1>2 DEF Alloc
    <2> QED
      BY <2>1 DEF Causes, Roomed, FailsForCause, NoBuffer
  <1>3. CASE Open
    BY <1>3, OpenCauses
  <1>4. CASE FindChosen
    BY <1>4, ChosenCauses
  <1>5. CASE SetBootargs
    BY <1>5, BootargsCauses
  <1>6. CASE SetInitrdStart
    BY <1>6, StartCauses
  <1>7. CASE SetInitrdEnd
    BY <1>7, EndCauses
  <1>8. CASE Pack
    <2>1. pc' = "kernel"
      BY <1>8 DEF Pack
    <2> QED
      BY <2>1 DEF Causes, Roomed, FailsForCause
  <1>9. CASE UNCHANGED vars
    <2>1. /\ pc' = pc /\ fdt' = fdt /\ chosen' = chosen
          /\ boot_param' = boot_param /\ kernel_cmdline' = kernel_cmdline /\ initrd' = initrd
      BY <1>9 DEF vars, settings
    <2>2. /\ RoomOpened' = RoomOpened /\ RoomArgs' = RoomArgs /\ RoomStart' = RoomStart
          /\ RoomEnd' = RoomEnd /\ Args' = Args /\ WithStart' = WithStart
          /\ HasRoot' = HasRoot /\ NoDtb' = NoDtb
      BY <2>1, SameRooms
    <2>3. /\ Tree(boot_param)' = Tree(boot_param) /\ NoBuffer' = NoBuffer
          /\ Chosens(Tree(boot_param))' = Chosens(Tree(boot_param))
          /\ Rooted(Items(boot_param))' = Rooted(Items(boot_param))
      BY <2>1 DEF NoBuffer
    <2>4. /\ InRoom(RoomOpened, Tree(boot_param))' = InRoom(RoomOpened, Tree(boot_param))
          /\ InRoom(RoomArgs, Args)' = InRoom(RoomArgs, Args)
          /\ InRoom(RoomStart, WithStart)' = InRoom(RoomStart, WithStart)
          /\ Roomy(fdt, boot_param, RoomOpened)' = Roomy(fdt, boot_param, RoomOpened)
      BY <2>1, <2>2, <2>3 DEF InRoom
    <2>5. Roomed'
      BY <2>1, <2>2, <2>4 DEF Causes, Roomed
    <2>6. FailsForCause'
      BY <2>1, <2>2, <2>3 DEF Causes, FailsForCause
    <2> QED
      BY <2>5, <2>6 DEF Causes
  <1> QED
    BY <1>1, <1>2, <1>3, <1>4, <1>5, <1>6, <1>7, <1>8, <1>9 DEF Next

(* A boot with a DTB fails only if there is no memory for the buffer, if   *)
(* boot_param holds no DTB, or one that does not begin with its root or    *)
(* that has no node chosen, or if the DTB, or what the settings add to it, *)
(* is more than the buffer holds: never for what an earlier boot left in   *)
(* the buffer, nor for a property that is there already.                   *)
THEOREM FailsOnlyForCause == Spec => []FailsForCause
  <1>1. Init => IInv /\ Telling /\ Causes
    <2>1. Init => Telling /\ Causes
      BY DEF Init, Telling, Causes, Roomed, FailsForCause
    <2> QED
      BY <2>1, InitHolds
  <1>2. IInv /\ Telling /\ Causes /\ [Next]_vars => IInv' /\ Telling' /\ Causes'
    BY StepInv, TellingStep, CausesStep
  <1>3. Causes => FailsForCause
    BY DEF Causes
  <1> QED
    BY <1>1, <1>2, <1>3, PTL DEF Spec

=============================================================================
