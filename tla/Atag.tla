-------------------------------- MODULE Atag --------------------------------
(***************************************************************************)
(* The list of tags for a kernel that is booted without a DTB: atag_build  *)
(* and atag_add of atag.c, and what a kernel reads back from it.           *)
(*                                                                         *)
(* buf is memory from boot_param.start on, in 32-bit words: the first room *)
(* of them are boot_param, what follows belongs to somebody else.  A word  *)
(* is <<n>>, or four bytes of the command line.  The list is built by one  *)
(* call of atag_add after another, each behind the check of the macro      *)
(* ATAG, which looks at where the last tag ended, not at the next one.     *)
(***************************************************************************)
EXTENDS Integers, SequencesExt

CONSTANTS
  BufWords,     \* words in MAX_BOOT_PARAM_SIZE
  CmdlineMax,   \* the longest kernel_cmdline, 127 in common.h
  Settings      \* what settings can hold when atag_build is called

NUL == 0

ASSUME AtagAssumption ==
  /\ BufWords \in Nat
  /\ CmdlineMax \in Nat
  /\ \A s \in Settings : s.cmdline \in Seq(Nat \ {NUL})
                         /\ Len(s.cmdline) <= CmdlineMax

VARIABLES
  settings,   \* the fields of settings the list is built from
  room,       \* words in boot_param: none if it could not be allocated
  buf,        \* the words from boot_param.start on
  current,    \* where the next tag goes, in words from boot_param.start
  calls,      \* how many of the calls below are behind us
  result      \* "building", or what atag_build returned

vars == <<settings, room, buf, current, calls, result>>

-----------------------------------------------------------------------------
(* atag.h *)
ATAG == [NONE    |-> 0,          CORE     |-> 1413545985,
         MEM     |-> 1413545986, RAMDISK  |-> 1413545988,
         INITRD2 |-> 1413611525, SERIAL   |-> 1413545990,
         REVISION |-> 1413545991, CMDLINE |-> 1413545993]

(* The calls of atag_build in their order, and the condition of each.      *)
(* Calls_NoneEarly has the last two the wrong way round.                   *)
Calls_NoneEarly == <<"CORE", "MEM", "CMDLINE", "INITRD2", "RAMDISK", "SERIAL",
                     "NONE", "REVISION">>
Calls == <<"CORE", "MEM", "CMDLINE", "INITRD2", "RAMDISK", "SERIAL",
           "REVISION", "NONE">>

Wanted(tag) ==
  CASE tag = "MEM"     -> settings.phys.size # 0
    [] tag = "CMDLINE" -> settings.cmdline # << >>
    [] tag = "INITRD2" -> settings.initrd_loaded
    [] tag = "RAMDISK" -> settings.ramdisk_size # 0
    [] OTHER           -> TRUE

(* The words of a tag after its header, in the order of its struct. *)
Fields(tag) ==
  CASE tag = "MEM"      -> <<settings.phys.size, settings.phys.start>>
    [] tag = "INITRD2"  -> <<settings.initrd.addr, settings.initrd.size>>
    [] tag = "RAMDISK"  -> <<0, settings.ramdisk_size, 0>>
    [] tag = "SERIAL"   -> <<settings.serialnr[1], settings.serialnr[2]>>
    [] tag = "REVISION" -> <<settings.rev>>
    [] OTHER            -> << >>

(* The words of a command line and its NUL.  The two operators before it   *)
(* have no room for the NUL, and a word too many.                          *)
cmdline_words_NoNul == (Len(settings.cmdline) + 3) \div 4
cmdline_words_ExtraWord == 1 + (Len(settings.cmdline) + 4) \div 4
cmdline_words == (Len(settings.cmdline) + 4) \div 4

(* hdr.size as atag_add computes it to advance; NONE is then given size 0. *)
tag_size(tag) ==
  2 + IF tag = "CMDLINE" THEN cmdline_words ELSE Len(Fields(tag))
hdr_size(tag) == IF tag = "NONE" THEN 0 ELSE tag_size(tag)

(* strcpy writes the line and its NUL; the bytes after it stay (-1).       *)
strcpy_bytes == Len(settings.cmdline) + 1
CopiedWord(k) ==
  [j \in 1 .. 4 |->
     CASE 4 * k + j < strcpy_bytes -> settings.cmdline[4 * k + j]
       [] 4 * k + j = strcpy_bytes -> NUL
       [] 4 * k + j > strcpy_bytes -> -1]

(* The memory after atag_add(head, tag). *)
atag_add(head, tag) ==
  [a \in DOMAIN buf |->
     CASE a = head     -> <<hdr_size(tag)>>
       [] a = head + 1 -> <<ATAG[tag]>>
       [] a - head - 1 \in DOMAIN Fields(tag) -> <<Fields(tag)[a - head - 1]>>
       [] /\ tag = "CMDLINE" /\ head + 2 <= a
          /\ 4 * (a - head - 2) < strcpy_bytes -> CopiedWord(a - head - 2)
       [] OTHER -> buf[a]]

-----------------------------------------------------------------------------
(* Memory to notice writes beyond boot_param in. *)
Cells == 0 .. BufWords + CmdlineMax + 8
Stale == <<-1>>

Init ==
  /\ settings \in Settings
  /\ room \in {0, BufWords}
  /\ buf = [a \in Cells |-> Stale]
  /\ current = 0
  /\ calls = 0
  /\ result = "building"

(* Without a buffer there is nothing to build in. *)
NoBuffer ==
  /\ result = "building" /\ calls = 0
  /\ room = 0
  /\ result' = "failed"
  /\ UNCHANGED <<settings, room, buf, current, calls>>

(* The check of ATAG. *)
Overrun == current > room

(* One call: atag_begin, or the macro ATAG if its condition holds. *)
Call ==
  /\ result = "building" /\ room # 0
  /\ calls < Len(Calls)
  /\ LET tag == Calls[calls + 1] IN
     IF calls # 0 /\ Wanted(tag) /\ Overrun
     THEN /\ result' = "failed"
          /\ UNCHANGED <<buf, current, calls>>
     ELSE /\ calls' = calls + 1
          /\ result' = IF tag = "NONE" THEN "built" ELSE "building"
          /\ IF Wanted(tag)
             THEN /\ buf' = atag_add(current, tag)
                  /\ current' = current + tag_size(tag)
             ELSE UNCHANGED <<buf, current>>
  /\ UNCHANGED <<settings, room>>

Next == NoBuffer \/ Call

Spec == Init /\ [][Next]_vars

-----------------------------------------------------------------------------
(* A kernel's reader: it goes from tag to tag by hdr.size, up to a size of *)
(* 0, and takes a command line up to its NUL, within the tag.              *)
String(head, words) ==
  LET byte(i) == buf[head + (i \div 4)][(i % 4) + 1]
      nuls == {i \in 0 .. 4 * words - 1 : byte(i) = NUL}
  IN IF nuls = {} THEN <<NUL>>
     ELSE [i \in 1 .. (CHOOSE n \in nuls : \A m \in nuls : n <= m) |->
             byte(i - 1)]

TagAt(p) ==
  LET words == buf[p][1] - 2
      id == buf[p + 1][1]
  IN [id     |-> id,
      fields |-> IF id = ATAG["CMDLINE"] THEN String(p + 2, words)
                 ELSE [k \in 1 .. words |-> buf[p + 1 + k][1]]]

TagsFrom[p \in 0 .. BufWords] ==
  LET next == p + buf[p][1] IN
  IF next = p \/ next \notin p .. BufWords THEN << >>
  ELSE <<TagAt(p)>> \o TagsFrom[next]

(* What settings asks for. *)
Tag(tag) ==
  [id |-> ATAG[tag],
   fields |-> IF tag = "CMDLINE" THEN settings.cmdline ELSE Fields(tag)]
Asked ==
  FlattenSeq([i \in 1 .. 7 |->
                IF Wanted(Calls[i]) THEN <<Tag(Calls[i])>> ELSE << >>])

(* The state of atag_build has its types, and a list is built when the     *)
(* last call, and no earlier one, has added NONE.                          *)
TypeOK ==
  /\ settings \in Settings
  /\ room \in {0, BufWords}
  /\ DOMAIN buf = Cells
  /\ current \in Nat
  /\ calls \in 0 .. Len(Calls)
  /\ result \in {"building", "built", "failed"}
  /\ result = "built" <=> calls = Len(Calls)

(* The kernel reads exactly the tags settings asks for, in their order,    *)
(* whatever was in the buffer before: sizes, fields and terminators of the *)
(* list agree with each other.                                             *)
ReadBack == result = "built" => TagsFrom[0] = Asked

(* atag_build writes nothing beyond boot_param, although the check of ATAG *)
(* does not look at the size of the tag that is about to be written, and   *)
(* gives up only for want of a buffer.                                     *)
NoOverrun ==
  /\ current <= room
  /\ \A a \in Cells : a >= room => buf[a] = Stale
  /\ result = "failed" => room = 0

(* The words of the longest list, 58 of the 4032 in boot_param.            *)
LongestList == 26 + (CmdlineMax + 4) \div 4

=============================================================================
