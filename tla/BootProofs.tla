------------------------------ MODULE BootProofs ------------------------------
(***************************************************************************)
(* Proofs about Boot, for every size of memory and every layout of the     *)
(* blocks that satisfies BootAssumption.                                   *)
(***************************************************************************)
EXTENDS Boot, TLAPS

Before == {"copy", "clear_cache", "caches_off"}
After == {"bkpt", "entry", "reset", "kernel"}

(* What is settled when the parameters have been built. *)
Settled ==
  pc # "prompt" =>
    /\ length \in Sizes(settings)
    /\ settings.boot_param.start = Source(settings)

(* builtin_memcpy has copied done bytes, and has not yet overwritten a     *)
(* byte it has still to copy.                                              *)
done == settings.boot_param.size - size

Copying ==
  pc = "copy" =>
    /\ size <= settings.boot_param.size
    /\ dst = Target(settings).start + done
    /\ src = Source(settings) + done
    /\ \A i \in Word :
         i < length /\ i < settings.boot_param.size =>
           IF i < done THEN Visible(Target(settings).start + i) = ParamByte(i)
           ELSE Visible(Source(settings) + i) = ParamByte(i)

Relocated ==
  pc \notin {"prompt", "copy"} =>
    \A i \in Word :
      i < length /\ i < settings.boot_param.size =>
        Visible(Target(settings).start + i) = ParamByte(i)

ImagesSeen == \A a \in ImageCells(settings) : Visible(a) = ImageByte(a)

Cache ==
  /\ cached <=> pc \in {"prompt"} \cup Before
  /\ pc \in {"caches_off"} \cup After => DOMAIN cache = {}

Called ==
  /\ pc = "kernel" => regs[3] = Target(settings).start
  /\ pc = "bkpt" => settings.break_on_entry

Inv ==
  /\ TypeOK /\ Apart(settings)
  /\ Settled /\ Copying /\ Relocated /\ ImagesSeen /\ Cache /\ Called

-----------------------------------------------------------------------------
(* The blocks of memory are words, whatever settings holds. *)
LEMMA Geometry ==
  ASSUME NEW s \in SettingsType
  PROVE  /\ Target(s).start \in Word /\ Source(s) \in Word
         /\ Target(s).size = s.boot_param.size
         /\ s.boot_param.size \in Word /\ Sizes(s) \subseteq Word
         /\ Word \subseteq Int
  <1>1. AddW(s.phys_start, RELOC) \in Word
    BY BootAssumption, WordSizeAssumption DEF SettingsType, AddW, Word
  <1>2. /\ s.fdt \in Word /\ s.boot_param \in Block /\ s.dtb_loaded \in BOOLEAN
    BY DEF SettingsType
  <1>3. Source(s) \in Word /\ s.boot_param.size \in Word
    BY <1>2 DEF Source, Block
  <1> QED
    BY <1>1, <1>3, BootAssumption, WordSizeAssumption
    DEF Target, BOOT_PARAM_RELADDR, Sizes, Word

(* A store changes what is seen at its address, and nothing else. *)
LEMMA StoreVisible ==
  ASSUME NEW a \in Word, NEW v, Store(a, v), ram' = ram, NEW x
  PROVE  Visible(x)' = IF x = a THEN v ELSE Visible(x)
  BY DEF Store, Visible

(* Writing a byte back changes nothing that is seen. *)
LEMMA EvictVisible ==
  ASSUME TypeOK, Evict, NEW x \in Word
  PROVE  Visible(x)' = Visible(x)
  <1>1. PICK a \in DOMAIN cache :
          /\ ram' = [ram EXCEPT ![a] = cache[a]]
          /\ cache' = [y \in DOMAIN cache \ {a} |-> cache[y]]
    BY DEF Evict
  <1>2. DOMAIN ram = Word /\ a \in Word
    BY DEF TypeOK
  <1>3. CASE x = a
    BY <1>1, <1>2, <1>3 DEF Visible
  <1>4. CASE x # a
    BY <1>1, <1>2, <1>4 DEF Visible
  <1> QED BY <1>3, <1>4

(* A content is seen at every address. *)
LEMMA VisibleContent ==
  ASSUME TypeOK, NEW x \in Word
  PROVE  Visible(x) \in Content
  BY DEF TypeOK, Visible

LEMMA InitInv == Init => Inv
  <1> SUFFICES ASSUME Init PROVE Inv
    OBVIOUS
  <1>1. settings \in SettingsType /\ Apart(settings)
    BY BootAssumption DEF Init
  <1>2. ImageCells(settings) \subseteq Word
    BY DEF ImageCells
  <1>3. 0 \in Word
    BY WordSizeAssumption DEF Word
  <1>4. TypeOK
    BY <1>1, <1>2, <1>3 DEF Init, TypeOK, Content, NULL
  <1>5. ImagesSeen
    BY DEF Init, ImagesSeen, Visible
  <1> QED BY <1>1, <1>4, <1>5
          DEF Init, Inv, Settled, Copying, Relocated, Cache, Called, Before, After

-----------------------------------------------------------------------------
(* update_fdt's buffer becomes boot_param: nothing else of settings, and   *)
(* none of the blocks, changes.                                            *)
LEMMA SettingsAfterParams ==
  ASSUME NEW s \in SettingsType, NEW t,
         t = [s EXCEPT !.boot_param.start = Source(s)]
  PROVE  /\ t \in SettingsType
         /\ Source(t) = Source(s) /\ t.boot_param.start = Source(t)
         /\ t.boot_param.size = s.boot_param.size
         /\ Target(t) = Target(s) /\ Sizes(t) = Sizes(s)
         /\ ImageCells(t) = ImageCells(s)
         /\ Apart(s) => Apart(t)
  <1>1. /\ t \in SettingsType /\ t.boot_param.start = Source(s)
        /\ t.boot_param.size = s.boot_param.size
        /\ t.dtb_loaded = s.dtb_loaded /\ t.fdt = s.fdt
        /\ t.phys_start = s.phys_start
        /\ t.kernel = s.kernel /\ t.initrd = s.initrd
    BY Geometry DEF SettingsType, Block
  <1>2. Source(t) = Source(s)
    BY <1>1 DEF Source
  <1>3. Target(t) = Target(s) /\ Sizes(t) = Sizes(s)
    BY <1>1 DEF Target, BOOT_PARAM_RELADDR, Sizes
  <1>4. ImageCells(t) = ImageCells(s)
    BY <1>1 DEF ImageCells, KernelBlock, InitrdBlock
  <1>5. Apart(s) => Apart(t)
    BY <1>1, <1>2, <1>3, <1>4 DEF Apart, Built
  <1> QED BY <1>1, <1>2, <1>3, <1>4, <1>5

LEMMA ParamsInv == Inv /\ Params => Inv'
  <1> SUFFICES ASSUME Inv, Params PROVE Inv'
    OBVIOUS
  <1>1. PICK n \in Sizes(settings) :
          /\ length' = n
          /\ cache' = [a \in DOMAIN cache
                               \cup {x \in Word : In(x, Built(settings, n))} |->
                         IF In(a, Built(settings, n))
                         THEN ParamByte(a - Source(settings)) ELSE cache[a]]
    BY DEF Params
  <1>2. settings \in SettingsType
    BY DEF Inv, TypeOK
  <1>3. /\ settings' \in SettingsType
        /\ Source(settings') = Source(settings)
        /\ settings'.boot_param.start = Source(settings)
        /\ settings'.boot_param.size = settings.boot_param.size
        /\ Target(settings') = Target(settings)
        /\ Sizes(settings') = Sizes(settings)
        /\ ImageCells(settings') = ImageCells(settings)
        /\ Apart(settings')
    BY <1>2, SettingsAfterParams DEF Params, Inv
  <1>4. /\ Target(settings).start \in Int /\ Source(settings) \in Int
        /\ Target(settings).start \in Word /\ Source(settings) \in Word
        /\ settings.boot_param.size \in Int
        /\ settings.boot_param.size \in Word /\ n \in Word /\ n \in Int
    BY <1>1, <1>2, Geometry
  <1>5. /\ pc' = "copy" /\ dst' = Target(settings).start
        /\ src' = Source(settings) /\ size' = settings.boot_param.size
        /\ UNCHANGED <<ram, cached, regs>> /\ pc = "prompt"
    BY DEF Params, Target
  <1>6. \A i \in Word : i < n /\ i < settings.boot_param.size =>
          Visible(Source(settings) + i)' = ParamByte(i)
    <2> SUFFICES ASSUME NEW i \in Word, i < n, i < settings.boot_param.size
                 PROVE  Visible(Source(settings) + i)' = ParamByte(i)
      OBVIOUS
    <2> DEFINE x == Source(settings) + i
    <2>1. x \in Word /\ x - Source(settings) = i
      BY <1>4, WordSizeAssumption DEF Inv, Apart, Word
    <2>2. In(x, Built(settings, n))
      BY <1>4, <2>1, WordSizeAssumption DEF In, Built, Word
    <2>3. x \in DOMAIN cache' /\ cache'[x] = ParamByte(i)
      BY <1>1, <2>1, <2>2
    <2> QED BY <1>3, <2>3 DEF Visible
  <1>7. \A a \in ImageCells(settings) : Visible(a)' = ImageByte(a)
    <2> SUFFICES ASSUME NEW a \in ImageCells(settings)
                 PROVE  Visible(a)' = ImageByte(a)
      OBVIOUS
    <2>1. ~In(a, Built(settings, n)) /\ Visible(a) = ImageByte(a)
      BY DEF Inv, Apart, ImagesSeen
    <2> QED BY <1>1, <1>5, <2>1 DEF Visible
  <1>8. TypeOK'
    <2>1. DOMAIN cache' \subseteq Word
      BY <1>1 DEF Inv, TypeOK
    <2>2. \A a \in DOMAIN cache' : cache'[a] \in Content
      <3> SUFFICES ASSUME NEW a \in DOMAIN cache' PROVE cache'[a] \in Content
        OBVIOUS
      <3>1. CASE In(a, Built(settings, n))
        <4>1. a - Source(settings) \in Word
          BY <1>4, <2>1, <3>1, WordSizeAssumption DEF In, Built, Word
        <4> QED BY <1>1, <3>1, <4>1 DEF Content
      <3>2. CASE ~In(a, Built(settings, n))
        BY <1>1, <3>2 DEF Inv, TypeOK
      <3> QED BY <3>1, <3>2
    <2>3. cached' = TRUE
      BY <1>5 DEF Inv, Cache
    <2> QED BY <1>1, <1>3, <1>4, <1>5, <2>1, <2>2, <2>3 DEF Inv, TypeOK
  <1>9. Settled'
    BY <1>1, <1>3 DEF Settled
  <1>10. Copying'
    BY <1>1, <1>3, <1>4, <1>5, <1>6, WordSizeAssumption DEF Copying, done, Word
  <1>11. Relocated' /\ ImagesSeen' /\ Cache' /\ Called'
    BY <1>3, <1>5, <1>7
    DEF Relocated, ImagesSeen, Cache, Called, Before, After, Inv
  <1> QED BY <1>3, <1>8, <1>9, <1>10, <1>11 DEF Inv

LEMMA CopyByteInv == Inv /\ CopyByte => Inv'
  <1> SUFFICES ASSUME Inv, CopyByte PROVE Inv'
    OBVIOUS
  <1> DEFINE T == Target(settings).start
             S == Source(settings)
             n == settings.boot_param.size
  <1>1. /\ settings' = settings /\ pc = "copy" /\ pc' = pc
        /\ UNCHANGED <<length, ram, cached, regs>>
        /\ size # 0 /\ Store(dst, Visible(src))
        /\ dst' = AddW(dst, 1) /\ src' = AddW(src, 1) /\ size' = SubW(size, 1)
    BY DEF CopyByte
  <1>2. /\ T \in Word /\ S \in Word /\ n \in Word /\ size \in Word
        /\ dst \in Word /\ src \in Word
        /\ settings \in SettingsType /\ length \in Word
    BY Geometry DEF Inv, TypeOK
  <1>3. T \in Int /\ S \in Int /\ n \in Int /\ size \in Int /\ length \in Int
        /\ T >= 0 /\ S >= 0 /\ n >= 0 /\ size > 0
        /\ WordSize \in Int /\ WordSize > 0
    BY <1>1, <1>2, WordSizeAssumption DEF Word
  <1>4. size <= n /\ dst = T + done /\ src = S + done
    BY <1>1 DEF Inv, Copying
  <1>5. /\ T + n < WordSize /\ S + n < WordSize
        /\ T <= S \/ S + n <= T
    BY DEF Inv, Apart
  <1> HIDE DEF T, S, n
  <1>6. /\ done \in 0 .. n - 1 /\ size' = size - 1
        /\ dst' = dst + 1 /\ src' = src + 1
        /\ done = n - size /\ done' = done + 1
        /\ dst' \in Word /\ src' \in Word /\ size' \in Word
    <2>1. done = n - size /\ done' = n - size'
      BY <1>1 DEF done, n
    <2>2. done \in 0 .. n - 1
      BY <1>3, <1>4, <2>1
    <2>3. dst' = dst + 1 /\ src' = src + 1 /\ size' = size - 1
      BY <1>1, <1>3, <1>4, <1>5, <2>2 DEF AddW, SubW
    <2>4. dst + 1 \in Word /\ src + 1 \in Word /\ size - 1 \in Word
      BY <1>2, <1>3, <1>4, <1>5, <2>2 DEF Word
    <2> QED BY <1>3, <2>1, <2>2, <2>3, <2>4
  <1>7. \A x \in Word :
          Visible(x)' = IF x = dst THEN Visible(src) ELSE Visible(x)
    BY <1>1, <1>2, StoreVisible
  <1>8. TypeOK'
    <2>1. Visible(src) \in Content
      BY <1>2, VisibleContent DEF Inv
    <2>2. /\ DOMAIN cache' = DOMAIN cache \cup {dst}
          /\ \A a \in DOMAIN cache' :
               cache'[a] = IF a = dst THEN Visible(src) ELSE cache[a]
      BY <1>1 DEF Store
    <2>3. /\ DOMAIN cache' \subseteq Word
          /\ \A a \in DOMAIN cache' : cache'[a] \in Content
      BY <1>2, <2>1, <2>2 DEF Inv, TypeOK
    <2>4. cached'
      BY <1>1 DEF Inv, Cache, Before, TypeOK
    <2> QED BY <1>1, <1>2, <1>6, <2>3, <2>4 DEF Inv, TypeOK
  <1>9. Copying'
    <2>1. size' <= n /\ dst' = T + done' /\ src' = S + done'
      BY <1>3, <1>4, <1>6
    <2>2. ASSUME NEW i \in Word, i < length, i < n
          PROVE  IF i < done' THEN Visible(T + i)' = ParamByte(i)
                 ELSE Visible(S + i)' = ParamByte(i)
      <3>1. i \in Int /\ i >= 0
        BY <1>3 DEF Word
      <3>2. T + i \in Word /\ S + i \in Word
        BY <1>3, <1>5, <2>2, <3>1 DEF Word
      <3>3. IF i < done THEN Visible(T + i) = ParamByte(i)
            ELSE Visible(S + i) = ParamByte(i)
        BY <1>1, <2>2 DEF Inv, Copying, T, S, n
      <3>4. T' = T /\ S' = S
        BY <1>1 DEF T, S
      <3>5. CASE i < done
        <4>1. T + i # dst /\ i < done'
          BY <1>3, <1>4, <1>6, <3>1, <3>5
        <4>2. Visible(T + i) = ParamByte(i)
          BY <3>3, <3>5
        <4> QED BY <1>7, <3>2, <3>4, <4>1, <4>2
      <3>6. CASE i = done
        <4>1. T + i = dst /\ S + i = src /\ i < done' /\ ~(i < done)
          BY <1>3, <1>4, <1>6, <3>1, <3>6
        <4>2. Visible(src) = ParamByte(i)
          BY <3>3, <4>1
        <4> QED BY <1>7, <3>2, <3>4, <4>1, <4>2
      <3>7. CASE i > done
        <4>1. S + i # dst /\ ~(i < done') /\ ~(i < done)
          BY <1>3, <1>4, <1>5, <1>6, <2>2, <3>1, <3>7
        <4>2. Visible(S + i) = ParamByte(i)
          BY <3>3, <4>1
        <4> QED BY <1>7, <3>2, <3>4, <4>1, <4>2
      <3> QED BY <1>6, <3>1, <3>5, <3>6, <3>7
    <2> QED BY <1>1, <2>1, <2>2 DEF Copying, T, S, n
  <1>10. ImagesSeen'
    <2> SUFFICES ASSUME NEW a \in ImageCells(settings)
                 PROVE  Visible(a)' = ImageByte(a)
      BY <1>1 DEF ImagesSeen
    <2>1. a \in Word /\ ~In(a, Target(settings)) /\ Visible(a) = ImageByte(a)
      BY DEF Inv, Apart, ImagesSeen, ImageCells
    <2>2. In(dst, Target(settings))
      <3>1. T <= dst /\ dst < T + n
        BY <1>3, <1>4, <1>6
      <3> QED BY <3>1, Geometry, <1>2 DEF In, T, n
    <2>3. a # dst
      BY <2>1, <2>2
    <2> QED BY <1>7, <2>1, <2>3
  <1>11. Settled' /\ Relocated' /\ Cache' /\ Called' /\ Apart(settings')
    BY <1>1 DEF Inv, Settled, Relocated, Cache, Called, Before, After
  <1> QED BY <1>8, <1>9, <1>10, <1>11 DEF Inv

LEMMA CopiedInv == Inv /\ Copied => Inv'
  <1> SUFFICES ASSUME Inv, Copied PROVE Inv'
    OBVIOUS
  <1>1. /\ pc = "copy" /\ size = 0 /\ pc' = "clear_cache"
        /\ UNCHANGED <<settings, length, dst, src, size, ram, cache, cached,
                        regs>>
    BY DEF Copied
  <1>2. \A x : Visible(x)' = Visible(x)
    BY <1>1 DEF Visible
  <1>3. TypeOK'
    BY <1>1 DEF Inv, TypeOK
  <1>4. Relocated'
    <2> SUFFICES ASSUME NEW i \in Word, i < length, i < settings.boot_param.size
                 PROVE  Visible(Target(settings).start + i)' = ParamByte(i)
      BY <1>1 DEF Relocated
    <2>1. settings.boot_param.size \in Int
      BY Geometry DEF Inv, TypeOK
    <2>2. i < done
      BY <1>1, <2>1 DEF done
    <2>3. Visible(Target(settings).start + i) = ParamByte(i)
      BY <1>1, <2>2 DEF Inv, Copying
    <2> QED BY <1>1, <1>2, <2>3
  <1>5. Settled' /\ Copying' /\ ImagesSeen' /\ Cache' /\ Called'
        /\ Apart(settings')
    BY <1>1, <1>2
    DEF Inv, Settled, Copying, ImagesSeen, Cache, Called, Before, After
  <1> QED BY <1>3, <1>4, <1>5 DEF Inv

LEMMA ClearCacheInv == Inv /\ ClearCache => Inv'
  <1> SUFFICES ASSUME Inv, ClearCache PROVE Inv'
    OBVIOUS
  <1>1. /\ pc = "clear_cache" /\ pc' = "caches_off"
        /\ ram' = [a \in Word |-> Visible(a)] /\ cache' = << >>
        /\ UNCHANGED <<settings, length, dst, src, size, cached, regs>>
    BY DEF ClearCache
  <1>2. DOMAIN cache' = {} /\ \A x \in Word : Visible(x)' = Visible(x)
    BY <1>1 DEF Visible
  <1>3. TypeOK'
    BY <1>1, <1>2, VisibleContent DEF Inv, TypeOK
  <1>4. Relocated'
    <2> SUFFICES ASSUME NEW i \in Word, i < length, i < settings.boot_param.size
                 PROVE  Visible(Target(settings).start + i)' = ParamByte(i)
      BY <1>1 DEF Relocated
    <2>1. Target(settings).start + i \in Word
      BY Geometry, WordSizeAssumption DEF Inv, TypeOK, Apart, Word
    <2>2. Visible(Target(settings).start + i) = ParamByte(i)
      BY <1>1 DEF Inv, Relocated
    <2> QED BY <1>1, <1>2, <2>1, <2>2
  <1>5. ImagesSeen'
    BY <1>1, <1>2 DEF Inv, ImagesSeen, ImageCells
  <1>6. Settled' /\ Copying' /\ Cache' /\ Called' /\ Apart(settings')
    BY <1>1, <1>2 DEF Inv, Settled, Copying, Cache, Called, Before, After
  <1> QED BY <1>3, <1>4, <1>5, <1>6 DEF Inv

LEMMA CachesOffInv == Inv /\ CachesOff => Inv'
  <1> SUFFICES ASSUME Inv, CachesOff PROVE Inv'
    OBVIOUS
  <1>1. /\ pc = "caches_off" /\ cached' = FALSE
        /\ pc' = "entry" \/ (pc' = "bkpt" /\ settings.break_on_entry)
        /\ UNCHANGED <<settings, length, dst, src, size, ram, cache, regs>>
    BY DEF CachesOff
  <1>2. \A x : Visible(x)' = Visible(x)
    BY <1>1 DEF Visible
  <1>3. TypeOK'
    BY <1>1 DEF Inv, TypeOK, Cache
  <1> QED BY <1>1, <1>2, <1>3
          DEF Inv, Settled, Copying, Relocated, ImagesSeen, Cache, Called,
              Before, After

LEMMA BkptInv == Inv /\ Bkpt => Inv'
  <1> SUFFICES ASSUME Inv, Bkpt PROVE Inv'
    OBVIOUS
  <1>1. /\ pc = "bkpt" /\ pc' \in {"entry", "reset"}
        /\ UNCHANGED <<settings, length, dst, src, size, ram, cache, cached,
                        regs>>
    BY DEF Bkpt
  <1>2. \A x : Visible(x)' = Visible(x)
    BY <1>1 DEF Visible
  <1>3. TypeOK'
    BY <1>1 DEF Inv, TypeOK
  <1> QED BY <1>1, <1>2, <1>3
          DEF Inv, Settled, Copying, Relocated, ImagesSeen, Cache, Called,
              Before, After

LEMMA EntryInv == Inv /\ Entry => Inv'
  <1> SUFFICES ASSUME Inv, Entry PROVE Inv'
    OBVIOUS
  <1>1. /\ pc = "entry" /\ pc' = "kernel"
        /\ regs'[3] = Target(settings).start
        /\ UNCHANGED <<settings, length, dst, src, size, ram, cache, cached>>
    BY DEF Entry, Target
  <1>2. \A x : Visible(x)' = Visible(x)
    BY <1>1 DEF Visible
  <1>3. TypeOK'
    BY <1>1 DEF Inv, TypeOK
  <1> QED BY <1>1, <1>2, <1>3
          DEF Inv, Settled, Copying, Relocated, ImagesSeen, Cache, Called,
              Before, After

LEMMA EvictInv == Inv /\ Evict => Inv'
  <1> SUFFICES ASSUME Inv, Evict PROVE Inv'
    OBVIOUS
  <1>1. UNCHANGED <<settings, pc, length, dst, src, size, cached, regs>>
    BY DEF Evict
  <1>2. \A x \in Word : Visible(x)' = Visible(x)
    BY EvictVisible DEF Inv
  <1>3. PICK a \in DOMAIN cache :
          /\ ram' = [ram EXCEPT ![a] = cache[a]]
          /\ cache' = [x \in DOMAIN cache \ {a} |-> cache[x]]
    BY DEF Evict
  <1>4. TypeOK'
    BY <1>1, <1>3 DEF Inv, TypeOK
  <1>5. ASSUME NEW i \in Word, i < settings.boot_param.size
        PROVE  /\ Target(settings).start + i \in Word
               /\ Source(settings) + i \in Word
    BY <1>5, Geometry, WordSizeAssumption DEF Inv, TypeOK, Apart, Word
  <1>6. Copying'
    BY <1>1, <1>2, <1>5 DEF Inv, Copying, done
  <1>7. Relocated'
    BY <1>1, <1>2, <1>5 DEF Inv, Relocated
  <1>8. ImagesSeen'
    BY <1>1, <1>2 DEF Inv, ImagesSeen, ImageCells
  <1>9. Settled' /\ Cache' /\ Called' /\ Apart(settings')
    BY <1>1, <1>3 DEF Inv, Settled, Cache, Called
  <1> QED BY <1>4, <1>6, <1>7, <1>8, <1>9 DEF Inv

LEMMA NextInv == Inv /\ [Next]_vars => Inv'
  <1> SUFFICES ASSUME Inv, [Next]_vars PROVE Inv'
    OBVIOUS
  <1>1. CASE UNCHANGED vars
    BY <1>1
    DEF vars, Inv, TypeOK, Settled, Copying, Relocated, ImagesSeen, Cache,
        Called, Visible, done
  <1>2. CASE Next
    BY <1>2, ParamsInv, CopyByteInv, CopiedInv, ClearCacheInv, CachesOffInv,
       BkptInv, EntryInv, EvictInv
    DEF Next, KernelBoot
  <1> QED BY <1>1, <1>2

-----------------------------------------------------------------------------
(* The invariant the theorems rest on. *)
THEOREM InvHolds == Spec => []Inv
  BY InitInv, NextInv, PTL DEF Spec

(* Every reachable state of the hand-over has its types, and the cache is  *)
(* never turned off with a byte in it that memory does not have.           *)
THEOREM TypeCorrect == Spec => []TypeOK
  <1>1. Inv => TypeOK
    BY DEF Inv
  <1> QED BY <1>1, InvHolds, PTL

(* For every layout with the copy clear of the images, the kernel finds    *)
(* every byte of them in memory.                                           *)
THEOREM ImagesAlwaysArrive == Spec => []ImagesArrive
  <1>1. Inv => ImagesArrive
    BY DEF Inv, ImagesArrive, Running, ImagesSeen, Cache, After, Visible
  <1> QED BY <1>1, InvHolds, PTL

(* The parameters that were built are in memory, at the address in r2,     *)
(* also when the copy overlaps its source from below.                      *)
THEOREM ParamsAlwaysArrive == Spec => []ParamsArrive
  <1>1. Inv => ParamsArrive
    <2> SUFFICES ASSUME Inv, pc = "kernel", NEW i \in 0 .. length - 1,
                        i < settings.boot_param.size
                 PROVE  ram[AddW(regs[3], i)] = ParamByte(i)
      BY DEF ParamsArrive, Running
    <2>1. /\ regs[3] = Target(settings).start /\ DOMAIN cache = {}
      BY DEF Inv, Called, Cache, After
    <2>2. length \in Word /\ settings \in SettingsType
      BY DEF Inv, TypeOK
    <2>3. i \in Word /\ i < length /\ i \in Int /\ i >= 0
      BY <2>2, WordSizeAssumption DEF Word
    <2>4. Visible(Target(settings).start + i) = ParamByte(i)
      BY <2>3 DEF Inv, Relocated
    <2>5. AddW(regs[3], i) = Target(settings).start + i
      BY <2>1, <2>2, <2>3, Geometry, WordSizeAssumption
      DEF Inv, Apart, AddW, Word
    <2> QED BY <2>1, <2>4, <2>5 DEF Visible
  <1> QED BY <1>1, InvHolds, PTL

-----------------------------------------------------------------------------
(* With the invariant the kernel would see what the loader sees, had the   *)
(* copy ended.                                                             *)
LEMMA HandedVisible ==
  ASSUME Inv, NEW x \in Word
  PROVE  /\ Seen(x) = Visible(x)
         /\ Handed[x] = IF pc = "copy" /\ dst <= x /\ x < dst + size
                        THEN Seen(AddW(src, x - dst)) ELSE Visible(x)
  <1>1. Seen(x) = Visible(x)
    BY DEF Inv, Cache, TypeOK, After, Before, Seen, Visible
  <1> QED BY <1>1 DEF Handed

(* Outside of the copy, what does not change what is seen changes nothing  *)
(* of the memory handed over.                                              *)
LEMMA HandedKept ==
  ASSUME Inv, Inv', pc # "copy", pc' # "copy",
         \A x \in Word : Visible(x)' = Visible(x)
  PROVE  Handed' = Handed
  <1>1. \A x \in Word : Seen(x) = Visible(x)
    BY HandedVisible
  <1>2. \A x \in Word : Seen(x)' = Visible(x)'
    BY DEF Inv, Cache, TypeOK, After, Before, Seen, Visible
  <1>3. Handed = [x \in Word |-> Visible(x)]
    BY <1>1 DEF Handed
  <1>4. Handed' = [x \in Word |-> Visible(x)']
    BY <1>2 DEF Handed
  <1> QED BY <1>3, <1>4

LEMMA HandOverInit == Init => H!Init
  <1> SUFFICES ASSUME Init PROVE H!Init
    OBVIOUS
  <1>1. \A x \in Word : Seen(x) = IF x \in ImageCells(settings) THEN ImageByte(x)
                                 ELSE Other
    BY DEF Init, Seen, Visible
  <1>2. Handed = Job(settings).loaded
    BY <1>1 DEF Init, Handed, Job
  <1> QED BY <1>2 DEF Init, H!Init

(* Building the parameters is the hand-over in one step.                   *)
LEMMA ParamsBoots ==
  ASSUME Inv, Inv', Params
  PROVE  H!Boot
  <1> DEFINE S == Source(settings)
             T == BOOT_PARAM_RELADDR(settings)
             room == settings.boot_param.size
  <1>1. PICK n \in Sizes(settings) :
          cache' = [a \in DOMAIN cache
                            \cup {x \in Word : In(x, Built(settings, n))} |->
                      IF In(a, Built(settings, n))
                      THEN ParamByte(a - S) ELSE cache[a]]
    BY DEF Params
  <1>2. /\ pc = "prompt" /\ pc' = "copy" /\ dst' = T /\ src' = S /\ size' = room
        /\ settings.kernel_loaded
        /\ settings.dtb_loaded \/ settings.boot_param.start # NULL
        /\ UNCHANGED <<ram, cached, regs>>
    BY DEF Params
  <1>3. settings \in SettingsType /\ TypeOK
    BY DEF Inv, TypeOK
  <1>4. Job(settings') = Job(settings) /\ Job(settings).ready
    <2> DEFINE t == settings'
    <2>1. /\ t = [settings EXCEPT !.boot_param.start = S]
          /\ Source(t) = S /\ t.boot_param.start = S
          /\ t.boot_param.size = room /\ Target(t) = Target(settings)
          /\ Sizes(t) = Sizes(settings) /\ ImageCells(t) = ImageCells(settings)
      BY <1>3, SettingsAfterParams DEF Params
    <2>2. /\ t.machine_id = settings.machine_id
          /\ t.kernel_loaded = settings.kernel_loaded
          /\ t.dtb_loaded = settings.dtb_loaded
          /\ t.break_on_entry = settings.break_on_entry
      BY <1>3, <2>1 DEF SettingsType
    <2>3. BOOT_PARAM_RELADDR(t) = T
      BY <2>1 DEF Target
    <2>4. t.dtb_loaded \/ t.boot_param.start # NULL
      BY <1>2, <2>1, <2>2 DEF Source
    <2> QED BY <1>2, <2>1, <2>2, <2>3, <2>4 DEF Job
  <1>5. PICK p : p = [i \in 0 .. n - 1 |-> ParamByte(i)]
    OBVIOUS
  <1>6. p \in Job(settings).params
    BY <1>5 DEF Job
  <1>7. S \in Word /\ T \in Word /\ room \in Word /\ n \in Word /\ Word \subseteq Int
    BY <1>3, Geometry DEF Target
  <1> DEFINE W == H!Written(Handed, p)
  <1>8. \A x \in Word : Visible(x)' = W[x]
    <2> SUFFICES ASSUME NEW x \in Word PROVE Visible(x)' = W[x]
      OBVIOUS
    <2>1. Handed[x] = Visible(x)
      BY <1>2, HandedVisible
    <2>2. In(x, Built(settings, n)) <=> x - S \in DOMAIN p
      BY <1>5, <1>7 DEF In, Built
    <2>3. W[x] = IF x - S \in DOMAIN p THEN p[x - S] ELSE Visible(x)
      <3>1. Job(settings).from = S
        BY DEF Job
      <3> QED BY <2>1, <3>1 DEF H!Written, H!Word, Word
    <2>4. CASE x - S \in DOMAIN p
      BY <1>1, <1>5, <2>2, <2>3, <2>4 DEF Visible
    <2>5. CASE x - S \notin DOMAIN p
      BY <1>1, <1>2, <2>2, <2>3, <2>5 DEF Visible
    <2> QED BY <2>4, <2>5
  <1>9. Handed' = H!Moved(W)
    <2> HIDE DEF W, S, T, room
    <2>1. \A x \in Word : Seen(x)' = W[x]
      BY <1>2, <1>8 DEF Inv, Cache, Before, Seen, Visible
    <2>2. ASSUME NEW x \in Word, T <= x, x < T + room
          PROVE  AddW(S, x - T) \in Word
      <3>1. S + room < WordSize
        BY DEF Inv, Apart, S, room
      <3> QED BY <1>7, <2>2, <3>1, WordSizeAssumption DEF AddW, Word
    <2>3. Handed' = [x \in Word |-> IF T <= x /\ x < T + room
                                    THEN W[AddW(S, x - T)] ELSE W[x]]
      BY <1>2, <2>1, <2>2 DEF Handed
    <2>4. /\ Job(settings).from = S /\ Job(settings).to = T
          /\ Job(settings).room = room
      BY DEF Job, S, T, room
    <2> QED BY <2>3, <2>4 DEF H!Moved, H!Word, H!AddW, Word, AddW
  <1> QED BY <1>2, <1>4, <1>6, <1>9 DEF H!Boot

(* A byte that builtin_memcpy copies is one that has already been moved in *)
(* the memory handed over: it reads no byte it has overwritten.            *)
LEMMA CopyByteStutters ==
  ASSUME Inv, Inv', CopyByte
  PROVE  Handed' = Handed
  <1> DEFINE T == Target(settings).start
             S == Source(settings)
             n == settings.boot_param.size
  <1>1. /\ settings' = settings /\ pc = "copy" /\ pc' = pc
        /\ UNCHANGED <<ram, cached>>
        /\ size # 0 /\ Store(dst, Visible(src))
        /\ dst' = AddW(dst, 1) /\ src' = AddW(src, 1) /\ size' = SubW(size, 1)
    BY DEF CopyByte
  <1>2. /\ T \in Word /\ S \in Word /\ n \in Word /\ size \in Word
        /\ dst \in Word /\ src \in Word
    BY Geometry DEF Inv, TypeOK
  <1>3. /\ T \in Int /\ S \in Int /\ n \in Int /\ size \in Int
        /\ T >= 0 /\ S >= 0 /\ n >= 0 /\ size > 0
        /\ WordSize \in Int /\ WordSize > 0
    BY <1>1, <1>2, WordSizeAssumption DEF Word
  <1>4. size <= n /\ dst = T + (n - size) /\ src = S + (n - size)
    BY <1>1 DEF Inv, Copying, done
  <1>5. T + n < WordSize /\ S + n < WordSize /\ (T <= S \/ S + n <= T)
    BY DEF Inv, Apart
  <1> HIDE DEF T, S, n
  <1>6. dst' = dst + 1 /\ src' = src + 1 /\ size' = size - 1
    BY <1>1, <1>3, <1>4, <1>5 DEF AddW, SubW
  <1>7. \A x \in Word :
          Visible(x)' = IF x = dst THEN Visible(src) ELSE Visible(x)
    BY <1>1, <1>2, StoreVisible
  <1>8. \A x \in Word : Seen(x) = Visible(x) /\ Seen(x)' = Visible(x)'
    BY <1>1 DEF Inv, Cache, Before, Seen, Visible
  <1>9. ASSUME NEW x \in Word
        PROVE  Handed'[x] = Handed[x]
    <2>1. x \in Int
      BY <1>3, <1>9 DEF Word
    <2>2. ~(dst + 1 <= x /\ x < (dst + 1) + (size - 1)) =>
            Handed'[x] = Visible(x)'
      BY <1>1, <1>6, <1>8 DEF Handed
    <2>3. Handed[x] = IF dst <= x /\ x < dst + size
                      THEN Seen(AddW(src, x - dst)) ELSE Visible(x)
      BY <1>1, HandedVisible
    <2>4. CASE x = dst
      <3>1. ~(dst + 1 <= x) /\ dst <= x /\ x < dst + size
        BY <1>3, <2>1, <2>4
      <3>2. AddW(src, x - dst) = src
        BY <1>2, <1>3, <1>4, <1>5, <2>4 DEF AddW
      <3>3. Handed[x] = Visible(src)
        BY <1>2, <1>8, <2>3, <3>1, <3>2
      <3> QED BY <1>7, <2>2, <2>4, <3>1, <3>3
    <2>5. CASE dst < x /\ x < dst + size
      <3>1. PICK y \in Word : y = src + (x - dst) /\ y # dst /\ y < WordSize
        BY <1>3, <1>4, <1>5, <2>1, <2>5 DEF Word
      <3>2. AddW(src, x - dst) = y
        BY <3>1 DEF AddW
      <3>3. AddW(src', x - dst') = y
        <4>1. src' + (x - dst') = y
          BY <1>3, <1>4, <1>6, <2>1, <3>1
        <4> QED BY <3>1, <4>1 DEF AddW
      <3>4. dst + 1 <= x /\ x < (dst + 1) + (size - 1) /\ dst <= x
        BY <1>3, <1>4, <2>1, <2>5
      <3>5. Handed[x] = Visible(y)
        BY <1>8, <2>3, <2>5, <3>1, <3>2, <3>4
      <3>6. Handed'[x] = Visible(y)'
        <4>1. dst' <= x /\ x < dst' + size' /\ cached'
          BY <1>1, <1>6, <3>4 DEF Inv, Cache, Before
        <4> QED BY <1>1, <3>3, <4>1 DEF Handed, Seen, Visible
      <3> QED BY <1>7, <3>1, <3>5, <3>6
    <2>6. CASE x < dst \/ x >= dst + size
      <3>1. /\ ~(dst + 1 <= x /\ x < (dst + 1) + (size - 1))
            /\ ~(dst <= x /\ x < dst + size) /\ x # dst
        BY <1>3, <1>4, <2>1, <2>6
      <3> QED BY <1>7, <2>2, <2>3, <3>1
    <2> QED BY <1>3, <1>4, <2>1, <2>4, <2>5, <2>6
  <1>10. Handed = [x \in Word |-> Handed[x]] /\ Handed' = [x \in Word |-> Handed'[x]]
    BY DEF Handed
  <1> QED BY <1>9, <1>10

(* A step of kernel_boot is one of the hand-over's, or changes nothing of  *)
(* it.                                                                     *)
LEMMA HandOverNext ==
  ASSUME Inv, Inv', [Next]_vars
  PROVE  [H!Next]_(H!handOverVars)
  <1> DEFINE phase == IF pc \in {"prompt", "kernel", "reset"} THEN pc
                      ELSE "booting"
  <1>1. ASSUME settings' = settings, phase' = phase, Handed' = Handed,
               regs' = regs
        PROVE  UNCHANGED H!handOverVars
    BY <1>1 DEF H!handOverVars, Job
  <1>2. CASE Params
    BY <1>2, ParamsBoots DEF H!Next
  <1>3. CASE CopyByte
    <2>1. Handed' = Handed
      BY <1>3, CopyByteStutters
    <2> QED BY <1>1, <1>3, <2>1 DEF CopyByte
  <1>4. CASE Copied
    <2>1. Handed' = Handed
      <3>1. /\ pc = "copy" /\ size = 0 /\ pc' = "clear_cache" /\ dst \in Int
            /\ UNCHANGED <<ram, cache, cached>>
        BY <1>4, WordSizeAssumption DEF Copied, Inv, TypeOK, Word
      <3>2. \A x \in Word : ~(dst <= x /\ x < dst + size) /\ Seen(x)' = Seen(x)
        BY <3>1, WordSizeAssumption DEF Seen, Visible, Word
      <3>3. Handed = [x \in Word |-> Seen(x)] /\ Handed' = [x \in Word |-> Seen(x)']
        BY <3>1, <3>2 DEF Handed
      <3> QED BY <3>2, <3>3
    <2> QED BY <1>1, <1>4, <2>1 DEF Copied
  <1>5. CASE ClearCache
    <2>1. \A x \in Word : Visible(x)' = Visible(x)
      BY <1>5 DEF ClearCache, Visible
    <2>2. Handed' = Handed
      BY <1>5, <2>1, HandedKept DEF ClearCache
    <2> QED BY <1>1, <1>5, <2>2 DEF ClearCache
  <1>6. CASE CachesOff
    <2>1. \A x \in Word : Visible(x)' = Visible(x)
      BY <1>6 DEF CachesOff, Visible
    <2>2. Handed' = Handed
      BY <1>6, <2>1, HandedKept DEF CachesOff
    <2> QED BY <1>1, <1>6, <2>2 DEF CachesOff
  <1>7. CASE Bkpt
    <2>1. \A x \in Word : Visible(x)' = Visible(x)
      BY <1>7 DEF Bkpt, Visible
    <2>2. Handed' = Handed
      BY <1>7, <2>1, HandedKept DEF Bkpt
    <2>3. CASE pc' = "entry"
      BY <1>1, <1>7, <2>2, <2>3 DEF Bkpt
    <2>4. CASE pc' = "reset"
      <3>1. Job(settings).may_reset
        BY <1>7 DEF Bkpt, Inv, Called, Job
      <3> QED BY <1>7, <2>2, <2>4, <3>1 DEF Bkpt, H!Reset, H!Next
    <2> QED BY <1>7, <2>3, <2>4 DEF Bkpt
  <1>8. CASE Entry
    <2>1. \A x \in Word : Visible(x)' = Visible(x)
      BY <1>8 DEF Entry, Visible
    <2>2. Handed' = Handed
      BY <1>8, <2>1, HandedKept DEF Entry
    <2>3. /\ Job(settings)' = Job(settings)
          /\ regs' = <<0, Job(settings).machine_id, Job(settings).to>>
      BY <1>8 DEF Entry, Job
    <2>4. phase = "booting" /\ phase' = "kernel"
      BY <1>8 DEF Entry
    <2> QED BY <2>2, <2>3, <2>4 DEF H!Enter, H!Next
  <1>9. CASE Evict
    <2>1. \A x \in Word : Visible(x)' = Visible(x)
      BY <1>9, EvictVisible DEF Inv
    <2>2. /\ UNCHANGED <<settings, pc, dst, src, size, regs>>
          /\ cached /\ cached'
      BY <1>9 DEF Evict
    <2>3. \A x \in Word : Seen(x)' = Seen(x)
      BY <2>1, <2>2 DEF Seen
    <2>4. Handed' = Handed
      <3>1. ASSUME NEW x \in Word, pc = "copy", dst <= x, x < dst + size
            PROVE  AddW(src, x - dst) \in Word
        <4>1. /\ dst \in Word /\ src \in Word /\ size \in Word
              /\ settings.boot_param.size \in Word /\ Source(settings) \in Word
              /\ size <= settings.boot_param.size
              /\ src = Source(settings) + (settings.boot_param.size - size)
              /\ Source(settings) + settings.boot_param.size < WordSize
          BY <3>1, Geometry DEF Inv, TypeOK, Copying, done, Apart
        <4> QED BY <3>1, <4>1, WordSizeAssumption DEF AddW, Word
      <3>2. PICK f : f = [y \in Word |-> Seen(y)]
        OBVIOUS
      <3>3. f = [y \in Word |-> Seen(y)']
        BY <2>3, <3>2
      <3>4. Handed = [x \in Word |-> IF pc = "copy" /\ dst <= x /\ x < dst + size
                                     THEN f[AddW(src, x - dst)] ELSE f[x]]
        BY <3>1, <3>2 DEF Handed
      <3>5. Handed' = [x \in Word |-> IF pc = "copy" /\ dst <= x /\ x < dst + size
                                      THEN f[AddW(src, x - dst)] ELSE f[x]]
        BY <2>2, <3>1, <3>3 DEF Handed, Seen, Visible
      <3> QED BY <3>4, <3>5
    <2> QED BY <1>1, <2>2, <2>4
  <1>10. CASE UNCHANGED vars
    <2>1. Handed' = Handed
      BY <1>10 DEF vars, Handed, Seen, Visible
    <2> QED BY <1>1, <1>10, <2>1 DEF vars
  <1> QED BY <1>2, <1>3, <1>4, <1>5, <1>6, <1>7, <1>8, <1>9, <1>10
          DEF Next, KernelBoot

(* The hand-over with its cache, its copy that may overlap its source and  *)
(* its breakpoint implements one in a single step: the kernel is entered   *)
(* on the images and the moved parameters, every other byte as it was.     *)
THEOREM HandOverImplemented == Spec => HandsOver
  <1>1. Init => H!Init
    BY HandOverInit
  <1>2. Inv /\ Inv' /\ [Next]_vars => [H!Next]_(H!handOverVars)
    BY HandOverNext
  <1> QED BY <1>1, <1>2, InvHolds, PTL DEF Spec, HandsOver, H!Spec

=============================================================================
