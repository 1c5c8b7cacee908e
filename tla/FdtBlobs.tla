----------------------------- MODULE FdtBlobs -----------------------------
(***************************************************************************)
(* Blobs as another program, such as a device tree compiler, lays them     *)
(* out: the inputs of the instances.                                       *)
(***************************************************************************)
EXTENDS FdtRw

(* Structure blocks, from their tags. *)
Begin(n) == cpu_to_fdt32(FDT_BEGIN_NODE) \o Padded(n)
PropOf(nameoff, v) ==
  cpu_to_fdt32(FDT_PROP) \o cpu_to_fdt32(Len(v)) \o cpu_to_fdt32(nameoff)
    \o v \o [i \in 1 .. FDT_TAGALIGN(Len(v)) - Len(v) |-> 0]
EndN == cpu_to_fdt32(FDT_END_NODE)
NopN == cpu_to_fdt32(FDT_NOP)
EndT == cpu_to_fdt32(FDT_END)
Entry(a, s) == cpu_to_fdt(a, 2 * FDT_TAGSIZE) \o cpu_to_fdt(s, 2 * FDT_TAGSIZE)

(* The reserve map, then structure and strings in libfdt's order, or the   *)
(* strings first, with room left at the end.                               *)
Blob(version, ordered, rsv, struct, strings, room) ==
  LET r == FDT_ALIGN(HeaderSize, 2 * FDT_TAGSIZE)
      first == IF ordered THEN struct ELSE strings
      second == IF ordered THEN strings ELSE struct
      a == r + Len(rsv)
      z == a + Len(first)
      bytes == rsv \o first \o second
      total == r + Len(bytes) + room IN
  [magic |-> FDT_MAGIC, version |-> version, last_comp_version |-> 16,
   totalsize |-> total, boot_cpuid_phys |-> 3, off_mem_rsvmap |-> r,
   off_dt_struct |-> IF ordered THEN a ELSE z,
   off_dt_strings |-> IF ordered THEN z ELSE a,
   size_dt_strings |-> Len(strings),
   size_dt_struct |-> IF version >= 17 THEN Len(struct) ELSE 0,
   mem |-> [i \in 0 .. total - 1 |->
              IF i \in r .. r + Len(bytes) - 1 THEN bytes[i - r + 1] ELSE 0]]

=============================================================================
