-------------------------------- MODULE MCBoot --------------------------------
(***************************************************************************)
(* Instances of Boot for TLC: 18 bytes of memory, boot_param of 3 bytes    *)
(* with the target of the copy overlapping it from below or apart from it, *)
(* and a buffer for the FDT that takes more than boot_param does.          *)
(***************************************************************************)
EXTENDS Boot

MCBootParams == {[start |-> 3, size |-> 3], [start |-> 5, size |-> 3], NoBlock}

(* No DTB is loaded without a boot_param to load it to. *)
MCSettings ==
  {s \in [kernel         : {[addr |-> 8, size |-> 2]},
          initrd         : {[addr |-> 11, size |-> 1], [addr |-> 0, size |-> 0]},
          boot_param     : MCBootParams,
          phys_start     : {1},
          fdt            : {4, 12},
          machine_id     : {4443},
          kernel_loaded  : BOOLEAN,
          dtb_loaded     : BOOLEAN,
          break_on_entry : BOOLEAN] : s.dtb_loaded => s.boot_param # NoBlock}
=============================================================================
