------------------------------- MODULE MCShell -------------------------------
(***************************************************************************)
(* Instances of Shell for TLC: three scripts, of which one runs the others *)
(* and one a script that does not exist, on machines of each kind.         *)
(***************************************************************************)
EXTENDS Shell

ASSUME Acyclic

MCMB == 4

Command(op, arg) == [op |-> op, arg |-> arg]
Script(s) == Command("script", s)
Exit == Command("exit", << >>)
Comment == Command("comment", << >>)
Blank == Command("empty", << >>)

(* An exit in a script is ignored, and a line that is longer than the      *)
(* buffer is a comment and a command.                                      *)
MCLines ==
  [outer |-> << <<Command("phys", <<9, 5>>)>>, <<Script("inner")>>, <<Comment>>,
                <<Script("inner")>>, <<Command("dtb", "good")>>, <<Script("last")>> >>,
   inner |-> << <<Blank>>, <<Command("cmdline", <<"a", "b", "c">>)>>,
                <<Script("none")>>, <<Comment, Command("boot", << >>)>>,
                <<Script("last")>>, <<Command("enterbkpt", << >>)>> >>,
   last  |-> << <<Exit>>, <<Command("rdsize", <<6>>)>> >>]

MCTyped ==
  {Script("outer"), Script("last"), Script("none"), Comment, Exit,
   Command("mach", <<JUNK>>), Command("mach", <<77>>), Command("dtb", "bad"),
   Command("phys", <<8>>), Command("phys", <<8, 0>>), Command("phys", <<7, 6>>),
   Command("probemem", << >>), Command("cmdline", <<"d">>),
   Command("cmdline", <<"e", "f", "g", "h", "i">>), Command("unknown", << >>)}

(* Sizes of mem_block on both sides of every limit of the guess, and the   *)
(* bits of the serial number at both ends of every field and between them. *)
Machine(hw, touchpad, mb, raw) ==
  [hwtype |-> hw, is_touchpad |-> touchpad, mem_block_size |-> mb, raw_serial |-> raw]
Sizes == {0, 12 * MCMB - 1, 12 * MCMB, 28 * MCMB, 44 * MCMB - 1, 44 * MCMB, 108 * MCMB - 1,
          108 * MCMB}
Bits == {2, 3, 4, 5, 7, 8, 9, 15, 16, 17, 31, 32, 33, 55, 56}
MCMachines ==
  {Machine(0, FALSE, 40, {}), Machine(0, TRUE, 40, {3, 60})}
    \cup {Machine(2, FALSE, n, {}) : n \in Sizes}
    \cup {Machine(1, FALSE, 99, {i}) : i \in Bits}
    \cup {Machine(1, FALSE, 99, 0 .. 63)}
=============================================================================
