---------------------------- MODULE MCFdtUpdate ----------------------------
(***************************************************************************)
(* Instances of FdtUpdate for TLC: words of two bytes, and a buffer the    *)
(* longest command line and an initrd fill.                                *)
(***************************************************************************)
EXTENDS FdtUpdate, FdtBlobs

MCChosen == <<99>>
MCBootargs == <<97>>
MCStart == <<115>>
MCEnd == <<101>>
MCPhandle == <<112>>
MCLinuxPhandle == <<108, 112>>

MCCmdlines == {<< >>, <<120>>, <<120, 121, 122>>}
(* The end of the second one is beyond a word. *)
MCInitrds == {[addr |-> 513, size |-> 256], [addr |-> 65535, size |-> 2]}

NoRsv == Entry(0, 0)
Root(s) == Begin(<< >>) \o s \o EndN \o EndT
Defaults ==
  Blob(17, TRUE, NoRsv,
       Root(Begin(MCChosen) \o NopN \o PropOf(0, <<100, NUL>>) \o EndN),
       <<97, NUL>>, 0)
Unordered ==
  Blob(16, FALSE, Entry(9, 1) \o NoRsv,
       Root(Begin(<<98>>) \o Begin(MCChosen) \o EndN \o EndN
              \o Begin(<<99, AT, 48>>) \o PropOf(0, <<0, 7>>) \o EndN),
       <<115, NUL>>, 4)
Twice ==
  Blob(17, TRUE, NoRsv,
       Root(Begin(<<99, 99>>) \o EndN \o Begin(MCChosen) \o EndN
              \o Begin(MCChosen) \o EndN), << >>, 6)
(* A longer command line fits only when the initrd's cell has replaced the *)
(* value that is there.                                                    *)
Long ==
  Blob(17, TRUE, NoRsv,
       Root(Begin(MCChosen) \o PropOf(0, [i \in 1 .. 22 |-> i]) \o EndN),
       <<115, NUL, 97, NUL, 101, NUL>>, 0)
(* libfdt looks for the root at the start of the block. *)
Late == Blob(17, TRUE, NoRsv, NopN \o Root(Begin(MCChosen) \o EndN), << >>, 0)
Without == Blob(17, TRUE, NoRsv, Root(Begin(<<99, 99>>) \o EndN), << >>, 0)
NotADtb == [Defaults EXCEPT !.magic = 0]

MCFiles == {Defaults, Unordered, Twice, Long, Late, Without, NotADtb}
=============================================================================
