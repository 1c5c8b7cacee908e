------------------------------- MODULE MCFdt -------------------------------
(***************************************************************************)
(* Instances of Fdt for TLC: words of two bytes, two names of nodes of     *)
(* which one has a unit address, and two of properties of which one is the *)
(* end of the other.                                                       *)
(***************************************************************************)
EXTENDS Fdt, FdtBlobs

c == <<99>>
c_at == <<99, AT, 97>>
MCNames == {c, c_at}
MCPhandle == <<112>>
MCLinuxPhandle == <<108, 112>>
MCPropNames == {MCPhandle, MCLinuxPhandle}
MCValues == {<<0, 7>>, <<5>>}

(* In either order, and of either version. *)
Strings == MCLinuxPhandle \o <<NUL>>
Struct ==
  Begin(<< >>) \o PropOf(1, <<0, 7>>) \o Begin(c_at) \o NopN \o EndN \o EndN \o EndT
MCFiles ==
  {Blob(17, TRUE, Entry(0, 0), Struct, Strings, 0),
   Blob(16, TRUE, Entry(0, 0), Struct, Strings, 0),
   Blob(17, FALSE, Entry(0, 0), Struct, Strings, 0),
   Blob(16, FALSE, Entry(0, 0), Begin(<< >>) \o EndN \o EndT, << >>, 0)}

=============================================================================
