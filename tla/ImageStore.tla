----------------------------- MODULE ImageStore -----------------------------
(***************************************************************************)
(* What the commands that load images promise, with no addresses and no    *)
(* sizes of free space: the store holds the bytes read of a kernel, of an  *)
(* initrd and the boot parameters, and a command changes only the one it   *)
(* names.  Images implements it, with the three read out of memory at the  *)
(* addresses in settings.                                                  *)
(***************************************************************************)
EXTENDS Integers

CONSTANTS
  Files,   \* names of image files
  Sizes,   \* sizes of images and blocks
  Junk     \* contents no file has

VARIABLES
  kernelBytes,   \* the bytes of the kernel, a function on 0 .. n-1
  initrdBytes,   \* the bytes of the initrd
  paramBytes     \* the block for boot parameters or a DTB

storeVars == <<kernelBytes, initrdBytes, paramBytes>>

(* The first count bytes of file f. *)
Prefix(f, count) == [i \in 0 .. count - 1 |-> <<f, i>>]
Empty == [i \in 0 .. -1 |-> Junk]

Init == kernelBytes = Empty /\ initrdBytes = Empty /\ paramBytes = Empty

PutKernel ==
  /\ \E f \in Files, count \in Sizes : kernelBytes' = Prefix(f, count)
  /\ UNCHANGED <<initrdBytes, paramBytes>>

PutInitrd ==
  /\ \E f \in Files, count \in Sizes : initrdBytes' = Prefix(f, count)
  /\ UNCHANGED <<kernelBytes, paramBytes>>

DropInitrd ==
  /\ initrdBytes' = Empty
  /\ UNCHANGED <<kernelBytes, paramBytes>>

(* A DTB is read over the boot parameters; a short read leaves the rest.   *)
PutParams ==
  /\ \E f \in Files, count \in Sizes :
       paramBytes' = [i \in DOMAIN paramBytes |->
                        IF i < count THEN <<f, i>> ELSE paramBytes[i]]
  /\ UNCHANGED <<kernelBytes, initrdBytes>>

(* The loader starts or exits: no images, a new block for parameters. *)
Reset ==
  /\ kernelBytes' = Empty /\ initrdBytes' = Empty
  /\ \E n \in Sizes : DOMAIN paramBytes' = 0 .. n - 1

Next == PutKernel \/ PutInitrd \/ DropInitrd \/ PutParams \/ Reset

Spec == Init /\ [][Next]_storeVars

=============================================================================
