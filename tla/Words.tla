------------------------------- MODULE Words -------------------------------
(***************************************************************************)
(* Machine words of the loader's target, an ARM926 with 32-bit size_t and  *)
(* pointers.  Every address and size of struct params (common.h) is such a *)
(* word, and every sum or difference the code computes wraps.              *)
(*                                                                         *)
(* WordSize stands for 2^32 and PageSize for PAGE_SIZE; both are           *)
(* parameters, so TLC can use a small address space.                       *)
(***************************************************************************)
EXTENDS Integers

CONSTANTS
  WordSize,   \* number of values of a size_t or of a pointer
  PageSize    \* PAGE_SIZE, common.h

ASSUME WordSizeAssumption == WordSize \in Nat \ {0}
ASSUME PageSizeAssumption == PageSize \in Nat \ {0} /\ PageSize < WordSize

Word == 0 .. WordSize - 1

(* The null pointer. *)
NULL == 0

(* A difference that does not wrap, as of signed integers. *)
SubW_Signed(a, b) == a - b

(* Unsigned addition and subtraction of two words. *)
AddW(a, b) == IF a + b < WordSize THEN a + b ELSE a + b - WordSize
SubW(a, b) == IF b <= a THEN a - b ELSE a - b + WordSize

(* ROUND_UP_PAGE_BOUND, for a that is not within a page of the top. *)
PageDown_Up(a) == ((a + PageSize - 1) \div PageSize) * PageSize

(* ROUND_PAGE_BOUND: clear the bits of the offset within a page. *)
PageDown(a) == a - (a % PageSize)

(***************************************************************************)
(* Blocks of memory, as the code keeps them: a start address and a size.   *)
(***************************************************************************)
Block == [start : Word, size : Word]
NoBlock == [start |-> NULL, size |-> 0]

(* A block the allocator can have returned: it does not reach past the top *)
(* of the address space, and a failed allocation has size 0.               *)
Allocatable(b) ==
  /\ b \in Block
  /\ b.start + b.size < WordSize
  /\ b.start = NULL => b.size = 0

Disjoint(b, c) ==
  \/ b.start + b.size <= c.start
  \/ c.start + c.size <= b.start

=============================================================================
