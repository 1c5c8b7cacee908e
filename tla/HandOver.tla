------------------------------ MODULE HandOver ------------------------------
(***************************************************************************)
(* What kernel_boot promises, on a memory without a cache and without a    *)
(* copy that takes time: the parameters are written to where they are      *)
(* built and moved to where the kernel looks for them in one step, no      *)
(* other byte of memory changes, and the kernel is entered on exactly that *)
(* memory.  Boot implements it.                                            *)
(***************************************************************************)
EXTENDS Words

(* A job: the memory the loader leaves (loaded), the parameters that may   *)
(* be built (params, functions on 0 .. n-1), where they are built (from),  *)
(* where room bytes from there go (to), how the kernel is called           *)
(* (machine_id), if the loader can boot (ready), and if it may be reset at *)
(* a breakpoint before the kernel (may_reset).                             *)
CONSTANT Jobs

VARIABLES
  job,      \* the one of Jobs that this boot does
  phase,    \* "prompt", "booting", "kernel" or "reset"
  memory,   \* what the kernel would see of memory
  regs      \* what the kernel is called with

handOverVars == <<job, phase, memory, regs>>

(* Memory m with parameters p at from, and then with room bytes moved. *)
Written(m, p) ==
  [a \in Word |-> IF a - job.from \in DOMAIN p THEN p[a - job.from] ELSE m[a]]

Moved(m) ==
  [a \in Word |-> IF job.to <= a /\ a < job.to + job.room
                  THEN m[AddW(job.from, a - job.to)] ELSE m[a]]

Init ==
  /\ job \in Jobs
  /\ phase = "prompt"
  /\ memory = job.loaded
  /\ regs = << >>

Boot ==
  /\ phase = "prompt" /\ job.ready
  /\ \E p \in job.params : memory' = Moved(Written(memory, p))
  /\ phase' = "booting"
  /\ UNCHANGED <<job, regs>>

(* The breakpoint before the kernel, if there is one, was answered so. *)
Reset ==
  /\ phase = "booting" /\ job.may_reset
  /\ phase' = "reset"
  /\ UNCHANGED <<job, memory, regs>>

Enter ==
  /\ phase = "booting"
  /\ regs' = <<0, job.machine_id, job.to>>
  /\ phase' = "kernel"
  /\ UNCHANGED <<job, memory>>

Next == Boot \/ Reset \/ Enter

Spec == Init /\ [][Next]_handOverVars

=============================================================================
