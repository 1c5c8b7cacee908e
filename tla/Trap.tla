-------------------------------- MODULE Trap --------------------------------
(***************************************************************************)
(* The exception handler: trap.c and traphandler.S, on an ARM with banked  *)
(* registers.                                                              *)
(*                                                                         *)
(* cpu has the registers the handler and trap_enter tell apart: r0, which  *)
(* a call changes, r4, which it keeps, the program counter, the flags and  *)
(* the mode of the cpsr, and the sp, lr and spsr of each mode.  The        *)
(* program is Code, which runs in svc mode and is interrupted by the OS,   *)
(* whose IrqCode runs in irq mode.  Any instruction of either, and any of  *)
(* trap_enter's, can raise an exception; those of the handler do not.      *)
(*                                                                         *)
(* own is history: the registers as the program and the interrupts would   *)
(* have them if an exception only skipped an instruction.                  *)
(***************************************************************************)
EXTENDS Integers

CONSTANTS
  Values,    \* contents of a register
  OsHandler  \* where the vectors point to without the loader

Modes == {"svc", "irq", "abt", "und"}
Kinds == {"undef", "prefetch", "data"}

(* Addresses of instructions. *)
Code == {200, 204, 208}
IrqCode == {300, 304}
trap_data_abt == 400
trap_abt == 404
switch == 408          \* msr cpsr, lr
resume == 412          \* behind bl trap_enter
trap_enter == 500      \* its printing, the key, and its return
wait_key == 504
trap_enter_end == 508
RESET == 900           \* the loop that writes to 0x900A0008
SAVED_REGS == 700      \* the address of saved_regs
Handler == {trap_data_abt, trap_abt, switch, resume, trap_enter, wait_key,
            trap_enter_end}
Text == Code \cup IrqCode \cup Handler \cup {OsHandler, RESET}

ASSUME TrapAssumption ==
  /\ Values \subseteq Nat /\ 0 \in Values
  /\ OsHandler \in Nat
       \ (Code \cup IrqCode \cup Handler \cup {RESET, SAVED_REGS})

VARIABLES
  cpu, saved_regs, saved_cpsr,
  vectors,          \* the three of vectaddr_begin that the loader sets
  vectaddr_orig,
  running,          \* between trap_install and trap_remove
  own, trapped      \* history: see above, and where exceptions were raised

memory == <<saved_regs, saved_cpsr>>
vecs == <<vectors, vectaddr_orig, running>>
vars == <<cpu, memory, vecs, own, trapped>>

Cpsr(c) == [flags |-> c.flags, mode |-> c.mode]
With(c, psr) == [c EXCEPT !.flags = psr.flags, !.mode = psr.mode]

Init ==
  /\ cpu = [pc |-> 200, r0 |-> 0, r4 |-> 0, flags |-> 0, mode |-> "svc",
            sp |-> [m \in Modes |-> CASE m = "svc" -> 1 [] m = "irq" -> 2
                                      [] m = "abt" -> 3 [] m = "und" -> 4],
            lr |-> [m \in Modes |-> 0],
            spsr |-> [m \in Modes |-> [flags |-> 0, mode |-> "svc"]]]
  /\ saved_regs = [r0 |-> 0, r4 |-> 0, sp |-> 0, lr |-> 0, pc |-> 0]
  /\ saved_cpsr = [flags |-> 0, mode |-> "svc"]
  /\ vectors = [k \in Kinds |-> OsHandler]
  /\ vectaddr_orig = [k \in Kinds |-> 0]
  /\ running = FALSE
  /\ own = cpu
  /\ trapped = {}

-----------------------------------------------------------------------------
(* trap_install. *)
Install ==
  /\ cpu.pc \in Code /\ ~running
  /\ vectaddr_orig' = vectors
  /\ vectors' = [k \in Kinds |-> IF k = "data" THEN trap_data_abt ELSE trap_abt]
  /\ running' = TRUE
  /\ UNCHANGED <<cpu, memory, own, trapped>>

(* trap_remove, and as if it left the vector of data aborts.               *)
Remove_TwoVectors ==
  /\ cpu.pc \in Code /\ running
  /\ vectors' = [vectaddr_orig EXCEPT !["data"] = vectors["data"]]
  /\ running' = FALSE
  /\ UNCHANGED <<cpu, memory, vectaddr_orig, own, trapped>>
Remove ==
  /\ cpu.pc \in Code /\ running
  /\ vectors' = vectaddr_orig
  /\ running' = FALSE
  /\ UNCHANGED <<cpu, memory, vectaddr_orig, own, trapped>>

-----------------------------------------------------------------------------
(* The processor: the next instruction of the program, an interrupt and    *)
(* its end, on the registers c.                                            *)
Following(pc) == IF pc = 208 THEN 200 ELSE pc + 4
Executed(c, r4, lr, flags) ==
  [c EXCEPT !.pc = Following(@), !.r4 = r4, !.lr[c.mode] = lr, !.flags = flags]
Interrupted(c) ==
  [c EXCEPT !.lr["irq"] = c.pc + 4, !.spsr["irq"] = Cpsr(c),
            !.mode = "irq", !.pc = 300]
IrqEnded(c) == With([c EXCEPT !.pc = c.lr["irq"] - 4], c.spsr["irq"])

Execute ==
  /\ cpu.pc \in Code
  /\ \E r4 \in Values, lr \in Values, flags \in {0, 1} :
       /\ cpu' = Executed(cpu, r4, lr, flags)
       /\ own' = Executed(own, r4, lr, flags)
  /\ UNCHANGED <<memory, vecs, trapped>>

Interrupt ==
  /\ cpu.pc \in Code
  /\ cpu' = Interrupted(cpu) /\ own' = Interrupted(own)
  /\ UNCHANGED <<memory, vecs, trapped>>

InterruptStep ==
  /\ cpu.pc \in IrqCode
  /\ LET Stepped(c) == IF c.pc = 304 THEN IrqEnded(c) ELSE [c EXCEPT !.pc = @ + 4]
     IN cpu' = Stepped(cpu) /\ own' = Stepped(own)
  /\ UNCHANGED <<memory, vecs, trapped>>

(* An exception of the instruction at pc.  lr is ahead of it by more after *)
(* a data abort.  The last of the program and of an interrupt, a branch    *)
(* back, raises none.                                                      *)
ModeOf(k) == IF k = "undef" THEN "und" ELSE "abt"
Ahead(k) == IF k = "data" THEN 8 ELSE 4

Raise(k) ==
  LET m == ModeOf(k) IN
  cpu' = [cpu EXCEPT !.lr[m] = cpu.pc + Ahead(k), !.spsr[m] = Cpsr(cpu),
                     !.mode = m, !.pc = vectors[k]]

Exception ==
  /\ cpu.pc \in (Code \cup IrqCode) \ {208, 304}
  /\ \E k \in Kinds : Raise(k)
  /\ own' = [own EXCEPT !.pc = @ + 4]
  /\ trapped' = trapped \cup {cpu.mode}
  /\ UNCHANGED <<memory, vecs>>

(* An exception of what trap_enter calls to print. *)
NestedException ==
  /\ cpu.pc = trap_enter
  /\ \E k \in Kinds : Raise(k)
  /\ trapped' = trapped \cup {"trap_enter"}
  /\ UNCHANGED <<memory, vecs, own>>

-----------------------------------------------------------------------------
(* traphandler.S.  The lr of abt or und mode becomes the address of the    *)
(* instruction; in Abort_NoAdjust only that of a data abort changes.       *)
DataAbort ==
  /\ cpu.pc = trap_data_abt
  /\ cpu' = [cpu EXCEPT !.lr[cpu.mode] = @ - 4, !.pc = trap_abt]
  /\ UNCHANGED <<memory, vecs, own, trapped>>

Save(at) ==
  /\ saved_regs' = [saved_regs EXCEPT !.pc = at, !.r0 = cpu.r0, !.r4 = cpu.r4]
  /\ saved_cpsr' = cpu.spsr[cpu.mode]
  /\ cpu' = [cpu EXCEPT !.lr[cpu.mode] = 0, !.pc = switch]
Abort_NoAdjust ==
  /\ cpu.pc = trap_abt
  /\ Save(cpu.lr[cpu.mode])
  /\ UNCHANGED <<vecs, own, trapped>>
Abort ==
  /\ cpu.pc = trap_abt
  /\ Save(cpu.lr[cpu.mode] - 4)
  /\ UNCHANGED <<vecs, own, trapped>>

(* sp and lr of the mode the exception came from; SaveBanked_Late reads    *)
(* them in svc mode.  Then trap_enter is called in svc mode.               *)
CallTrapEnter ==
  cpu' = [With(cpu, [flags |-> 0, mode |-> "svc"]) EXCEPT
            !.r0 = SAVED_REGS, !.lr["svc"] = resume, !.pc = trap_enter]
SaveBanked_Late ==
  /\ cpu.pc = switch
  /\ saved_regs' = [saved_regs EXCEPT !.sp = cpu.sp["svc"], !.lr = resume]
  /\ CallTrapEnter
  /\ UNCHANGED <<saved_cpsr, vecs, own, trapped>>
SaveBanked ==
  /\ cpu.pc = switch
  /\ LET m == saved_cpsr.mode IN
     saved_regs' = [saved_regs EXCEPT !.sp = cpu.sp[m], !.lr = cpu.lr[m]]
  /\ CallTrapEnter
  /\ UNCHANGED <<saved_cpsr, vecs, own, trapped>>

(* trap_enter prints and waits for a key.  It may leave anything in r0,    *)
(* the flags and, at its end, lr.                                          *)
PrintState ==
  /\ cpu.pc = trap_enter
  /\ cpu' = [cpu EXCEPT !.pc = wait_key]
  /\ UNCHANGED <<memory, vecs, own, trapped>>

Key ==
  /\ cpu.pc = wait_key
  /\ \/ /\ saved_regs' = [saved_regs EXCEPT !.pc = @ + 4]
        /\ cpu' = [cpu EXCEPT !.pc = trap_enter_end]
     \/ /\ cpu' = [cpu EXCEPT !.pc = RESET]
        /\ UNCHANGED saved_regs
  /\ UNCHANGED <<saved_cpsr, vecs, own, trapped>>

TrapEnterReturns ==
  /\ cpu.pc = trap_enter_end
  /\ cpu' = [cpu EXCEPT !.pc = cpu.lr["svc"], !.flags = 1, !.r0 = 1]
  /\ UNCHANGED <<memory, vecs, own, trapped>>

(* ldm r0, {r0-r15}^ in svc mode, and without r15 in the list. *)
Loaded ==
  With([cpu EXCEPT !.r0 = saved_regs.r0, !.r4 = saved_regs.r4,
                   !.sp["svc"] = saved_regs.sp, !.lr["svc"] = saved_regs.lr,
                   !.spsr["svc"] = saved_cpsr, !.pc = saved_regs.pc], saved_cpsr)
Resume_NoPc ==
  /\ cpu.pc = resume
  /\ cpu' = [Loaded EXCEPT !.pc = cpu.pc, !.mode = "svc"]
  /\ UNCHANGED <<memory, vecs, own, trapped>>
Resume ==
  /\ cpu.pc = resume
  /\ cpu' = Loaded
  /\ UNCHANGED <<memory, vecs, own, trapped>>

HandlerStep ==
  \/ DataAbort \/ Abort \/ SaveBanked \/ PrintState \/ Key \/ TrapEnterReturns
  \/ Resume

Next ==
  \/ Install \/ Remove
  \/ Execute \/ Interrupt \/ InterruptStep \/ Exception \/ NestedException
  \/ HandlerStep

(* The handler runs with interrupts off, and the user presses a key.       *)
Spec == Init /\ [][Next]_vars
FairSpec == Spec /\ WF_vars(HandlerStep)

-----------------------------------------------------------------------------
PsrType == [flags : {0, 1}, mode : {"svc", "irq"}]
Word == Values \cup Text \cup 0 .. 4 \cup {SAVED_REGS} \cup {a + 4 : a \in Text}
TypeOK ==
  /\ cpu.pc \in Text
  /\ cpu.r0 \in Word /\ cpu.r4 \in Word
  /\ cpu.flags \in {0, 1} /\ cpu.mode \in Modes
  /\ cpu.sp \in [Modes -> Word]
  /\ \A m \in {"svc", "irq"} : cpu.lr[m] \in Word
  /\ cpu.spsr \in [Modes -> PsrType]
  /\ saved_cpsr \in PsrType
  /\ vectors \in [Kinds -> {OsHandler, trap_abt, trap_data_abt}]
  /\ trapped \subseteq {"svc", "irq", "trap_enter"}

(* Code that goes on after an exception goes on behind the instruction     *)
(* that raised it, with the registers it had.  So does the code of an      *)
(* interrupt; but then ldm has put its sp and lr in those of svc mode, and *)
(* the program it interrupted has lost them.  After an exception in        *)
(* trap_enter, which overwrites what the first one saved, no code goes on: *)
(* handler and trap_enter then return to trap_enter itself.                *)
Transparent ==
  cpu.pc \in Code \cup IrqCode =>
    /\ cpu.pc = own.pc /\ Cpsr(cpu) = Cpsr(own)
    /\ cpu.r0 = own.r0 /\ cpu.r4 = own.r4
    /\ cpu.sp["irq"] = own.sp["irq"] /\ cpu.lr["irq"] = own.lr["irq"]
    /\ cpu.spsr["irq"] = own.spsr["irq"]
    /\ "irq" \notin trapped => /\ cpu.sp["svc"] = own.sp["svc"]
                               /\ cpu.lr["svc"] = own.lr["svc"]

(* The loader's handler is in the vectors just as long as the loader runs: *)
(* an exception before trap_install or after trap_remove goes to the OS,   *)
(* and none in between.                                                    *)
VectorsOwned ==
  /\ cpu.pc \in Handler => running
  /\ cpu.pc = OsHandler => ~running
  /\ ~running => \A k \in Kinds : vectors[k] = OsHandler

(* The handler ends, in the code or in a reset, unless trap_enter raises   *)
(* an exception itself.                                                    *)
HandlerEnds ==
  cpu.pc \in Handler
    ~> (cpu.pc \in Code \cup IrqCode \cup {RESET} \/ "trap_enter" \in trapped)

=============================================================================
