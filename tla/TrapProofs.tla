----------------------------- MODULE TrapProofs -----------------------------
(***************************************************************************)
(* Proofs about Trap, for every contents of the registers and wherever the *)
(* OS has its handlers.                                                    *)
(*                                                                         *)
(* The invariant says for each place in the handler where the registers of *)
(* the code that goes on are.  After an exception in trap_enter there is   *)
(* no such code, and it says why the handler never leaves trap_enter.      *)
(***************************************************************************)
EXTENDS Trap, TLAPS

CpuType ==
  [pc : Int, r0 : Int, r4 : Int, flags : {0, 1}, mode : Modes,
   sp : [Modes -> Int], lr : [Modes -> Int], spsr : [Modes -> PsrType]]
SavedType == [r0 : Int, r4 : Int, sp : Int, lr : Int, pc : Int]

Types ==
  /\ cpu \in CpuType /\ own \in CpuType
  /\ saved_regs \in SavedType /\ saved_cpsr \in PsrType
  /\ running \in BOOLEAN

(* The vectors, and what the loader has put away. *)
Loaders == [k \in Kinds |-> IF k = "data" THEN trap_data_abt ELSE trap_abt]
Oss == [k \in Kinds |-> OsHandler]
VectorsInv ==
  /\ cpu.pc \in Code \cup IrqCode \cup Handler \cup {OsHandler, RESET}
  /\ cpu.pc \in Handler => running
  /\ cpu.pc = OsHandler => ~running
  /\ IF running THEN vectors = Loaders /\ vectaddr_orig = Oss ELSE vectors = Oss

(* The code that would be running without exceptions. *)
OwnInv ==
  \/ own.mode = "svc" /\ own.pc \in Code
  \/ /\ own.mode = "irq" /\ own.pc \in IrqCode
     /\ own.lr["irq"] - 4 \in Code /\ own.spsr["irq"].mode = "svc"

IrqKept ==
  /\ cpu.sp["irq"] = own.sp["irq"] /\ cpu.lr["irq"] = own.lr["irq"]
  /\ cpu.spsr["irq"] = own.spsr["irq"]
SvcKept ==
  "irq" \notin trapped => /\ cpu.sp["svc"] = own.sp["svc"]
                          /\ cpu.lr["svc"] = own.lr["svc"]

(* Where the registers are at each place, unless trap_enter has raised an  *)
(* exception.                                                              *)
InCode ==
  /\ cpu.pc = own.pc /\ Cpsr(cpu) = Cpsr(own)
  /\ cpu.r0 = own.r0 /\ cpu.r4 = own.r4
  /\ IrqKept /\ SvcKept

Entered(ahead) ==
  /\ cpu.mode \in {"abt", "und"}
  /\ cpu.lr[cpu.mode] = own.pc + ahead
  /\ cpu.spsr[cpu.mode] = Cpsr(own)
  /\ cpu.r0 = own.r0 /\ cpu.r4 = own.r4
  /\ IrqKept /\ SvcKept
  /\ own.mode = "irq" => "irq" \in trapped

SavedAt(pc) ==
  /\ saved_regs.pc = pc
  /\ saved_regs.r0 = own.r0 /\ saved_regs.r4 = own.r4
  /\ saved_cpsr = Cpsr(own)
  /\ IrqKept
  /\ own.mode = "irq" => "irq" \in trapped

SavedBanked ==
  /\ cpu.lr["svc"] = resume
  /\ "irq" \notin trapped => /\ saved_regs.sp = own.sp["svc"]
                             /\ saved_regs.lr = own.lr["svc"]

Kept ==
  /\ cpu.pc \in Code \cup IrqCode => InCode
  /\ cpu.pc = trap_data_abt => Entered(4)
  /\ cpu.pc = trap_abt => Entered(0)
  /\ cpu.pc = switch => SavedAt(own.pc - 4) /\ SvcKept
  /\ cpu.pc \in {trap_enter, wait_key} => SavedAt(own.pc - 4) /\ SavedBanked
  /\ cpu.pc = trap_enter => cpu.mode = "svc"
  /\ cpu.pc \in {trap_enter_end, resume} => SavedAt(own.pc) /\ SavedBanked

(* After an exception in trap_enter. *)
Nested(ahead) ==
  /\ cpu.mode \in {"abt", "und"}
  /\ cpu.lr[cpu.mode] = trap_enter + ahead
  /\ cpu.spsr[cpu.mode].mode = "svc"

NestedSaved(pcs) ==
  saved_regs.pc \in pcs /\ saved_cpsr.mode = "svc" /\ saved_regs.lr = resume

Lost ==
  /\ cpu.pc \in Handler \cup {RESET}
  /\ cpu.lr["svc"] = resume
  /\ cpu.pc = trap_data_abt => Nested(8)
  /\ cpu.pc = trap_abt => Nested(4)
  /\ cpu.pc = switch => saved_regs.pc = trap_enter /\ saved_cpsr.mode = "svc"
  /\ cpu.pc = trap_enter => NestedSaved({trap_enter}) /\ cpu.mode = "svc"
  /\ cpu.pc = wait_key => NestedSaved({trap_enter, wait_key})
  /\ cpu.pc \in {trap_enter_end, resume} => NestedSaved({wait_key, trap_enter_end})

IInv ==
  /\ Types /\ VectorsInv /\ OwnInv
  /\ IF "trap_enter" \in trapped THEN Lost ELSE Kept

-----------------------------------------------------------------------------
(* A change of the lr of a mode and the program counter.                   *)
LrPc(c, m, l, v) == [c EXCEPT !.lr[m] = l, !.pc = v]

LEMMA LrPcRecord ==
  ASSUME NEW c \in CpuType, NEW m \in Modes, NEW l \in Int, NEW v \in Int
  PROVE /\ LrPc(c, m, l, v) \in CpuType
        /\ LrPc(c, m, l, v).pc = v /\ LrPc(c, m, l, v).lr[m] = l
        /\ LrPc(c, m, l, v).mode = c.mode
        /\ LrPc(c, m, l, v).r0 = c.r0 /\ LrPc(c, m, l, v).r4 = c.r4
        /\ LrPc(c, m, l, v).sp = c.sp /\ LrPc(c, m, l, v).spsr = c.spsr
        /\ \A n \in Modes \ {m} : LrPc(c, m, l, v).lr[n] = c.lr[n]
  <1>1. LrPc(c, m, l, v) \in CpuType
    BY DEF CpuType, LrPc
  <1> QED
    BY <1>1 DEF CpuType, LrPc

(* A change of the place saved and the registers every mode shares. *)
SavePlace(s, l, a, b) == [s EXCEPT !.pc = l, !.r0 = a, !.r4 = b]

LEMMA SavedRecord ==
  ASSUME NEW s \in SavedType, NEW l \in Int, NEW a \in Int, NEW b \in Int
  PROVE /\ SavePlace(s, l, a, b) \in SavedType
        /\ SavePlace(s, l, a, b).pc = l
        /\ SavePlace(s, l, a, b).r0 = a /\ SavePlace(s, l, a, b).r4 = b
  BY DEF SavedType, SavePlace

-----------------------------------------------------------------------------
USE DEF Code, IrqCode, Handler, trap_data_abt, trap_abt, switch, resume,
        trap_enter, wait_key, trap_enter_end, RESET, SAVED_REGS

LEMMA InitInv == Init => IInv
  <1> SUFFICES ASSUME Init PROVE IInv
    OBVIOUS
  <1>1. Types
    <2>1. [m \in Modes |-> 0] \in [Modes -> Int]
      OBVIOUS
    <2>2. cpu.sp \in [Modes -> Int] /\ cpu.lr \in [Modes -> Int]
      BY <2>1 DEF Init, Modes
    <2>3. [flags |-> 0, mode |-> "svc"] \in PsrType
      BY DEF PsrType
    <2>4. cpu.spsr \in [Modes -> PsrType]
      BY <2>3 DEF Init
    <2>5. cpu \in CpuType
      BY <2>2, <2>4 DEF Init, CpuType, Modes
    <2>6. saved_regs \in SavedType
      BY DEF Init, SavedType
    <2> QED
      BY <2>3, <2>5, <2>6 DEF Init, Types
  <1>2. VectorsInv
    BY DEF Init, VectorsInv, Oss
  <1>3. OwnInv
    BY DEF Init, OwnInv
  <1>4. Kept
    BY DEF Init, Kept, InCode, IrqKept, SvcKept, Cpsr
  <1>5. "trap_enter" \notin trapped
    BY DEF Init
  <1> QED
    BY <1>1, <1>2, <1>3, <1>4, <1>5 DEF IInv

LEMMA ExecuteInv == ASSUME IInv, Execute PROVE IInv'
  <1>1. PICK r4 \in Values, lr \in Values, flags \in {0, 1} :
           cpu' = Executed(cpu, r4, lr, flags) /\ own' = Executed(own, r4, lr, flags)
    BY DEF Execute
  <1>2. /\ Types /\ VectorsInv /\ OwnInv
        /\ cpu.pc \in Code /\ "trap_enter" \notin trapped /\ InCode
        /\ UNCHANGED <<memory, vecs, trapped>>
    BY DEF IInv, Execute, Kept, Lost
  <1>3. r4 \in Int /\ lr \in Int
    BY TrapAssumption
  <1>4. cpu.mode = "svc" /\ own.mode = "svc" /\ own.pc = cpu.pc
    BY <1>2 DEF InCode, OwnInv, Cpsr
  <1>5. Types'
    <2>1. ASSUME NEW c \in CpuType, c.pc \in Code PROVE Executed(c, r4, lr, flags) \in CpuType
      <3>1. Following(c.pc) \in Int
        BY <2>1 DEF Following
      <3> QED
        BY <1>3, <3>1 DEF CpuType, Executed
    <2>2. cpu' \in CpuType /\ own' \in CpuType
      BY <1>1, <1>2, <1>4, <2>1 DEF Types
    <2> QED
      BY <1>2, <2>2 DEF Types, memory, vecs
  <1>6. cpu'.pc = Following(cpu.pc) /\ own'.pc = cpu'.pc /\ cpu'.pc \in Code
    BY <1>1, <1>2, <1>4 DEF Types, CpuType, Executed, Following
  <1>7. VectorsInv'
    BY <1>2, <1>6, TrapAssumption DEF VectorsInv, vecs, Loaders, Oss
  <1>8. OwnInv'
    BY <1>1, <1>2, <1>4, <1>6 DEF OwnInv, Types, CpuType, Executed, Modes
  <1>9. InCode'
    BY <1>1, <1>2, <1>4, <1>6 DEF InCode, IrqKept, SvcKept, Cpsr, Types, CpuType, Executed, Modes
  <1> QED
    BY <1>2, <1>5, <1>6, <1>7, <1>8, <1>9 DEF IInv, Kept

(* The vectors are exchanged in the program, where nothing else depends on *)
(* them.                                                                   *)
LEMMA InstallRemoveInv == ASSUME IInv, Install \/ Remove PROVE IInv'
  <1>1. /\ Types /\ VectorsInv /\ OwnInv
        /\ cpu.pc \in Code /\ "trap_enter" \notin trapped /\ InCode
        /\ UNCHANGED <<cpu, memory, own, trapped>>
    BY DEF IInv, Install, Remove, Kept, Lost
  <1>2. cpu.pc = own.pc /\ running' \in BOOLEAN
    BY <1>1 DEF InCode, Install, Remove
  <1>3. Types'
    BY <1>1, <1>2 DEF Types, memory
  <1>4. VectorsInv'
    <2>1. CASE Install
      BY <1>1, <2>1, TrapAssumption DEF Install, VectorsInv, Loaders, Oss
    <2>2. CASE Remove
      BY <1>1, <2>2, TrapAssumption DEF Remove, VectorsInv, Oss
    <2> QED
      BY <2>1, <2>2
  <1>5. OwnInv'
    BY <1>1 DEF OwnInv
  <1>6. Kept'
    BY <1>1 DEF Kept, InCode, IrqKept, SvcKept, Cpsr
  <1> QED
    BY <1>1, <1>3, <1>4, <1>5, <1>6 DEF IInv

LEMMA InterruptInv == ASSUME IInv, Interrupt PROVE IInv'
  <1>1. /\ Types /\ VectorsInv /\ OwnInv
        /\ cpu.pc \in Code /\ "trap_enter" \notin trapped /\ InCode
        /\ UNCHANGED <<memory, vecs, trapped>>
        /\ cpu' = Interrupted(cpu) /\ own' = Interrupted(own)
    BY DEF IInv, Interrupt, Kept, Lost
  <1>2. cpu.mode = "svc" /\ own.mode = "svc" /\ own.pc = cpu.pc
    BY <1>1 DEF InCode, OwnInv, Cpsr
  <1>3. Types'
    <2>1. ASSUME NEW c \in CpuType, c.mode = "svc" PROVE Interrupted(c) \in CpuType
      <3>1. Cpsr(c) \in PsrType
        BY <2>1 DEF CpuType, Cpsr, PsrType
      <3>2. c.pc + 4 \in Int /\ 300 \in Int
        BY DEF CpuType
      <3>3. "irq" \in Modes
        BY DEF Modes
      <3> QED
        BY <3>1, <3>2, <3>3 DEF CpuType, Interrupted
    <2>2. cpu' \in CpuType /\ own' \in CpuType
      BY <1>1, <1>2, <2>1 DEF Types
    <2> QED
      BY <1>1, <2>2 DEF Types, memory, vecs
  <1>4. cpu'.pc = 300 /\ own'.pc = 300
    BY <1>1 DEF Types, CpuType, Interrupted
  <1>5. VectorsInv'
    BY <1>1, <1>4, TrapAssumption DEF VectorsInv, vecs, Loaders, Oss
  <1>6. OwnInv'
    <2>1. /\ own'.mode = "irq" /\ own'.lr["irq"] = own.pc + 4
          /\ own'.spsr["irq"] = Cpsr(own)
      BY <1>1 DEF Types, CpuType, Interrupted, Modes
    <2> QED
      BY <1>1, <1>2, <1>4, <2>1 DEF OwnInv, Cpsr
  <1>7. InCode'
    BY <1>1, <1>2, <1>4 DEF InCode, IrqKept, SvcKept, Cpsr, Types, CpuType, Interrupted,
       Modes
  <1> QED
    BY <1>1, <1>3, <1>4, <1>5, <1>6, <1>7 DEF IInv, Kept

LEMMA InterruptStepInv == ASSUME IInv, InterruptStep PROVE IInv'
  <1>1. /\ Types /\ VectorsInv /\ OwnInv
        /\ cpu.pc \in IrqCode /\ "trap_enter" \notin trapped /\ InCode
        /\ UNCHANGED <<memory, vecs, trapped>>
    BY DEF IInv, InterruptStep, Kept, Lost
  <1>2. /\ cpu.mode = "irq" /\ own.mode = "irq" /\ own.pc = cpu.pc
        /\ own.lr["irq"] - 4 \in Code /\ own.spsr["irq"].mode = "svc"
        /\ cpu.lr["irq"] = own.lr["irq"] /\ cpu.spsr["irq"] = own.spsr["irq"]
    BY <1>1 DEF InCode, OwnInv, Cpsr, IrqKept
  <1>3. CASE cpu.pc = 304
    <2>1. cpu' = IrqEnded(cpu) /\ own' = IrqEnded(own)
      BY <1>2, <1>3 DEF InterruptStep
    <2>2. ASSUME NEW c \in CpuType
          PROVE /\ IrqEnded(c) \in CpuType
                /\ IrqEnded(c).pc = c.lr["irq"] - 4
                /\ Cpsr(IrqEnded(c)) = c.spsr["irq"]
                /\ IrqEnded(c).mode = c.spsr["irq"].mode
                /\ IrqEnded(c).r0 = c.r0 /\ IrqEnded(c).r4 = c.r4
                /\ IrqEnded(c).sp = c.sp /\ IrqEnded(c).lr = c.lr
                /\ IrqEnded(c).spsr = c.spsr
      <3>1. "irq" \in Modes /\ c.lr["irq"] - 4 \in Int /\ c.spsr["irq"] \in PsrType
        BY DEF CpuType, Modes
      <3>2. c.spsr["irq"].flags \in {0, 1} /\ c.spsr["irq"].mode \in Modes
        BY <3>1 DEF PsrType, Modes
      <3>3. IrqEnded(c) \in CpuType
        BY <3>1, <3>2 DEF CpuType, IrqEnded, With
      <3>4. Cpsr(IrqEnded(c)) = c.spsr["irq"]
        BY <3>1 DEF CpuType, IrqEnded, With, Cpsr, PsrType
      <3> QED
        BY <3>3, <3>4 DEF CpuType, IrqEnded, With
    <2>3. Types'
      BY <1>1, <2>1, <2>2 DEF Types, memory, vecs
    <2>4. cpu'.pc = own'.pc /\ cpu'.pc \in Code /\ own'.mode = "svc"
      BY <1>1, <1>2, <2>1, <2>2 DEF Types
    <2>5. VectorsInv'
      BY <1>1, <2>4, TrapAssumption DEF VectorsInv, vecs, Loaders, Oss
    <2>6. OwnInv'
      BY <2>4 DEF OwnInv
    <2>7. InCode'
      BY <1>1, <1>2, <2>1, <2>2, <2>4 DEF InCode, IrqKept, SvcKept, Types
    <2> QED
      BY <1>1, <2>3, <2>4, <2>5, <2>6, <2>7 DEF IInv, Kept
  <1>4. CASE cpu.pc # 304
    <2>1. cpu.pc = 300 /\ cpu' = [cpu EXCEPT !.pc = 304] /\ own' = [own EXCEPT !.pc = 304]
      BY <1>1, <1>2, <1>4 DEF InterruptStep
    <2>2. Types'
      BY <1>1, <2>1 DEF Types, CpuType, memory, vecs
    <2>3. cpu'.pc = 304 /\ own'.pc = 304
      BY <1>1, <2>1 DEF Types, CpuType
    <2>4. VectorsInv'
      BY <1>1, <2>3, TrapAssumption DEF VectorsInv, vecs, Loaders, Oss
    <2>5. OwnInv'
      BY <1>2, <2>1, <1>1 DEF OwnInv, Types, CpuType
    <2>6. InCode'
      BY <1>1, <2>1 DEF InCode, IrqKept, SvcKept, Cpsr, Types, CpuType
    <2> QED
      BY <1>1, <2>2, <2>3, <2>4, <2>5, <2>6 DEF IInv, Kept
  <1> QED
    BY <1>3, <1>4

LEMMA RaiseRecord ==
  ASSUME Types, NEW k \in Kinds, Raise(k),
         cpu.mode \in {"svc", "irq"}, vectors[k] \in Int
  PROVE /\ cpu' \in CpuType
        /\ cpu'.mode = ModeOf(k) /\ cpu'.pc = vectors[k]
        /\ cpu'.lr[ModeOf(k)] = cpu.pc + Ahead(k)
        /\ cpu'.spsr[ModeOf(k)] = Cpsr(cpu)
        /\ cpu'.r0 = cpu.r0 /\ cpu'.r4 = cpu.r4 /\ cpu'.sp = cpu.sp
        /\ \A n \in Modes \ {ModeOf(k)} :
             cpu'.lr[n] = cpu.lr[n] /\ cpu'.spsr[n] = cpu.spsr[n]
  <1> DEFINE m == ModeOf(k)
             l == cpu.pc + Ahead(k)
             v == vectors[k]
             p == Cpsr(cpu)
  <1>1. m \in Modes
    BY DEF ModeOf, Modes
  <1>2. l \in Int
    BY DEF Ahead, Types, CpuType
  <1>3. p \in PsrType
    BY DEF Types, CpuType, Cpsr, PsrType
  <1>4. v \in Int /\ cpu \in CpuType
    BY DEF Types
  <1>5. cpu' = [cpu EXCEPT !.lr[m] = l, !.spsr[m] = p, !.mode = m, !.pc = v]
    BY DEF Raise
  <1> HIDE DEF m, l, v, p
  <1>6. /\ cpu' \in CpuType
        /\ cpu'.mode = m /\ cpu'.pc = v /\ cpu'.lr[m] = l /\ cpu'.spsr[m] = p
        /\ cpu'.r0 = cpu.r0 /\ cpu'.r4 = cpu.r4 /\ cpu'.sp = cpu.sp
        /\ \A n \in Modes \ {m} : cpu'.lr[n] = cpu.lr[n] /\ cpu'.spsr[n] = cpu.spsr[n]
    BY <1>1, <1>2, <1>3, <1>4, <1>5 DEF CpuType
  <1> QED
    BY <1>6 DEF m, l, v, p

(* An exception saves the place and the mode of what it interrupts in the  *)
(* registers of the mode it is handled in.                                 *)
LEMMA RaiseFields ==
  ASSUME Types, NEW k \in Kinds, Raise(k), cpu.mode \in {"svc", "irq"},
         VectorsInv, running
  PROVE /\ cpu' \in CpuType
        /\ cpu'.mode \in {"abt", "und"}
        /\ cpu'.lr[cpu'.mode] = cpu.pc + Ahead(k)
        /\ cpu'.spsr[cpu'.mode] = Cpsr(cpu)
        /\ cpu'.pc = (IF k = "data" THEN trap_data_abt ELSE trap_abt)
        /\ cpu'.r0 = cpu.r0 /\ cpu'.r4 = cpu.r4 /\ cpu'.sp = cpu.sp
        /\ \A m \in {"svc", "irq"} :
             cpu'.lr[m] = cpu.lr[m] /\ cpu'.spsr[m] = cpu.spsr[m]
  <1>1. ModeOf(k) \in {"abt", "und"} /\ Ahead(k) \in Int
    BY DEF ModeOf, Ahead
  <1>2. ModeOf(k) \in Modes /\ {"svc", "irq"} \subseteq Modes \ {ModeOf(k)}
    BY <1>1 DEF Modes
  <1>3. vectors[k] = (IF k = "data" THEN trap_data_abt ELSE trap_abt)
    BY DEF VectorsInv, Loaders
  <1>4. vectors[k] \in Int
    BY <1>3
  <1> QED
    BY <1>1, <1>2, <1>3, <1>4, RaiseRecord

LEMMA ExceptionInv == ASSUME IInv, Exception PROVE IInv'
  <1>1. /\ Types /\ VectorsInv /\ OwnInv
        /\ cpu.pc \in (Code \cup IrqCode) \ {208, 304}
        /\ "trap_enter" \notin trapped /\ InCode
        /\ own' = [own EXCEPT !.pc = @ + 4] /\ trapped' = trapped \cup {cpu.mode}
        /\ UNCHANGED <<memory, vecs>>
    BY DEF IInv, Exception, Kept, Lost
  <1>2. PICK k \in Kinds : Raise(k)
    BY DEF Exception
  <1>3. /\ cpu.mode = own.mode /\ own.pc = cpu.pc /\ cpu.mode \in {"svc", "irq"}
        /\ Cpsr(cpu) = Cpsr(own)
    BY <1>1 DEF InCode, OwnInv, Cpsr
  <1>4. /\ own' \in CpuType /\ own'.pc = own.pc + 4 /\ Cpsr(own') = Cpsr(own)
        /\ own'.mode = own.mode /\ own'.r0 = own.r0 /\ own'.r4 = own.r4
        /\ own'.sp = own.sp /\ own'.lr = own.lr /\ own'.spsr = own.spsr
    BY <1>1 DEF Types, CpuType, Cpsr
  <1>5. OwnInv'
    BY <1>1, <1>3, <1>4 DEF OwnInv
  <1>6. "trap_enter" \notin trapped'
    BY <1>1, <1>3
  <1>7. CASE running
    <2>1. /\ cpu' \in CpuType
          /\ cpu'.mode \in {"abt", "und"}
          /\ cpu'.lr[cpu'.mode] = cpu.pc + Ahead(k)
          /\ cpu'.spsr[cpu'.mode] = Cpsr(cpu)
          /\ cpu'.pc = (IF k = "data" THEN trap_data_abt ELSE trap_abt)
          /\ cpu'.r0 = cpu.r0 /\ cpu'.r4 = cpu.r4 /\ cpu'.sp = cpu.sp
          /\ \A m \in {"svc", "irq"} :
               cpu'.lr[m] = cpu.lr[m] /\ cpu'.spsr[m] = cpu.spsr[m]
      BY <1>1, <1>2, <1>3, <1>7, RaiseFields
    <2>2. Types'
      BY <1>1, <1>4, <2>1 DEF Types, memory, vecs
    <2>3. VectorsInv'
      BY <1>1, <1>7, <2>1, TrapAssumption DEF VectorsInv, vecs, Loaders, Oss
    <2>4. cpu.pc \in Int /\ own.pc \in Int
      BY <1>1 DEF Types, CpuType
    <2>5. cpu'.lr[cpu'.mode] = own'.pc + (IF k = "data" THEN 4 ELSE 0)
      BY <1>3, <1>4, <2>1, <2>4 DEF Ahead
    <2>6. IrqKept'
      BY <1>1, <1>4, <2>1 DEF InCode, IrqKept
    <2>7. SvcKept'
      BY <1>1, <1>4, <2>1 DEF InCode, SvcKept
    <2>8. /\ cpu'.spsr[cpu'.mode] = Cpsr(own')
          /\ cpu'.r0 = own'.r0 /\ cpu'.r4 = own'.r4
          /\ own'.mode = "irq" => "irq" \in trapped'
      BY <1>1, <1>3, <1>4, <2>1 DEF InCode
    <2>9. CASE k = "data"
      <3>1. Entered(4)' /\ cpu'.pc = trap_data_abt
        BY <2>1, <2>5, <2>6, <2>7, <2>8, <2>9 DEF Entered
      <3> QED
        BY <1>5, <1>6, <2>2, <2>3, <3>1 DEF IInv, Kept
    <2>10. CASE k # "data"
      <3>1. Entered(0)' /\ cpu'.pc = trap_abt
        BY <2>1, <2>5, <2>6, <2>7, <2>8, <2>10 DEF Entered
      <3> QED
        BY <1>5, <1>6, <2>2, <2>3, <3>1 DEF IInv, Kept
    <2> QED
      BY <2>9, <2>10
  <1>8. CASE ~running
    <2>1. cpu' \in CpuType /\ cpu'.pc = OsHandler
      <3>1. vectors[k] = OsHandler /\ OsHandler \in Int
        BY <1>1, <1>8, TrapAssumption DEF VectorsInv, Oss
      <3> QED
        BY <1>1, <1>2, <1>3, <3>1, RaiseRecord
    <2>2. Types'
      BY <1>1, <1>4, <2>1 DEF Types, memory, vecs
    <2>3. VectorsInv'
      BY <1>1, <1>8, <2>1, TrapAssumption DEF VectorsInv, vecs, Loaders, Oss
    <2> QED
      BY <1>5, <1>6, <2>1, <2>2, <2>3, TrapAssumption DEF IInv, Kept
  <1> QED
    BY <1>7, <1>8

LEMMA NestedExceptionInv == ASSUME IInv, NestedException PROVE IInv'
  <1>1. /\ Types /\ VectorsInv /\ OwnInv
        /\ cpu.pc = trap_enter /\ running /\ cpu.mode = "svc" /\ cpu.lr["svc"] = resume
        /\ trapped' = trapped \cup {"trap_enter"}
        /\ UNCHANGED <<memory, vecs, own>>
    BY DEF IInv, NestedException, Kept, Lost, VectorsInv, SavedBanked
  <1>2. PICK k \in Kinds : Raise(k)
    BY DEF NestedException
  <1>3. /\ cpu' \in CpuType
        /\ cpu'.mode \in {"abt", "und"}
        /\ cpu'.lr[cpu'.mode] = cpu.pc + Ahead(k)
        /\ cpu'.spsr[cpu'.mode] = Cpsr(cpu)
        /\ cpu'.pc = (IF k = "data" THEN trap_data_abt ELSE trap_abt)
        /\ cpu'.lr["svc"] = cpu.lr["svc"]
    BY <1>1, <1>2, RaiseFields
  <1>4. Types'
    BY <1>1, <1>3 DEF Types, memory, vecs
  <1>5. VectorsInv'
    BY <1>1, <1>3, TrapAssumption DEF VectorsInv, vecs, Loaders, Oss
  <1>6. OwnInv'
    BY <1>1 DEF OwnInv
  <1>7. Lost'
    BY <1>1, <1>3 DEF Lost, Nested, Cpsr, Ahead
  <1> QED
    BY <1>1, <1>4, <1>5, <1>6, <1>7 DEF IInv

-----------------------------------------------------------------------------
(* The handler runs with the vectors as they are, and the code it will     *)
(* return to as it was.                                                    *)
LEMMA HandlerFrame ==
  ASSUME VectorsInv, OwnInv, cpu.pc \in Handler, UNCHANGED <<vecs, own, trapped>>,
         cpu'.pc \in Code \cup IrqCode \cup Handler \cup {RESET}
  PROVE VectorsInv' /\ OwnInv'
  BY TrapAssumption DEF VectorsInv, OwnInv, vecs, Loaders, Oss

LEMMA DataAbortInv == ASSUME IInv, DataAbort PROVE IInv'
  <1>1. /\ Types /\ VectorsInv /\ OwnInv /\ cpu.pc = trap_data_abt
        /\ cpu' = [cpu EXCEPT !.lr[cpu.mode] = @ - 4, !.pc = trap_abt]
        /\ UNCHANGED <<memory, vecs, own, trapped>>
    BY DEF IInv, DataAbort
  <1>2. cpu.mode \in {"abt", "und"} /\ cpu.mode \in Modes
    BY <1>1 DEF IInv, Lost, Kept, Nested, Entered, Modes
  <1>3. cpu.lr[cpu.mode] \in Int
    BY <1>1, <1>2 DEF Types, CpuType
  <1>4. /\ cpu' \in CpuType
        /\ cpu'.pc = trap_abt /\ cpu'.mode = cpu.mode
        /\ cpu'.lr[cpu.mode] = cpu.lr[cpu.mode] - 4
        /\ cpu'.r0 = cpu.r0 /\ cpu'.r4 = cpu.r4 /\ cpu'.sp = cpu.sp
        /\ cpu'.spsr = cpu.spsr
        /\ \A n \in Modes \ {cpu.mode} : cpu'.lr[n] = cpu.lr[n]
    <2>1. cpu.lr[cpu.mode] - 4 \in Int /\ trap_abt \in Int /\ cpu \in CpuType
      BY <1>1, <1>3 DEF Types
    <2>2. cpu' = LrPc(cpu, cpu.mode, cpu.lr[cpu.mode] - 4, trap_abt)
      BY <1>1 DEF LrPc
    <2> QED
      BY <1>2, <2>1, <2>2, LrPcRecord
  <1>5. cpu'.lr["svc"] = cpu.lr["svc"] /\ cpu'.lr["irq"] = cpu.lr["irq"]
    BY <1>2, <1>4 DEF Modes
  <1>6. Types'
    BY <1>1, <1>4 DEF Types, memory, vecs
  <1>7. VectorsInv' /\ OwnInv'
    BY <1>1, <1>4, HandlerFrame
  <1>8. CASE "trap_enter" \in trapped
    <2>1. Lost'
      BY <1>1, <1>2, <1>3, <1>4, <1>5, <1>8 DEF IInv, Lost, Nested
    <2> QED
      BY <1>1, <1>6, <1>7, <1>8, <2>1 DEF IInv
  <1>9. CASE "trap_enter" \notin trapped
    <2>1. Entered(4)
      BY <1>1, <1>9 DEF IInv, Kept
    <2>2. own.pc \in Int
      BY <1>1 DEF Types, CpuType
    <2>3. Entered(0)'
      BY <1>1, <1>2, <1>3, <1>4, <1>5, <2>1, <2>2 DEF Entered, IrqKept, SvcKept, Cpsr
    <2>4. Kept'
      BY <1>4, <2>3 DEF Kept
    <2> QED
      BY <1>1, <1>6, <1>7, <1>9, <2>4 DEF IInv
  <1> QED
    BY <1>8, <1>9

LEMMA AbortInv == ASSUME IInv, Abort PROVE IInv'
  <1>1. /\ Types /\ VectorsInv /\ OwnInv /\ cpu.pc = trap_abt
        /\ saved_regs' = [saved_regs EXCEPT !.pc = cpu.lr[cpu.mode] - 4,
                                            !.r0 = cpu.r0, !.r4 = cpu.r4]
        /\ saved_cpsr' = cpu.spsr[cpu.mode]
        /\ cpu' = [cpu EXCEPT !.lr[cpu.mode] = 0, !.pc = switch]
        /\ UNCHANGED <<vecs, own, trapped>>
    BY DEF IInv, Abort, Save
  <1>2. cpu.mode \in {"abt", "und"} /\ cpu.mode \in Modes
    BY <1>1 DEF IInv, Lost, Kept, Nested, Entered, Modes
  <1>3. cpu.lr[cpu.mode] \in Int /\ cpu.spsr[cpu.mode] \in PsrType
    BY <1>1, <1>2 DEF Types, CpuType
  <1>4. /\ cpu' \in CpuType
        /\ cpu'.pc = switch
        /\ cpu'.sp = cpu.sp /\ cpu'.spsr = cpu.spsr
        /\ \A n \in Modes \ {cpu.mode} : cpu'.lr[n] = cpu.lr[n]
    <2>1. 0 \in Int /\ switch \in Int /\ cpu \in CpuType
      BY <1>1 DEF Types
    <2>2. cpu' = LrPc(cpu, cpu.mode, 0, switch)
      BY <1>1 DEF LrPc
    <2> QED
      BY <1>2, <2>1, <2>2, LrPcRecord
  <1>5. cpu'.lr["svc"] = cpu.lr["svc"] /\ cpu'.lr["irq"] = cpu.lr["irq"]
    BY <1>2, <1>4 DEF Modes
  <1>6. /\ saved_regs' \in SavedType
        /\ saved_regs'.pc = cpu.lr[cpu.mode] - 4
        /\ saved_regs'.r0 = cpu.r0 /\ saved_regs'.r4 = cpu.r4
    <2>1. /\ cpu.lr[cpu.mode] - 4 \in Int /\ cpu.r0 \in Int /\ cpu.r4 \in Int
          /\ saved_regs \in SavedType
      BY <1>1, <1>3 DEF Types, CpuType
    <2>2. saved_regs' = SavePlace(saved_regs, cpu.lr[cpu.mode] - 4, cpu.r0, cpu.r4)
      BY <1>1 DEF SavePlace
    <2> QED
      BY <2>1, <2>2, SavedRecord
  <1>7. Types'
    BY <1>1, <1>3, <1>4, <1>6 DEF Types, vecs
  <1>8. VectorsInv' /\ OwnInv'
    BY <1>1, <1>4, HandlerFrame
  <1>9. CASE "trap_enter" \in trapped
    <2>1. Lost'
      BY <1>1, <1>2, <1>3, <1>4, <1>5, <1>6, <1>9 DEF IInv, Lost, Nested
    <2> QED
      BY <1>1, <1>7, <1>8, <1>9, <2>1 DEF IInv
  <1>10. CASE "trap_enter" \notin trapped
    <2>1. Entered(0)
      BY <1>1, <1>10 DEF IInv, Kept
    <2>2. own.pc \in Int
      BY <1>1 DEF Types, CpuType
    <2>3. SavedAt(own.pc - 4)' /\ SvcKept'
      BY <1>1, <1>2, <1>3, <1>4, <1>5, <1>6, <2>1, <2>2
      DEF Entered, SavedAt, IrqKept, SvcKept, Cpsr
    <2>4. Kept'
      BY <1>1, <1>4, <2>3 DEF Kept
    <2> QED
      BY <1>1, <1>7, <1>8, <1>10, <2>4 DEF IInv
  <1> QED
    BY <1>9, <1>10

LEMMA SaveBankedInv == ASSUME IInv, SaveBanked PROVE IInv'
  <1> DEFINE m == saved_cpsr.mode
  <1>1. /\ Types /\ VectorsInv /\ OwnInv /\ cpu.pc = switch
        /\ saved_regs' = [saved_regs EXCEPT !.sp = cpu.sp[m], !.lr = cpu.lr[m]]
        /\ cpu' = [With(cpu, [flags |-> 0, mode |-> "svc"]) EXCEPT
                     !.r0 = SAVED_REGS, !.lr["svc"] = resume, !.pc = trap_enter]
        /\ UNCHANGED <<saved_cpsr, vecs, own, trapped>>
    BY DEF IInv, SaveBanked, CallTrapEnter
  <1>2. m \in {"svc", "irq"} /\ m \in Modes /\ {"svc", "irq"} \subseteq Modes
    BY <1>1 DEF Types, PsrType, Modes
  <1>3. cpu.sp[m] \in Int /\ cpu.lr[m] \in Int
    BY <1>1, <1>2 DEF Types, CpuType
  <1>4. /\ saved_regs' \in SavedType
        /\ saved_regs'.pc = saved_regs.pc
        /\ saved_regs'.r0 = saved_regs.r0 /\ saved_regs'.r4 = saved_regs.r4
        /\ saved_regs'.sp = cpu.sp[m] /\ saved_regs'.lr = cpu.lr[m]
    <2> HIDE DEF m
    <2> QED
      BY <1>1, <1>3 DEF Types, SavedType
  <1>5. /\ cpu' \in CpuType
        /\ cpu'.pc = trap_enter /\ cpu'.mode = "svc" /\ cpu'.lr["svc"] = resume
        /\ cpu'.sp = cpu.sp /\ cpu'.spsr = cpu.spsr
        /\ \A n \in Modes \ {"svc"} : cpu'.lr[n] = cpu.lr[n]
    <2> DEFINE w == With(cpu, [flags |-> 0, mode |-> "svc"])
               c == [w EXCEPT !.r0 = SAVED_REGS]
    <2>1. /\ w \in CpuType /\ w.mode = "svc"
          /\ w.sp = cpu.sp /\ w.lr = cpu.lr /\ w.spsr = cpu.spsr
      BY <1>1, <1>2 DEF Types, CpuType, With
    <2>2. cpu' = [w EXCEPT !.r0 = SAVED_REGS, !.lr["svc"] = resume, !.pc = trap_enter]
      BY <1>1
    <2> HIDE DEF w
    <2>3. /\ c \in CpuType /\ c.mode = "svc"
          /\ c.sp = cpu.sp /\ c.lr = cpu.lr /\ c.spsr = cpu.spsr
      BY <2>1 DEF CpuType
    <2>4. cpu' = LrPc(c, "svc", resume, trap_enter)
      BY <2>1, <2>2 DEF CpuType, LrPc
    <2>5. resume \in Int /\ trap_enter \in Int /\ "svc" \in Modes
      BY <1>2
    <2> HIDE DEF c
    <2> QED
      BY <2>3, <2>4, <2>5, LrPcRecord
  <1>6. Types'
    BY <1>1, <1>4, <1>5 DEF Types, vecs
  <1>7. VectorsInv' /\ OwnInv'
    BY <1>1, <1>5, HandlerFrame
  <1>8. CASE "trap_enter" \in trapped
    <2>1. Lost'
      BY <1>1, <1>4, <1>5, <1>8 DEF IInv, Lost, NestedSaved
    <2> QED
      BY <1>1, <1>6, <1>7, <1>8, <2>1 DEF IInv
  <1>9. CASE "trap_enter" \notin trapped
    <2>1. SavedAt(own.pc - 4) /\ SvcKept
      BY <1>1, <1>9 DEF IInv, Kept
    <2>2. m = own.mode /\ cpu'.lr["irq"] = cpu.lr["irq"]
      BY <1>2, <1>5, <2>1 DEF SavedAt, Cpsr
    <2>3. SavedAt(own.pc - 4)'
      BY <1>1, <1>4, <1>5, <2>1, <2>2 DEF SavedAt, IrqKept, Cpsr
    <2>4. "irq" \notin trapped => m = "svc"
      BY <1>2, <2>1, <2>2 DEF SavedAt
    <2>5. SavedBanked'
      BY <1>1, <1>4, <1>5, <2>1, <2>4 DEF SavedBanked, SvcKept
    <2>6. Kept'
      BY <1>5, <2>3, <2>5 DEF Kept
    <2> QED
      BY <1>1, <1>6, <1>7, <1>9, <2>6 DEF IInv
  <1> QED
    BY <1>8, <1>9

LEMMA PrintStateInv == ASSUME IInv, PrintState PROVE IInv'
  <1>1. /\ Types /\ VectorsInv /\ OwnInv /\ cpu.pc = trap_enter
        /\ cpu' = [cpu EXCEPT !.pc = wait_key]
        /\ UNCHANGED <<memory, vecs, own, trapped>>
    BY DEF IInv, PrintState
  <1>2. /\ cpu' \in CpuType /\ cpu'.pc = wait_key
        /\ cpu'.sp = cpu.sp /\ cpu'.lr = cpu.lr /\ cpu'.spsr = cpu.spsr
    BY <1>1 DEF Types, CpuType
  <1>3. Types' /\ VectorsInv' /\ OwnInv'
    BY <1>1, <1>2, HandlerFrame DEF Types, memory, vecs
  <1>4. CASE "trap_enter" \in trapped
    <2>1. Lost'
      BY <1>1, <1>2, <1>4 DEF IInv, Lost, NestedSaved, memory
    <2> QED
      BY <1>1, <1>3, <1>4, <2>1 DEF IInv
  <1>5. CASE "trap_enter" \notin trapped
    <2>1. SavedAt(own.pc - 4) /\ SavedBanked
      BY <1>1, <1>5 DEF IInv, Kept
    <2>2. SavedAt(own.pc - 4)' /\ SavedBanked'
      BY <1>1, <1>2, <2>1 DEF SavedAt, SavedBanked, IrqKept, Cpsr, memory
    <2>3. Kept'
      BY <1>2, <2>2 DEF Kept
    <2> QED
      BY <1>1, <1>3, <1>5, <2>3 DEF IInv
  <1> QED
    BY <1>4, <1>5

LEMMA KeyInv == ASSUME IInv, Key PROVE IInv'
  <1>1. /\ Types /\ VectorsInv /\ OwnInv /\ cpu.pc = wait_key
        /\ UNCHANGED <<saved_cpsr, vecs, own, trapped>>
    BY DEF IInv, Key
  <1>2. CASE /\ saved_regs' = [saved_regs EXCEPT !.pc = @ + 4]
             /\ cpu' = [cpu EXCEPT !.pc = trap_enter_end]
    <2>1. /\ cpu' \in CpuType /\ cpu'.pc = trap_enter_end
          /\ cpu'.sp = cpu.sp /\ cpu'.lr = cpu.lr /\ cpu'.spsr = cpu.spsr
      BY <1>1, <1>2 DEF Types, CpuType
    <2>2. /\ saved_regs' \in SavedType /\ saved_regs'.pc = saved_regs.pc + 4
          /\ saved_regs'.r0 = saved_regs.r0 /\ saved_regs'.r4 = saved_regs.r4
          /\ saved_regs'.sp = saved_regs.sp /\ saved_regs'.lr = saved_regs.lr
      BY <1>1, <1>2 DEF Types, SavedType
    <2>3. Types' /\ VectorsInv' /\ OwnInv'
      BY <1>1, <2>1, <2>2, HandlerFrame DEF Types, vecs
    <2>4. CASE "trap_enter" \in trapped
      <3>1. Lost'
        BY <1>1, <2>1, <2>2, <2>4 DEF IInv, Lost, NestedSaved
      <3> QED
        BY <1>1, <2>3, <2>4, <3>1 DEF IInv
    <2>5. CASE "trap_enter" \notin trapped
      <3>1. SavedAt(own.pc - 4) /\ SavedBanked /\ own.pc \in Int
        BY <1>1, <2>5 DEF IInv, Kept, Types, CpuType
      <3>2. SavedAt(own.pc)' /\ SavedBanked'
        BY <1>1, <2>1, <2>2, <3>1 DEF SavedAt, SavedBanked, IrqKept, Cpsr
      <3>3. Kept'
        BY <2>1, <3>2 DEF Kept
      <3> QED
        BY <1>1, <2>3, <2>5, <3>3 DEF IInv
    <2> QED
      BY <2>4, <2>5
  <1>3. CASE cpu' = [cpu EXCEPT !.pc = RESET] /\ UNCHANGED saved_regs
    <2>1. cpu' \in CpuType /\ cpu'.pc = RESET /\ cpu'.lr = cpu.lr
      BY <1>1, <1>3 DEF Types, CpuType
    <2>2. Types' /\ VectorsInv' /\ OwnInv'
      BY <1>1, <1>3, <2>1, HandlerFrame DEF Types, vecs
    <2>3. "trap_enter" \in trapped => Lost'
      BY <1>1, <2>1 DEF IInv, Lost
    <2>4. Kept'
      BY <2>1 DEF Kept
    <2> QED
      BY <1>1, <2>2, <2>3, <2>4 DEF IInv
  <1> QED
    BY <1>2, <1>3 DEF Key

LEMMA TrapEnterReturnsInv == ASSUME IInv, TrapEnterReturns PROVE IInv'
  <1>1. /\ Types /\ VectorsInv /\ OwnInv /\ cpu.pc = trap_enter_end
        /\ cpu' = [cpu EXCEPT !.pc = cpu.lr["svc"], !.flags = 1, !.r0 = 1]
        /\ UNCHANGED <<memory, vecs, own, trapped>>
        /\ cpu.lr["svc"] = resume
    BY DEF IInv, TrapEnterReturns, Lost, Kept, SavedBanked
  <1>2. /\ cpu' \in CpuType /\ cpu'.pc = resume
        /\ cpu'.sp = cpu.sp /\ cpu'.lr = cpu.lr /\ cpu'.spsr = cpu.spsr
    <2> DEFINE one == 1
               v == resume
    <2>1. cpu' = [cpu EXCEPT !.pc = v, !.flags = one, !.r0 = one]
      BY <1>1
    <2>2. cpu \in CpuType /\ v \in Int /\ one \in Int /\ one \in {0, 1}
      BY <1>1 DEF Types
    <2> HIDE DEF one, v
    <2>3. /\ cpu' \in CpuType /\ cpu'.pc = v
          /\ cpu'.sp = cpu.sp /\ cpu'.lr = cpu.lr /\ cpu'.spsr = cpu.spsr
      BY <2>1, <2>2 DEF CpuType
    <2> QED
      BY <2>3 DEF v
  <1>3. Types' /\ VectorsInv' /\ OwnInv'
    BY <1>1, <1>2, HandlerFrame DEF Types, memory, vecs
  <1>4. CASE "trap_enter" \in trapped
    <2>1. Lost'
      BY <1>1, <1>2, <1>4 DEF IInv, Lost, NestedSaved, memory
    <2> QED
      BY <1>1, <1>3, <1>4, <2>1 DEF IInv
  <1>5. CASE "trap_enter" \notin trapped
    <2>1. SavedAt(own.pc) /\ SavedBanked
      BY <1>1, <1>5 DEF IInv, Kept
    <2>2. SavedAt(own.pc)' /\ SavedBanked'
      BY <1>1, <1>2, <2>1 DEF SavedAt, SavedBanked, IrqKept, Cpsr, memory
    <2>3. Kept'
      BY <1>2, <2>2 DEF Kept
    <2> QED
      BY <1>1, <1>3, <1>5, <2>3 DEF IInv
  <1> QED
    BY <1>4, <1>5

(* What ldm loads. *)
LEMMA LoadedFields ==
  ASSUME Types
  PROVE /\ Loaded \in CpuType
        /\ Loaded.pc = saved_regs.pc /\ Cpsr(Loaded) = saved_cpsr
        /\ Loaded.r0 = saved_regs.r0 /\ Loaded.r4 = saved_regs.r4
        /\ Loaded.sp["svc"] = saved_regs.sp /\ Loaded.lr["svc"] = saved_regs.lr
        /\ Loaded.sp["irq"] = cpu.sp["irq"] /\ Loaded.lr["irq"] = cpu.lr["irq"]
        /\ Loaded.spsr["irq"] = cpu.spsr["irq"]
  <1> DEFINE s == [cpu.sp EXCEPT !["svc"] = saved_regs.sp]
             l == [cpu.lr EXCEPT !["svc"] = saved_regs.lr]
             p == [cpu.spsr EXCEPT !["svc"] = saved_cpsr]
             a == saved_regs.r0
             b == saved_regs.r4
             v == saved_regs.pc
             f == saved_cpsr.flags
             m == saved_cpsr.mode
  <1>1. "svc" \in Modes /\ "irq" \in Modes
    BY DEF Modes
  <1>2. a \in Int /\ b \in Int /\ v \in Int /\ saved_regs.sp \in Int /\ saved_regs.lr \in Int
    BY DEF Types, SavedType
  <1>3. f \in {0, 1} /\ m \in Modes /\ saved_cpsr = [flags |-> f, mode |-> m]
    BY DEF Types, PsrType, Modes
  <1>4. /\ s \in [Modes -> Int] /\ s["svc"] = saved_regs.sp /\ s["irq"] = cpu.sp["irq"]
        /\ l \in [Modes -> Int] /\ l["svc"] = saved_regs.lr /\ l["irq"] = cpu.lr["irq"]
        /\ p \in [Modes -> PsrType] /\ p["irq"] = cpu.spsr["irq"]
    BY <1>1, <1>2 DEF Types, CpuType
  <1>5. Loaded = [cpu EXCEPT !.r0 = a, !.r4 = b, !.sp = s, !.lr = l, !.spsr = p, !.pc = v,
                             !.flags = f, !.mode = m]
    BY DEF Loaded, With, Types, CpuType
  <1>6. cpu \in CpuType
    BY DEF Types
  <1> HIDE DEF s, l, p, a, b, v, f, m
  <1>7. /\ Loaded \in CpuType /\ Loaded.pc = v /\ Loaded.r0 = a /\ Loaded.r4 = b
        /\ Loaded.sp = s /\ Loaded.lr = l /\ Loaded.spsr = p
        /\ Loaded.flags = f /\ Loaded.mode = m
    BY <1>2, <1>3, <1>4, <1>5, <1>6 DEF CpuType
  <1>8. Cpsr(Loaded) = saved_cpsr
    BY <1>3, <1>7 DEF Cpsr
  <1> QED
    BY <1>4, <1>7, <1>8 DEF a, b, v

LEMMA ResumeInv == ASSUME IInv, Resume PROVE IInv'
  <1>1. /\ Types /\ VectorsInv /\ OwnInv /\ cpu.pc = resume /\ cpu' = Loaded
        /\ UNCHANGED <<memory, vecs, own, trapped>>
    BY DEF IInv, Resume
  <1>2. /\ cpu' \in CpuType
        /\ cpu'.pc = saved_regs.pc /\ Cpsr(cpu') = saved_cpsr
        /\ cpu'.r0 = saved_regs.r0 /\ cpu'.r4 = saved_regs.r4
        /\ cpu'.sp["svc"] = saved_regs.sp /\ cpu'.lr["svc"] = saved_regs.lr
        /\ cpu'.sp["irq"] = cpu.sp["irq"] /\ cpu'.lr["irq"] = cpu.lr["irq"]
        /\ cpu'.spsr["irq"] = cpu.spsr["irq"]
    BY <1>1, LoadedFields
  <1>3. Types'
    BY <1>1, <1>2 DEF Types, memory, vecs
  <1>4. CASE "trap_enter" \in trapped
    <2>1. NestedSaved({wait_key, trap_enter_end}) /\ Lost
      BY <1>1, <1>4 DEF IInv, Lost
    <2>2. VectorsInv' /\ OwnInv'
      BY <1>1, <1>2, <2>1, HandlerFrame DEF NestedSaved
    <2>3. Lost'
      BY <1>1, <1>2, <2>1 DEF Lost, NestedSaved, memory
    <2> QED
      BY <1>1, <1>3, <1>4, <2>2, <2>3 DEF IInv
  <1>5. CASE "trap_enter" \notin trapped
    <2>1. SavedAt(own.pc) /\ SavedBanked
      BY <1>1, <1>5 DEF IInv, Kept
    <2>2. cpu'.pc = own.pc /\ cpu'.pc \in Code \cup IrqCode
      BY <1>1, <1>2, <2>1 DEF SavedAt, OwnInv
    <2>3. VectorsInv' /\ OwnInv'
      BY <1>1, <2>2, HandlerFrame
    <2>4. InCode'
      BY <1>1, <1>2, <2>1, <2>2 DEF InCode, SavedAt, SavedBanked, IrqKept, SvcKept
    <2>5. Kept'
      BY <2>2, <2>4 DEF Kept
    <2> QED
      BY <1>1, <1>3, <1>5, <2>3, <2>5 DEF IInv
  <1> QED
    BY <1>4, <1>5

-----------------------------------------------------------------------------
LEMMA NextInv == ASSUME IInv, [Next]_vars PROVE IInv'
  <1>1. CASE HandlerStep
    BY <1>1, DataAbortInv, AbortInv, SaveBankedInv, PrintStateInv, KeyInv,
       TrapEnterReturnsInv, ResumeInv DEF HandlerStep
  <1>2. CASE UNCHANGED vars
    BY <1>2 DEF IInv, Types, VectorsInv, OwnInv, Lost, Nested, NestedSaved, Kept, InCode,
                Entered, SavedAt, SavedBanked, IrqKept, SvcKept, Cpsr, vars, memory, vecs
  <1>3. CASE Install \/ Remove
    BY <1>3, InstallRemoveInv
  <1>4. CASE Execute \/ Interrupt \/ InterruptStep \/ Exception \/ NestedException
    BY <1>4, ExecuteInv, InterruptInv, InterruptStepInv, ExceptionInv, NestedExceptionInv
  <1> QED
    BY <1>1, <1>2, <1>3, <1>4 DEF Next

LEMMA SpecInv == Spec => []IInv
  <1>1. Init => IInv
    BY InitInv
  <1>2. IInv /\ [Next]_vars => IInv'
    BY NextInv
  <1> QED
    BY <1>1, <1>2, PTL DEF Spec

(* Whatever the registers hold, wherever the OS has its handlers, and as   *)
(* often as the code, its interrupts or trap_enter itself raise exceptions,*)
(* code that goes on after one goes on behind the instruction that raised  *)
(* it, with the registers it had, but for sp and lr of svc mode after an   *)
(* exception in an interrupt.                                              *)
THEOREM AlwaysTransparent == Spec => []Transparent
  <1>1. IInv => Transparent
    BY DEF IInv, Lost, Kept, InCode, IrqKept, SvcKept, Transparent
  <1> QED
    BY <1>1, SpecInv, PTL

(* The handler of the loader is entered only while the loader has its      *)
(* vectors installed, and the OS finds its own in place before and after.  *)
THEOREM VectorsAlwaysOwned == Spec => []VectorsOwned
  <1>1. IInv => VectorsOwned
    BY DEF IInv, VectorsInv, Oss, VectorsOwned
  <1> QED
    BY <1>1, SpecInv, PTL

-----------------------------------------------------------------------------
(* The registers hold words: values of the program, addresses behind an    *)
(* instruction, and what the handler leaves in them.                       *)
CpuWords(c) ==
  /\ c.r0 \in Word /\ c.r4 \in Word
  /\ \A m \in Modes : c.sp[m] \in Word
  /\ c.lr["svc"] \in Word /\ c.lr["irq"] \in Word
SavedWords(s) == s.r0 \in Word /\ s.r4 \in Word /\ s.sp \in Word /\ s.lr \in Word
WordsInv ==
  /\ CpuWords(cpu) /\ SavedWords(saved_regs)
  /\ trapped \subseteq {"svc", "irq", "trap_enter"}

LEMMA SomeWords ==
  /\ 0 .. 4 \subseteq Word /\ Values \subseteq Word /\ SAVED_REGS \in Word
  /\ resume \in Word /\ \A a \in Code : a + 4 \in Word
  BY DEF Word, Text

(* The steps of the program and of the processor. *)
LEMMA ProgramWords ==
  ASSUME IInv, WordsInv,
         Execute \/ Interrupt \/ InterruptStep \/ Exception \/ NestedException
  PROVE  WordsInv'
  <1>0. cpu \in CpuType
    BY DEF IInv, Types
  <1>m. cpu.pc \in Code \cup IrqCode =>
          /\ cpu.mode \in {"svc", "irq"} /\ (cpu.pc \in Code => cpu.mode = "svc")
    BY DEF IInv, OwnInv, Kept, Lost, InCode, Cpsr
  <1>1. CASE Execute
    <2>1. PICK r4 \in Values, lr \in Values, flags \in {0, 1} :
             cpu' = Executed(cpu, r4, lr, flags)
      BY <1>1 DEF Execute
    <2>2. cpu.mode = "svc" /\ "svc" \in Modes /\ "irq" \in Modes
      BY <1>1, <1>m DEF Execute, Modes
    <2>3. /\ cpu'.r0 = cpu.r0 /\ cpu'.r4 = r4 /\ cpu'.sp = cpu.sp
          /\ cpu'.lr["svc"] = lr /\ cpu'.lr["irq"] = cpu.lr["irq"]
      BY <1>0, <2>1, <2>2 DEF CpuType, Executed
    <2> QED
      BY <1>1, <2>3, SomeWords DEF Execute, WordsInv, CpuWords, memory
  <1>2. CASE Interrupt
    <2>1. "svc" \in Modes /\ "irq" \in Modes /\ cpu.pc \in Code
      BY <1>2 DEF Interrupt, Modes
    <2>2. /\ cpu'.r0 = cpu.r0 /\ cpu'.r4 = cpu.r4 /\ cpu'.sp = cpu.sp
          /\ cpu'.lr["irq"] = cpu.pc + 4 /\ cpu'.lr["svc"] = cpu.lr["svc"]
      BY <1>0, <1>2, <2>1 DEF CpuType, Interrupt, Interrupted
    <2> QED
      BY <1>2, <2>1, <2>2, SomeWords DEF Interrupt, WordsInv, CpuWords, memory
  <1>3. CASE InterruptStep
    <2>1. cpu' = IrqEnded(cpu) \/ cpu' = [cpu EXCEPT !.pc = @ + 4]
      BY <1>3 DEF InterruptStep
    <2>2. /\ cpu'.r0 = cpu.r0 /\ cpu'.r4 = cpu.r4 /\ cpu'.sp = cpu.sp
          /\ cpu'.lr = cpu.lr
      BY <1>0, <2>1 DEF CpuType, IrqEnded, With
    <2> QED
      BY <1>3, <2>2 DEF InterruptStep, WordsInv, CpuWords, memory
  <1>4. CASE Exception \/ NestedException
    <2>1. PICK k \in Kinds : Raise(k)
      BY <1>4 DEF Exception, NestedException
    <2>2. cpu.mode \in {"svc", "irq"}
      BY <1>4, <1>m DEF Exception, NestedException, IInv, Kept, Lost
    <2>3. vectors[k] \in Int
      BY TrapAssumption DEF IInv, VectorsInv, Loaders, Oss
    <2>4. ModeOf(k) \in {"abt", "und"}
      BY DEF ModeOf
    <2>5. /\ cpu'.r0 = cpu.r0 /\ cpu'.r4 = cpu.r4 /\ cpu'.sp = cpu.sp
          /\ cpu'.lr["svc"] = cpu.lr["svc"] /\ cpu'.lr["irq"] = cpu.lr["irq"]
      BY <2>1, <2>2, <2>3, <2>4, RaiseRecord DEF IInv, Modes
    <2>6. trapped' \subseteq {"svc", "irq", "trap_enter"} /\ saved_regs' = saved_regs
      BY <1>4, <2>2 DEF Exception, NestedException, WordsInv, memory
    <2> QED
      BY <2>5, <2>6 DEF WordsInv, CpuWords
  <1> QED
    BY <1>1, <1>2, <1>3, <1>4

(* The steps of the handler. *)
LEMMA HandlerWords ==
  ASSUME IInv, WordsInv, HandlerStep PROVE WordsInv'
  <1>0. cpu \in CpuType /\ saved_regs \in SavedType /\ Types
        /\ "svc" \in Modes /\ "irq" \in Modes
    BY DEF IInv, Types, Modes
  <1>1. CASE DataAbort
    <2>1. cpu.mode \in {"abt", "und"}
      BY <1>1 DEF DataAbort, IInv, Lost, Kept, Nested, Entered
    <2>2. /\ cpu'.r0 = cpu.r0 /\ cpu'.r4 = cpu.r4 /\ cpu'.sp = cpu.sp
          /\ cpu'.lr["svc"] = cpu.lr["svc"] /\ cpu'.lr["irq"] = cpu.lr["irq"]
      BY <1>0, <1>1, <2>1 DEF CpuType, DataAbort
    <2> QED
      BY <1>1, <2>2 DEF DataAbort, WordsInv, CpuWords, memory
  <1>2. CASE Abort
    <2>1. cpu.mode \in {"abt", "und"}
      BY <1>2 DEF Abort, IInv, Lost, Kept, Nested, Entered
    <2>2. /\ cpu'.r0 = cpu.r0 /\ cpu'.r4 = cpu.r4 /\ cpu'.sp = cpu.sp
          /\ cpu'.lr["svc"] = cpu.lr["svc"] /\ cpu'.lr["irq"] = cpu.lr["irq"]
      BY <1>0, <1>2, <2>1 DEF CpuType, Abort, Save
    <2>3. /\ saved_regs'.r0 = cpu.r0 /\ saved_regs'.r4 = cpu.r4
          /\ saved_regs'.sp = saved_regs.sp /\ saved_regs'.lr = saved_regs.lr
      BY <1>0, <1>2 DEF SavedType, Abort, Save
    <2> QED
      BY <1>2, <2>2, <2>3 DEF Abort, WordsInv, CpuWords, SavedWords
  <1>3. CASE SaveBanked
    <2> DEFINE m == saved_cpsr.mode
    <2>1. m \in {"svc", "irq"} /\ m \in Modes
      BY <1>0 DEF Types, PsrType, Modes
    <2>2. /\ cpu'.r0 = SAVED_REGS /\ cpu'.r4 = cpu.r4 /\ cpu'.sp = cpu.sp
          /\ cpu'.lr["svc"] = resume /\ cpu'.lr["irq"] = cpu.lr["irq"]
      BY <1>0, <1>3 DEF CpuType, SaveBanked, CallTrapEnter, With
    <2>3. /\ saved_regs'.r0 = saved_regs.r0 /\ saved_regs'.r4 = saved_regs.r4
          /\ saved_regs'.sp = cpu.sp[m] /\ saved_regs'.lr = cpu.lr[m]
      BY <1>0, <1>3 DEF SavedType, SaveBanked
    <2> HIDE DEF m
    <2>4. trapped' = trapped
      BY <1>3 DEF SaveBanked
    <2>5. CpuWords(cpu')
      BY <2>2, SomeWords DEF WordsInv, CpuWords
    <2>6. SavedWords(saved_regs')
      BY <2>1, <2>3 DEF WordsInv, CpuWords, SavedWords
    <2> QED
      BY <2>4, <2>5, <2>6 DEF WordsInv
  <1>4. CASE PrintState \/ Key
    <2>1. \E a \in Int : cpu' = [cpu EXCEPT !.pc = a]
      BY <1>4 DEF PrintState, Key
    <2>2. /\ cpu'.r0 = cpu.r0 /\ cpu'.r4 = cpu.r4 /\ cpu'.sp = cpu.sp
          /\ cpu'.lr = cpu.lr
      BY <1>0, <2>1 DEF CpuType
    <2>3. /\ saved_regs'.r0 = saved_regs.r0 /\ saved_regs'.r4 = saved_regs.r4
          /\ saved_regs'.sp = saved_regs.sp /\ saved_regs'.lr = saved_regs.lr
      BY <1>0, <1>4 DEF SavedType, PrintState, Key, memory
    <2>4. trapped' = trapped
      BY <1>4 DEF PrintState, Key
    <2> QED
      BY <2>2, <2>3, <2>4 DEF WordsInv, CpuWords, SavedWords
  <1>5. CASE TrapEnterReturns
    <2> DEFINE one == 1
    <2>1. cpu' = [cpu EXCEPT !.pc = cpu.lr["svc"], !.flags = one, !.r0 = one]
      BY <1>5 DEF TrapEnterReturns
    <2> HIDE DEF one
    <2>2. /\ cpu'.r0 = one /\ cpu'.r4 = cpu.r4 /\ cpu'.sp = cpu.sp
          /\ cpu'.lr = cpu.lr
      BY <1>0, <2>1 DEF CpuType
    <2>3. cpu'.r0 \in Word
      BY <2>2, SomeWords DEF one
    <2> QED
      BY <1>5, <2>2, <2>3 DEF TrapEnterReturns, WordsInv, CpuWords, memory
  <1>6. CASE Resume
    <2>1. /\ cpu'.r0 = saved_regs.r0 /\ cpu'.r4 = saved_regs.r4
          /\ cpu'.lr["svc"] = saved_regs.lr /\ cpu'.lr["irq"] = cpu.lr["irq"]
      BY <1>0, <1>6, LoadedFields DEF Resume
    <2>2. cpu'.sp = [cpu.sp EXCEPT !["svc"] = saved_regs.sp]
      BY <1>0, <1>6 DEF Resume, Loaded, With, CpuType
    <2>3. cpu.sp \in [Modes -> Int]
      BY <1>0 DEF CpuType
    <2>4. \A m \in Modes : cpu'.sp[m] \in Word
      BY <2>2, <2>3 DEF WordsInv, CpuWords, SavedWords
    <2> QED
      BY <1>6, <2>1, <2>4 DEF Resume, WordsInv, CpuWords, SavedWords, memory
  <1> QED
    BY <1>1, <1>2, <1>3, <1>4, <1>5, <1>6 DEF HandlerStep

(* Whatever happens, pc is at an instruction the model has, the registers  *)
(* hold words, and the vectors one of the handlers.                        *)
THEOREM TypeCorrect == Spec => []TypeOK
  <1>1. Init => WordsInv
    <2> SUFFICES ASSUME Init PROVE WordsInv
      OBVIOUS
    <2>1. \A m \in Modes : cpu.sp[m] \in 0 .. 4 /\ cpu.lr[m] = 0
      BY DEF Init, Modes
    <2>2. cpu.lr["svc"] = 0 /\ cpu.lr["irq"] = 0 /\ cpu.r0 = 0 /\ cpu.r4 = 0
      BY DEF Init, Modes
    <2>3. CpuWords(cpu)
      BY <2>1, <2>2, SomeWords DEF CpuWords
    <2>4. SavedWords(saved_regs)
      BY SomeWords DEF Init, SavedWords
    <2> QED
      BY <2>3, <2>4 DEF Init, WordsInv
  <1>2. IInv /\ WordsInv /\ [Next]_vars => WordsInv'
    <2>1. CASE Install \/ Remove \/ UNCHANGED vars
      BY <2>1 DEF Install, Remove, vars, memory, WordsInv
    <2> QED
      BY <2>1, ProgramWords, HandlerWords DEF Next
  <1>3. IInv /\ WordsInv => TypeOK
    <2> SUFFICES ASSUME IInv, WordsInv PROVE TypeOK
      OBVIOUS
    <2>1. cpu \in CpuType /\ saved_cpsr \in PsrType /\ VectorsInv
      BY DEF IInv, Types
    <2>2. /\ cpu.flags \in {0, 1} /\ cpu.mode \in Modes /\ cpu.spsr \in [Modes -> PsrType]
          /\ cpu.sp \in [Modes -> Int]
      BY <2>1 DEF CpuType
    <2>3. cpu.sp \in [Modes -> Word]
      BY <2>2 DEF WordsInv, CpuWords
    <2>4. cpu.pc \in Text
      BY <2>1 DEF VectorsInv, Text
    <2>5. vectors \in [Kinds -> {OsHandler, trap_abt, trap_data_abt}]
      BY <2>1 DEF VectorsInv, Loaders, Oss
    <2> QED
      BY <2>1, <2>2, <2>3, <2>4, <2>5 DEF TypeOK, WordsInv, CpuWords
  <1> QED
    BY <1>1, <1>2, <1>3, SpecInv, PTL DEF Spec

=============================================================================
