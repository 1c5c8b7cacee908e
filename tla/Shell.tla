-------------------------------- MODULE Shell --------------------------------
(***************************************************************************)
(* The commands the loader executes, in what order, and what they set:     *)
(* main of main.c, process_cmd and load_script of cmd.c, with the commands *)
(* and the detection of Settings.                                          *)
(*                                                                         *)
(* A command comes from a line the user types, or from a script: the file  *)
(* main is started with, or one a command names, also inside a script.     *)
(* load_script calls process_cmd and process_cmd calls load_script, so the *)
(* open scripts are a stack.                                               *)
(*                                                                         *)
(* A line of a script is the sequence of pieces fgets makes of it with a   *)
(* buffer of 128 bytes: one, unless the line is longer than that.  Of the  *)
(* commands that load, boot or print only the machine number a DTB sets is *)
(* modelled here.                                                          *)
(***************************************************************************)
EXTENDS Settings, FiniteSets, SequencesExt

CONSTANTS
  Lines,       \* the scripts on the device by name: lines, in pieces
  Typed,       \* the commands the user types
  MaxTyped,    \* bound: how many commands are given to main
  Machines     \* hwtype, is_touchpad, raw_serial and mem_block_size

Scripts == DOMAIN Lines

(* A piece is what process_cmd makes of it: the command whose name it      *)
(* begins with, whatever follows the name, and the argument, which begins  *)
(* one character after the name.  Only exit (or q) has to be the whole     *)
(* piece.  The file of a dtb command is its argument, good or not.         *)
Setters == {"mach", "phys", "rdsize", "cmdline", "probemem", "enterbkpt"}
Others == {"kernel", "initrd", "dump", "free", "boot", "poke", "peek", "unknown"}
Ops == {"comment", "empty", "exit", "script", "dtb"} \cup Setters \cup Others
Ignored(c) == c.op \in {"comment", "empty"}

Pieces == UNION {UNION {Range(Lines[s][n]) : n \in DOMAIN Lines[s]} : s \in Scripts}

Valid(c) ==
  /\ c = [op |-> c.op, arg |-> c.arg] /\ c.op \in Ops
  /\ c.op \in {"mach", "phys", "rdsize"} => c.arg \in Seq(Nat \cup {JUNK})
  /\ c.op = "cmdline" => c.arg \in Seq(Range(c.arg) \ {NUL})

ASSUME LinesAssumption ==
  /\ IsFiniteSet(Scripts)
  /\ \A s \in Scripts : Lines[s] \in Seq(Seq(Pieces) \ {<< >>})
  /\ \A c \in Typed \cup Pieces : Valid(c)

ASSUME MachinesAssumption ==
  \A m \in Machines : m.mem_block_size \in Nat /\ m.raw_serial \subseteq 0 .. 63

VARIABLES
  pc,          \* where main is: "start", "loop" or "end"
  machine,     \* what the loader is run on
  settings,    \* settings, as far as Settings has it
  stack,       \* the open scripts, the innermost first, and their position
  given,       \* history: the commands given to main
  executed     \* history: the commands executed

vars == <<pc, machine, settings, stack, given, executed>>

-----------------------------------------------------------------------------
(* The position in an open script: the piece fgets will read next. *)
Start(s) == [script |-> s, line |-> 1, piece |-> 1]
AtEnd(at) == at.line > Len(Lines[at.script])
Piece(at) == Lines[at.script][at.line][at.piece]
Advance(at) ==
  IF at.piece < Len(Lines[at.script][at.line])
  THEN [at EXCEPT !.piece = @ + 1]
  ELSE [at EXCEPT !.line = @ + 1, !.piece = 1]

(* load_script called with the scripts in open being read; a file that     *)
(* does not exist only makes it print a warning.  load_script_Queue would  *)
(* read a script when the others are done.                                 *)
load_script_Queue(s, open) ==
  IF s \in Scripts THEN open \o <<Start(s)>> ELSE open
load_script(s, open) ==
  IF s \in Scripts THEN <<Start(s)>> \o open ELSE open

(* What a command does to settings. *)
Execute(c, s) ==
  CASE c.op = "mach" -> setget_mach(s, c.arg)
    [] c.op = "phys" -> setget_phys(s, c.arg)
    [] c.op = "rdsize" -> setget_rdisksize(s, c.arg)
    [] c.op = "cmdline" -> kernel_cmdline(s, c.arg)
    [] c.op = "probemem" -> force_guess_memory(s, c.arg)
    [] c.op = "enterbkpt" -> break_on_entry(s, c.arg)
    [] c.op = "dtb" -> IF c.arg = "good" THEN load_dtb(s) ELSE s
    [] OTHER -> s

(* process_cmd. *)
process_cmd(c, open) ==
  IF Ignored(c)
  THEN stack' = open /\ UNCHANGED <<settings, executed>>
  ELSE /\ stack' = IF c.op = "script" THEN load_script(c.arg, open) ELSE open
       /\ settings' = Execute(c, settings)
       /\ executed' = Append(executed, c)

Zero(m) ==
  [machine_id |-> 0, phys |-> [start |-> 0, size |-> 0], ramdisk_size |-> 0,
   kernel_cmdline |-> [i \in 1 .. CmdlineSize |-> NUL], break_on_entry |-> FALSE,
   serialnr |-> <<{}, {}>>, rev |-> {}, mem_block_size |-> m.mem_block_size]

Init ==
  /\ pc = "start"
  /\ machine \in Machines
  /\ settings = Zero(machine)
  /\ stack = << >> /\ given = << >> /\ executed = << >>

(* main, up to its loop: the detection, and the script it is started with. *)
Main ==
  /\ pc = "start"
  /\ pc' = "loop"
  /\ settings' = Detected(settings, machine)
  /\ \/ UNCHANGED <<stack, given, executed>>
     \/ \E s \in Scripts :
          LET c == [op |-> "script", arg |-> s] IN
          given' = <<c>> /\ executed' = <<c>> /\ stack' = load_script(s, << >>)
  /\ UNCHANGED machine

Prompt ==
  /\ pc = "loop" /\ stack = << >>
  /\ Len(given) < MaxTyped
  /\ \E c \in Typed :
       /\ given' = Append(given, c)
       /\ process_cmd(c, << >>)
       /\ pc' = IF c.op = "exit" THEN "end" ELSE pc
  /\ UNCHANGED machine

(* A round of the loop of load_script: what process_cmd returns is not     *)
(* looked at.  ReadLine_Once closes the script when it runs another one.   *)
ReadLine_Once ==
  /\ stack # << >> /\ ~AtEnd(Head(stack))
  /\ LET c == Piece(Head(stack)) IN
     process_cmd(c, IF c.op = "script" THEN Tail(stack)
                    ELSE <<Advance(Head(stack))>> \o Tail(stack))
  /\ UNCHANGED <<pc, machine, given>>

ReadLine ==
  /\ stack # << >> /\ ~AtEnd(Head(stack))
  /\ process_cmd(Piece(Head(stack)), <<Advance(Head(stack))>> \o Tail(stack))
  /\ UNCHANGED <<pc, machine, given>>

(* The file has no more lines: fclose, and back to the caller; and as if   *)
(* the end of an inner script were not noticed.                            *)
EndOfScript_OuterOnly ==
  /\ Len(stack) = 1 /\ AtEnd(Head(stack))
  /\ stack' = Tail(stack)
  /\ UNCHANGED <<pc, machine, settings, given, executed>>

EndOfScript ==
  /\ stack # << >> /\ AtEnd(Head(stack))
  /\ stack' = Tail(stack)
  /\ UNCHANGED <<pc, machine, settings, given, executed>>

Next == Main \/ Prompt \/ ReadLine \/ EndOfScript

Spec == Init /\ [][Next]_vars

(* The loader runs alone: a script that can be read on, is. *)
FairSpec == Spec /\ WF_vars(ReadLine \/ EndOfScript)

-----------------------------------------------------------------------------
(* Scripts that do not run each other in circles: each is above those it   *)
(* runs.                                                                   *)
Acyclic ==
  \E rank \in [Scripts -> 1 .. Cardinality(Scripts)] :
    \A s \in Scripts : \A n \in DOMAIN Lines[s] : \A c \in Range(Lines[s][n]) :
      c.op = "script" /\ c.arg \in Scripts => rank[c.arg] < rank[s]

(* What a command executes, scripts it runs included, for such scripts. *)
PiecesFrom(at) ==
  IF AtEnd(at) THEN << >>
  ELSE LET line == Lines[at.script][at.line] IN
       SubSeq(line, at.piece, Len(line))
         \o FlattenSeq(SubSeq(Lines[at.script], at.line + 1,
                              Len(Lines[at.script])))

Commands == Typed \cup Pieces \cup {[op |-> "script", arg |-> s] : s \in Scripts}

Exec[depth \in 0 .. Cardinality(Scripts)] ==
  [c \in Commands |->
     IF Ignored(c) THEN << >>
     ELSE IF c.op = "script" /\ c.arg \in Scripts /\ depth > 0
          THEN LET inside == PiecesFrom(Start(c.arg)) IN
               <<c>> \o FlattenSeq([i \in DOMAIN inside |->
                                      Exec[depth - 1][inside[i]]])
          ELSE <<c>>]

ExecAll(cs) ==
  FlattenSeq([i \in DOMAIN cs |-> Exec[Cardinality(Scripts)][cs[i]]])

(* The piece read before a position that is not the start. *)
LastRead(at) ==
  IF at.piece > 1 THEN Lines[at.script][at.line][at.piece - 1]
  ELSE Last(Lines[at.script][at.line - 1])

(* An open script that another one was opened after has just read the      *)
(* piece that names it, and main ends with no script open.  None is open   *)
(* twice, so that the buffers of 128 bytes on the stack of the program are *)
(* no more than the scripts.                                               *)
TypeOK ==
  /\ pc \in {"start", "loop", "end"}
  /\ pc # "loop" => stack = << >>
  /\ \A i \in DOMAIN stack : stack[i].script \in Scripts
  /\ \A i \in 1 .. Len(stack) - 1 :
       /\ stack[i + 1] # Start(stack[i + 1].script)
       /\ LastRead(stack[i + 1]) = [op |-> "script", arg |-> stack[i].script]
       /\ \A j \in i + 1 .. Len(stack) : stack[j].script # stack[i].script

(* Every command is executed once, in its place: a script as a whole       *)
(* before the line after the one that runs it, with nothing left out when  *)
(* an inner script ends.  What is beyond the buffer of a line is a command *)
(* of its own, and so is the end of a long comment.                        *)
OrderKept ==
  ExecAll(given) =
    executed \o FlattenSeq([i \in DOMAIN stack |-> ExecAll(PiecesFrom(stack[i]))])

(* Scripts that do not run each other in circles come to an end. *)
BackAtPrompt == []<>(stack = << >>)

-----------------------------------------------------------------------------
(* The last of the commands executed at the places is, or the one given. *)
LastAmong(is, c) == IF is = {} THEN c ELSE executed[Max(is)]

(* What is set was set by the last command that gave it a value, or is     *)
(* what was detected: a command that only asks, or of whose numbers one is *)
(* missing or 0, sets nothing, and the start and size of physical memory   *)
(* always belong together, unless the size is a guess.                     *)
Start0 == Detected(Zero(machine), machine)
Guess == memory_size(machine.mem_block_size)
Numbers(c, n) == Len(c.arg) >= n /\ \A i \in 1 .. n : c.arg[i] \in Nat \ {0}
SetsId(c) == \/ c.op = "mach" /\ Numbers(c, 1)
             \/ c.op = "dtb" /\ c.arg = "good"
SetsPhys(c) == c.op = "phys" /\ Numbers(c, 2)
SetsSize(c) == SetsPhys(c) \/ (c.op = "probemem" /\ Guess # 0)
SetsRd(c) == c.op = "rdsize" /\ Numbers(c, 1)

LastId == LastAmong({i \in DOMAIN executed : SetsId(executed[i])},
                    [op |-> "mach", arg |-> <<Start0.machine_id>>])
LastPhys == LastAmong({i \in DOMAIN executed : SetsPhys(executed[i])},
                      [op |-> "phys", arg |-> <<PHYS_START, Start0.phys.size>>])
LastSize == LastAmong({i \in DOMAIN executed : SetsSize(executed[i])}, LastPhys)
LastRd == LastAmong({i \in DOMAIN executed : SetsRd(executed[i])},
                    [op |-> "rdsize", arg |-> <<0>>])

LastOneCounts ==
  pc # "start" =>
    /\ settings.machine_id = IF LastId.op = "dtb" THEN DTB_MACH_ID ELSE LastId.arg[1]
    /\ settings.phys.start = LastPhys.arg[1]
    /\ settings.phys.size = IF LastSize.op = "phys" THEN LastSize.arg[2] ELSE Guess
    /\ settings.ramdisk_size = LastRd.arg[1]
    /\ settings.break_on_entry <=> \E i \in DOMAIN executed : executed[i].op = "enterbkpt"

(* The command line is the last one that was not empty, up to the size of  *)
(* the buffer, and nothing of a longer one before it.                      *)
Text(buf) == SubSeq(buf, 1, (CHOOSE i \in DOMAIN buf :
                              buf[i] = NUL /\ \A j \in 1 .. i - 1 : buf[j] # NUL) - 1)
SetsCmdline(c) == c.op = "cmdline" /\ c.arg # << >>
LastCmdline == LastAmong({i \in DOMAIN executed : SetsCmdline(executed[i])},
                         [op |-> "cmdline", arg |-> << >>])
CmdlineWhole ==
  LET last == LastCmdline.arg IN
  /\ settings.kernel_cmdline[CmdlineSize] = NUL
  /\ Text(settings.kernel_cmdline) =
       SubSeq(last, 1, IF Len(last) < CmdlineSize THEN Len(last) ELSE CmdlineSize - 1)

(* What is guessed of the memory is enough for mem_block and the OS beside *)
(* it, and less than twice that.                                           *)
GuessFits ==
  LET used == machine.mem_block_size + APPROX_OS_SIZE * MB IN
  settings.phys.size = Guess /\ Guess # 0 /\ machine.hwtype \notin {0, 1} =>
    Guess > machine.mem_block_size + (APPROX_OS_SIZE - 1) * MB /\ Guess <= 2 * used

(* Two calculators have the same serial number only if all its fields are  *)
(* the same.                                                               *)
SerialOf == [m \in Machines |-> Detected(Zero(m), m).serialnr]
Fields == 33 .. 55 \cup 17 .. 31 \cup 9 .. 15 \cup 5 .. 7 \cup {3}
SerialKept ==
  pc # "start" => \A m \in Machines :
    (SerialOf[m] = settings.serialnr
       <=> m.raw_serial \cap Fields = machine.raw_serial \cap Fields)

=============================================================================
