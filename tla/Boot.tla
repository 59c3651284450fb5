-------------------------------- MODULE Boot --------------------------------
(***************************************************************************)
(* From power-on to the first thread: the boot sector reads the image      *)
(* (mbr.S), the first core finds out what machine this is (config.cc),     *)
(* initialises everything shared, and starts the others one by one; each   *)
(* goes through one temporary stack that all have in common, and the last  *)
(* to arrive creates the first thread (init.cc, smp.cc, pit.cc).           *)
(*                                                                         *)
(* The machine is a record: cores are its APIC numbers, table the entries  *)
(* of the MADT, behind what memory holds after them, sectors the size of   *)
(* the disk, rsd where the BIOS put its root pointer, below and above its  *)
(* megabytes of memory up to and from the sixteenth, and answer the pairs  *)
(* of registers in which the BIOS returns them.                            *)
(***************************************************************************)
EXTENDS Integers, Sequences, FiniteSets

CONSTANTS Machines,      \* the machines it may be started on
          Ids,           \* all APIC numbers
          Slots,         \* memory that a segment can address, in sectors: 2048
          MbrSlot,       \* where the BIOS puts the boot sector: 0x7c00, slot 62
          KernelSectors, \* sectors of the linked kernel behind the boot sector
          WordSize       \* 2^16, of the register that counts sectors

Entry == [type : Nat, processor : Nat]

ASSUME BootAssumption ==
  /\ 0 \in Ids /\ Ids \subseteq Nat
  /\ {Slots, MbrSlot, KernelSectors, WordSize} \subseteq Nat \ {0}
  /\ MbrSlot + KernelSectors < Slots
  /\ \A m \in Machines : 0 \in m.cores /\ m.cores \subseteq Ids

\* The table has the base processor, and each processor once; the BIOS answers
\* in one pair of registers or in both; the segment is no larger than the count.
ASSUME MachineAssumption ==
  /\ \A m \in Machines :
       /\ m.behind \in Entry /\ m.table \in Seq(Entry) /\ m.table # <<>>
       /\ \A i, j \in DOMAIN m.table :
            m.table[i].type = 0 /\ m.table[j] = m.table[i] => i = j
       /\ {m.below, m.above} \subseteq Nat
       /\ m.answer \in (SUBSET {"ax", "cx"}) \ {{}}
  /\ Slots <= WordSize

VARIABLES machine,
          memory,       \* memory[s]: the sector in slot s, or Loader, or Unread
          cx, di, bp,   \* the registers of the boot sector's loop
          at,           \* at[c]: where core c is
          stack,        \* stack[c]: NoStack, TempStack, or the number of a boot stack
          did,          \* the initialisations that the first core has made
          entry,        \* config.cc: entries of the table that are behind us
          kConfig,      \* the configuration that was found
          running,      \* SMP::running
          id,           \* the core that the first core is starting
          enabled,      \* the cores whose memory, timer and TSS are set up
          howMany,      \* howManyAreHere
          order,        \* order[c]: myOrder of core c
          created       \* the cores that created the first thread

disk == <<memory, cx, di, bp>>
config == <<entry, kConfig>>
cores == <<running, id, enabled, howMany, order, created>>
vars == <<machine, disk, at, stack, did, config, cores>>

Unread == -1   \* what the BIOS left in a slot
Loader == -2   \* the boot sector that runs

NoStack == -1
TempStack == -2

Init == /\ machine \in Machines
        /\ memory = [s \in 0..(Slots - 1) |-> IF s = MbrSlot THEN Loader ELSE Unread]
        /\ cx = 0 /\ di = 0 /\ bp = 0
        /\ at = [c \in Ids |-> IF c = 0 THEN "mbr" ELSE "off"]
        /\ stack = [c \in Ids |-> NoStack]
        /\ did = {}
        /\ entry = 0
        /\ kConfig = [memSize |-> 0, others |-> <<>>, total |-> 0]
        /\ running = 0 /\ id = 0 /\ enabled = {} /\ howMany = 0
        /\ order = [c \in Ids |-> 0]
        /\ created = {}

Goto(c, here, there) == at[c] = here /\ at' = [at EXCEPT ![c] = there]

-----------------------------------------------------------------------------
(* mbr.S: the boot sector reads every other sector of the disk behind      *)
(* itself.                                                                 *)

\* Mutant: the first sector to read is the boot sector.
ReadParametersFromZero ==
  /\ Goto(0, "mbr", "load")
  /\ cx' = machine.sectors % WordSize
  /\ di' = MbrSlot + 1
  /\ bp' = 0
  /\ UNCHANGED <<machine, memory, stack, did, config, cores>>

\* The low word of the sector count, and where the first sector goes.
ReadParameters ==
  /\ Goto(0, "mbr", "load")
  /\ cx' = machine.sectors % WordSize
  /\ di' = MbrSlot + 1
  /\ bp' = 1
  /\ UNCHANGED <<machine, memory, stack, did, config, cores>>

\* One sector is counted before each read, which stands for the boot sector.
\* If the loop overwrites itself, nothing is known of what follows.
ReadSector ==
  /\ at[0] = "load"
  /\ memory[MbrSlot] = Loader
  /\ cx # 1
  /\ cx' = (cx - 1) % WordSize
  /\ memory' = [memory EXCEPT ![di] = bp]
  /\ di' = (di + 1) % Slots
  /\ bp' = bp + 1
  /\ UNCHANGED <<machine, at, stack, did, config, cores>>

\* e801, then the jump to 0x8000, the sector behind the first one read.
JumpToKernel ==
  /\ Goto(0, "load", "reset")
  /\ memory[MbrSlot] = Loader
  /\ cx = 1
  /\ UNCHANGED <<machine, disk, stack, did, config, cores>>

-----------------------------------------------------------------------------
(* mbr.S from resetEIP: every core, with interrupts off, comes here.       *)

\* Descriptor tables, protected mode, and a stack that is there for all.
EnterProtectedMode(c) ==
  /\ Goto(c, "reset", "pick")
  /\ stack' = [stack EXCEPT ![c] = TempStack]
  /\ UNCHANGED <<machine, disk, did, config, cores>>

\* Mutant: the first core's boot stack is not told from the others'.
PickFirstStack(c) ==
  /\ Goto(c, "pick", "kernelInit")
  /\ stack' = [stack EXCEPT ![c] = 0]
  /\ UNCHANGED <<machine, disk, did, config, cores>>

\* The number of the core is known when the APIC registers are.
PickKernelStack(c) ==
  /\ Goto(c, "pick", "kernelInit")
  /\ stack' = [stack EXCEPT ![c] = IF "smpInitDone" \in did THEN c ELSE 0]
  /\ UNCHANGED <<machine, disk, did, config, cores>>

KernelInit(c) ==
  /\ Goto(c, "kernelInit", IF "smpInitDone" \in did THEN "join" ELSE "debug")
  /\ UNCHANGED <<machine, disk, stack, did, config, cores>>

-----------------------------------------------------------------------------
(* config.cc *)

\* What e801 left in ax and bx, or in cx and dx: both alike, or one 0.
Answer(pair) == [below |-> IF pair \in machine.answer THEN machine.below ELSE 0,
                 above |-> IF pair \in machine.answer THEN machine.above ELSE 0]

\* The bitwise or of two numbers that are equal, or one of which is 0.
Or(m, n) == IF m = 0 THEN n ELSE m

\* Mutant: the two answers are added.
MemAbove1MTwice == Answer("ax").below + Answer("cx").below
                   + Answer("ax").above + Answer("cx").above

MemAbove1M == Or(Answer("ax").below, Answer("cx").below)
              + Or(Answer("ax").above, Answer("cx").above)

\* The assertion of memAbove1M().
AnswerAsserted == Answer("cx").below = 15 \/ Answer("cx").above = 0

\* findRSD() looks in the ROM and then in the extended BIOS data area.
FindRSD == IF "rom" \in machine.rsd THEN "rom"
           ELSE IF "ebda" \in machine.rsd THEN "ebda" ELSE "none"

DebugInit ==
  /\ Goto(0, "debug", "tables")
  /\ did' = did \cup {"debug"}
  /\ UNCHANGED <<machine, disk, stack, config, cores>>

\* configInit() up to its loop; there is no way on without the tables.
FindTables ==
  /\ Goto(0, "tables", "entries")
  /\ AnswerAsserted
  /\ FindRSD # "none"
  /\ kConfig' = [kConfig EXCEPT !.memSize = MemAbove1M + 1]
  /\ UNCHANGED <<machine, disk, stack, did, entry, cores>>

EntryAt(n) == IF n <= Len(machine.table) THEN machine.table[n] ELSE machine.behind

\* Mutant: what is not a processor is taken for one.
ReadEntryOfAny ==
  /\ at[0] = "entries"
  /\ entry < Len(machine.table)
  /\ entry' = entry + 1
  /\ kConfig' = IF EntryAt(entry + 2).processor # 0
                THEN [kConfig EXCEPT !.others = Append(@, EntryAt(entry + 2).processor)]
                ELSE kConfig
  /\ UNCHANGED <<machine, disk, at, stack, did, cores>>

\* One turn of the loop: it steps over an entry before it looks, so that it
\* sees all but the first, and what lies behind the last.
ReadEntry ==
  /\ at[0] = "entries"
  /\ entry < Len(machine.table)
  /\ entry' = entry + 1
  /\ LET e == EntryAt(entry + 2)
     IN  kConfig' = IF e.type = 0 /\ e.processor # 0
                    THEN [kConfig EXCEPT !.others = Append(@, e.processor)] ELSE kConfig
  /\ UNCHANGED <<machine, disk, at, stack, did, cores>>

ConfigDone ==
  /\ Goto(0, "entries", "heap")
  /\ entry = Len(machine.table)
  /\ kConfig' = [kConfig EXCEPT !.total = Len(kConfig.others) + 1]
  /\ did' = did \cup {"config"}
  /\ UNCHANGED <<machine, disk, stack, entry, cores>>

-----------------------------------------------------------------------------
(* The first core's way through kernelInit() *)

\* Mutant: the flag is set before the APIC registers are known.
InitOrderFlagFirst == <<"heap", "uart", "frames", "vmm", "constructors", "calls", "threads",
                        "smpInitDone", "lapic", "calibrate", "run">>

\* What is initialised at a label, and the label that follows.
InitOrder == <<"heap", "uart", "frames", "vmm", "constructors", "calls", "threads",
               "lapic", "smpInitDone", "calibrate", "run">>

Following(step) ==
  InitOrder[1 + (CHOOSE n \in 1..(Len(InitOrder) - 1) : InitOrder[n] = step)]

InitStep(step) ==
  /\ Goto(0, step, Following(step))
  /\ did' = did \cup {step}
  /\ UNCHANGED <<machine, disk, stack, config, cores>>

CountFirst ==
  /\ Goto(0, "run", "start")
  /\ running' = running + 1
  /\ id' = 1
  /\ UNCHANGED <<machine, disk, stack, did, config, enabled, howMany, order, created>>

\* SMP::ipi() twice: INIT, and start-up at the page of resetEIP.
StartNext ==
  /\ at[0] = "start"
  /\ id < kConfig.total
  /\ at' = [c \in Ids |-> IF c = 0 THEN "wait"
                          ELSE IF c = id /\ c \in machine.cores THEN "reset" ELSE at[c]]
  /\ UNCHANGED <<machine, disk, stack, did, config, cores>>

\* Mutant: the count is compared as if the first core were not in it.
WaitRunningTooShort ==
  /\ Goto(0, "wait", "start")
  /\ running >= id
  /\ id' = id + 1
  /\ UNCHANGED <<machine, disk, stack, did, config, running, enabled, howMany, order, created>>

\* while (SMP::running <= id); the core that was started counts itself when
\* it has left the temporary stack.
WaitRunning ==
  /\ Goto(0, "wait", "start")
  /\ running > id
  /\ id' = id + 1
  /\ UNCHANGED <<machine, disk, stack, did, config, running, enabled, howMany, order, created>>

AllStarted ==
  /\ Goto(0, "start", "percore")
  /\ id >= kConfig.total
  /\ UNCHANGED <<machine, disk, stack, did, config, cores>>

-----------------------------------------------------------------------------
(* The others, and what all have in common *)

\* Mutant: the core does not count itself.
JoinUncounted(c) ==
  /\ Goto(c, "join", "percore")
  /\ UNCHANGED <<machine, disk, stack, did, config, cores>>

\* running.fetch_add(1), then SMP::init(false).
Join(c) ==
  /\ Goto(c, "join", "percore")
  /\ running' = running + 1
  /\ UNCHANGED <<machine, disk, stack, did, config, id, enabled, howMany, order, created>>

\* per_core_init(): the page directory of the core's idle thread.
PerCoreInit(c) ==
  /\ Goto(c, "percore", "timer")
  /\ UNCHANGED <<machine, disk, stack, did, config, cores>>

\* Pit::init() panics when the timer has not been calibrated.
PitInit(c) ==
  /\ Goto(c, "timer", IF "calibrate" \in did THEN "tss" ELSE "panic")
  /\ UNCHANGED <<machine, disk, stack, did, config, cores>>

\* The task state, and interrupts.
Enable(c) ==
  /\ Goto(c, "tss", "arrive")
  /\ enabled' = enabled \cup {c}
  /\ UNCHANGED <<machine, disk, stack, did, config, running, id, howMany, order, created>>

\* howManyAreHere.add_fetch(1)
Arrive(c) ==
  /\ Goto(c, "arrive", "look")
  /\ howMany' = howMany + 1
  /\ order' = [order EXCEPT ![c] = howMany + 1]
  /\ UNCHANGED <<machine, disk, stack, did, config, running, id, enabled, created>>

\* Mutant: the shared counter is looked at, not the own place in the order.
LookAtCounter(c) ==
  /\ Goto(c, "look", "stop")
  /\ created' = IF howMany = kConfig.total THEN created \cup {c} ELSE created
  /\ UNCHANGED <<machine, disk, stack, did, config, running, id, enabled, howMany, order>>

\* The last to arrive creates the process and the thread.
Look(c) ==
  /\ Goto(c, "look", "stop")
  /\ created' = IF order[c] = kConfig.total THEN created \cup {c} ELSE created
  /\ UNCHANGED <<machine, disk, stack, did, config, running, id, enabled, howMany, order>>

First == \/ ReadParameters \/ ReadSector \/ JumpToKernel
         \/ DebugInit \/ FindTables \/ ReadEntry \/ ConfigDone
         \/ \E n \in 1..(Len(InitOrder) - 1) : InitStep(InitOrder[n])
         \/ CountFirst \/ StartNext \/ WaitRunning \/ AllStarted

Every(c) == \/ EnterProtectedMode(c) \/ PickKernelStack(c) \/ KernelInit(c) \/ Join(c)
            \/ PerCoreInit(c) \/ PitInit(c) \/ Enable(c) \/ Arrive(c) \/ Look(c)

Next == First \/ \E c \in Ids : Every(c)

\* Every core runs.
Spec == Init /\ [][Next]_vars /\ WF_vars(First) /\ \A c \in Ids : WF_vars(Every(c))

-----------------------------------------------------------------------------
(* When the boot sector jumps, the kernel lies where it was linked to, and *)
(* what the BIOS keeps below it is as it was; this takes a disk that ends  *)
(* before the memory that a segment can address does, and not the 32 MB    *)
(* that the comment in mbr.S speaks of.                                    *)
KernelInPlace ==
  at[0] \notin {"mbr", "load"} /\ machine.sectors \in (KernelSectors + 1)..(Slots - MbrSlot) =>
    /\ \A n \in 1..KernelSectors : memory[MbrSlot + n] = n
    /\ \A s \in 0..(MbrSlot - 1) : memory[s] = Unread

(* No core runs on a stack that another is using: neither on the temporary *)
(* one, which all of them enter on, nor on a boot stack.                   *)
StacksExclusive ==
  \A c, d \in Ids : stack[c] # NoStack /\ stack[c] = stack[d] => c = d

\* What a core uses at a label.
Uses(label) ==
  CASE label = "uart"         -> {"heap"}
    [] label = "frames"       -> {"config"}
    [] label = "vmm"          -> {"config", "frames"}
    [] label = "constructors" -> {"heap", "vmm"}
    [] label = "threads"      -> {"config", "heap", "constructors"}
    [] label = "lapic"        -> {"config"}
    [] label = "smpInitDone"  -> {"lapic"}
    [] label = "calibrate"    -> {"heap", "lapic"}
    [] label \in {"start", "wait", "join"} -> {"config", "lapic"}
    [] label = "percore"      -> {"threads", "vmm"}
    [] label \in {"timer", "tss"} -> {"calibrate", "lapic"}
    [] label = "arrive"       -> {"calls", "threads", "vmm", "calibrate"}
    [] label \in {"look", "stop"} -> {"config", "heap", "uart", "threads", "constructors"}
    [] OTHER                  -> {}

(* No core uses anything shared before the first core has initialised it,  *)
(* and the timer does not panic.                                           *)
InitialisedBeforeUse ==
  \A c \in Ids : at[c] # "panic" /\ Uses(at[c]) \subseteq did

\* The processors that the table lists, and those that are found.
Listed == {machine.table[n].processor :
             n \in {m \in DOMAIN machine.table : machine.table[m].type = 0}}
Found == {0} \cup {kConfig.others[n] : n \in DOMAIN kConfig.others}

\* The one whose entry is first, and one that the bytes behind the table look like.
Skipped == IF machine.table[1].type = 0 THEN {machine.table[1].processor} ELSE {}
Stray == IF machine.behind.type = 0 THEN {machine.behind.processor} \ {0} ELSE {}

(* The size of memory is found in whichever registers the BIOS returns it. *)
(* Processor 0 is found and every one that the table lists, each once, and *)
(* none else: but the one that the table begins with is found only if it   *)
(* is 0, since it is stepped over, and what lies behind the table is found *)
(* too if it looks like a processor, even one that has been counted.       *)
ConfigurationFound ==
  "config" \in did =>
    /\ kConfig.memSize = 1 + machine.below + machine.above
    /\ Found = {0} \cup (Listed \ Skipped) \cup Stray
    /\ kConfig.total = Cardinality({0} \cup (Listed \ Skipped)) + Cardinality(Stray)

(* The first thread is created by one core only, and when every core that  *)
(* is counted on has its memory, timer and TSS.                            *)
FirstThreadOnce ==
  /\ Cardinality(created) <= 1
  /\ created # {} => Cardinality(enabled) = kConfig.total

(* When the processors counted are there and numbered from 0, all of them  *)
(* get to their idle loops and the first thread is created.                *)
AllArrive ==
  (at[0] = "heap" /\ 0..(kConfig.total - 1) \subseteq machine.cores) ~>
  (created # {} /\ \A c \in 0..(kConfig.total - 1) : at[c] = "stop")
=============================================================================
