---------------------------- MODULE PlatformBoot ---------------------------
(***************************************************************************)
(* Booting a kernel on one of the eight platforms, from the first          *)
(* instruction of the first CPU to the last CPU's init_later_secondary.    *)
(*                                                                         *)
(* Every CPU runs the program of its platform: the entry code, which turns *)
(* on address translation through the boot page table and moves the        *)
(* program counter and the stack to high addresses, then the kernel, which *)
(* calls init_early, may install a page table of its own built from the    *)
(* platform's memory ranges, calls init_later, and on the first CPU starts *)
(* the other CPUs.  smp-kernel waits for each CPU it has started; a kernel *)
(* that does not wait is considered too, where the boot stack is not       *)
(* passed in one shared cell.                                              *)
(*                                                                         *)
(* The addresses are real: a property fails when an access of any step is  *)
(* to a page that the CPU's current translation does not map, or maps with *)
(* the wrong attribute.                                                    *)
(***************************************************************************)
EXTENDS ArmPlatforms, OtherPlatforms

CONSTANTS Platforms,   \* the platforms to boot, a subset of DOMAIN Code
          CPU_NUM,     \* the number of CPUs
          IMAGE        \* pages of the kernel image, stacks included

Code == [virt |-> Virt, bsta |-> Bsta, phytium |-> Phytium, raspi |-> Raspi,
         arm |-> Arm, loong |-> Loong, riscv |-> Riscv, x86 |-> X86]

ASSUME PlatformsAssumption == Platforms \subseteq DOMAIN Code
ASSUME CpuNumAssumption == CPU_NUM \in 1 .. 4
ASSUME ImageAssumption == IMAGE \in Nat /\ IMAGE > CPU_NUM

CPU == 0 .. CPU_NUM - 1
None == -1

VARIABLES
    conf,      \* the machine: platform, its code, first CPU; the kernel: does it
               \* install a finer table, does it wait?
    table,     \* the boot page table
    pc,        \* pc[c]: the step CPU c is at, 0 while it is off
    at,        \* at[c]: the half of the address space c executes in
    sp,        \* sp[c]: half and page of its stack pointer
    root,      \* root[c]: the table it translates through
    own,       \* own[c]: what has been set up on c
    shared,    \* the shared cells that have been set up
    slot,      \* the cell for the boot stack: cached value, value in memory
    i,         \* the loop variable of start_secondary_cpus
    given,     \* given[c]: the stack passed to cpu_boot for c
    id,        \* id[c]: the CPU id main or secondary_main was called with
    powered

vars == <<conf, table, pc, at, sp, root, own, shared, slot, i, given, id, powered>>

Here == conf.code
Primary == conf.primary
Secondary == CPU \ {Primary}

\* The stacks are at the end of the kernel image.
StackOf(c) == Here.kernel + IMAGE - 1 - c

-----------------------------------------------------------------------------
(* The programs.                                                           *)

\* The kernel's own page table, if it has one; phys_ram_ranges of x86-pc reads
\* a cell that mem::init fills.
Remap == [Op("remap") EXCEPT !.uses = IF conf.platform = "x86" THEN {"RAM_REGIONS"} ELSE {}]
MayRemap == IF conf.fine THEN <<Remap>> ELSE <<>>

\* The platforms that pass the boot stack in one memory cell.
SharesSlot == conf.platform \in {"raspi", "loong", "x86"}

\* The CPUs that have their caches off read memory, not the cached value.
Uncached == conf.platform = "raspi"

\* start_secondary_cpus: `for i in 0..CPU_NUM`, with the call of cpu_boot and the
\* wait inside.
MayWait == IF conf.waits THEN <<Op("wait")>> ELSE <<>>
LoopBody == Here.cpu_boot \o MayWait
Loop == <<Op("for")>> \o LoopBody \o <<Op("next")>>

BeforeLoop == Here.start \o Here.early \o Here.early_use \o MayRemap
              \o Here.later \o Here.later_use

PrimaryProgram == BeforeLoop \o Loop \o <<Op("barrier"), Here.system_off>>

SecondaryProgram == Here.secondary \o <<init_trap>> \o Here.early_use \o MayRemap
                    \o Here.later_secondary \o Here.later_use

Program(c) == IF c = Primary THEN PrimaryProgram ELSE SecondaryProgram

Step(c) == Program(c)[pc[c]]
Up(c) == pc[c] > Len(Program(c))
-----------------------------------------------------------------------------
\* Any CPU may be the first one on riscv64 (the hart that wins the lottery of
\* the firmware), phytium-pi and x86-pc.  The boot loader enters the kernel at
\* its physical address, on aarch64 at EL2 or EL1.
Init == /\ \E p \in Platforms, first \in CPU, fine \in BOOLEAN, waits \in BOOLEAN :
             conf = [platform |-> p, code |-> Code[p], primary |-> first,
                     fine |-> fine, waits |-> waits]
        /\ SharesSlot => conf.waits
        /\ conf.primary # 0 => conf.platform \in {"riscv", "phytium", "x86"}
        /\ table = IF conf.platform = "x86" THEN X86PageTable ELSE {}
        /\ pc = [c \in CPU |-> IF c = Primary THEN 1 ELSE 0]
        /\ at = [c \in CPU |-> "low"]
        /\ sp = [c \in CPU |-> [half |-> "low", page |-> None]]
        /\ root = [c \in CPU |-> "none"]
        /\ own = [c \in CPU |-> IF conf.platform \in {"virt", "bsta", "phytium", "raspi"}
                                THEN {} ELSE {"kernel_mode"}]
        /\ shared = {}
        /\ slot = [cached |-> None, memory |-> None]
        /\ i = 0
        /\ given = [c \in CPU |-> None]
        /\ id = [c \in CPU |-> None]
        /\ powered = TRUE

\* CPU c takes its next step, one of the given kinds.
Does(c, ops) == /\ powered
                /\ pc[c] \in DOMAIN Program(c)
                /\ Step(c).op \in ops

Advance(c) == pc' = [pc EXCEPT ![c] = @ + 1]

\* A function of a driver or of axcpu.
Call(c) == /\ Does(c, {"call"})
           /\ own' = [own EXCEPT ![c] = @ \cup Step(c).own]
           /\ shared' = shared \cup Step(c).once \cup Step(c).sets
           /\ Advance(c)
           /\ UNCHANGED <<conf, table, at, sp, root, slot, i, given, id, powered>>

\* The first stack: BOOT_STACK, the register the firmware set, or the cell.
BootStack(c) == IF c = Primary THEN StackOf(c)
                ELSE IF ~SharesSlot THEN given[c]
                ELSE IF Uncached THEN slot.memory ELSE slot.cached

LoadStack(c) == /\ Does(c, {"sp", "sp_virt"})
                /\ sp' = [sp EXCEPT ![c] =
                            [half |-> IF Step(c).op = "sp" THEN "low" ELSE "high",
                             page |-> BootStack(c)]]
                /\ Advance(c)
                /\ UNCHANGED <<conf, table, at, root, own, shared, slot, i, given, id, powered>>

RaiseStack(c) == /\ Does(c, {"sp_high"})
                 /\ sp' = [sp EXCEPT ![c].half = "high"]
                 /\ Advance(c)
                 /\ UNCHANGED <<conf, table, at, root, own, shared, slot, i, given, id, powered>>

\* e lies within f.
Covers(f, e) == /\ f.half = e.half
                /\ f.first <= e.first
                /\ e.first + e.size <= f.first + f.size

\* init_boot_page_table, init_page_tables: new entries replace the old ones.
InitPageTable(c) == /\ Does(c, {"table"})
                    /\ table' = Step(c).map \cup
                         {e \in table : ~\E f \in Step(c).map : Covers(f, e)}
                    /\ Advance(c)
                    /\ UNCHANGED <<conf, at, sp, root, own, shared, slot, i, given, id, powered>>

init_mmu(c) == /\ Does(c, {"mmu"})
               /\ root' = [root EXCEPT ![c] = "boot"]
               /\ Advance(c)
               /\ UNCHANGED <<conf, table, at, sp, own, shared, slot, i, given, id, powered>>

Jump(c) == /\ Does(c, {"jump"})
           /\ at' = [at EXCEPT ![c] = "high"]
           /\ Advance(c)
           /\ UNCHANGED <<conf, table, sp, root, own, shared, slot, i, given, id, powered>>

\* call_main(cpu_id, arg), call_secondary_main(cpu_id): linked at high addresses.
EnterMain(c) == /\ Does(c, {"main"})
                /\ at' = [at EXCEPT ![c] = "high"]
                /\ id' = [id EXCEPT ![c] = Here.ids[c + 1]]
                /\ Advance(c)
                /\ UNCHANGED <<conf, table, sp, root, own, shared, slot, i, given, powered>>

\* The kernel switches to its own page table.
RemapKernel(c) == /\ Does(c, {"remap"})
                  /\ root' = [root EXCEPT ![c] = "kernel"]
                  /\ Advance(c)
                  /\ UNCHANGED <<conf, table, at, sp, own, shared, slot, i, given, id, powered>>

\* cpu_boot: the stack is stored in the shared cell.
StoreStack(c) == /\ Does(c, {"stack"})
                 /\ slot' = [slot EXCEPT !.cached = StackOf(i)]
                 /\ Advance(c)
                 /\ UNCHANGED <<conf, table, at, sp, root, own, shared, i, given, id, powered>>

flush_dcache_line(c) == /\ Does(c, {"clean"})
                        /\ slot' = [slot EXCEPT !.memory = slot.cached]
                        /\ Advance(c)
                        /\ UNCHANGED <<conf, table, at, sp, root, own, shared, i, given, id, powered>>

\* cpu_boot: CPU i is started at its entry.  On loongarch64 the entry is a high
\* address.
StartCpu(c) == /\ Does(c, {"release"})
               /\ given' = [given EXCEPT ![i] = StackOf(i)]
               /\ pc' = [pc EXCEPT ![c] = @ + 1, ![i] = 1]
               /\ at' = [at EXCEPT ![i] = IF conf.platform = "loong" THEN "high" ELSE "low"]
               /\ UNCHANGED <<conf, table, sp, root, own, shared, slot, i, id, powered>>

\* The kernel waits for the CPU it has just started, or at the end for all.
Wait(c) == /\ Does(c, {"wait", "barrier"})
           /\ IF Step(c).op = "wait" THEN Up(i) ELSE \A d \in Secondary : Up(d)
           /\ Advance(c)
           /\ UNCHANGED <<conf, table, at, sp, root, own, shared, slot, i, given, id, powered>>

\* The head of the loop: out of it, over the first CPU, or into the body.
For(c) == /\ Does(c, {"for"})
          /\ \/ /\ i = CPU_NUM
                /\ pc' = [pc EXCEPT ![c] = @ + Len(Loop)]
                /\ UNCHANGED i
             \/ /\ i = Primary
                /\ i' = i + 1
                /\ UNCHANGED pc
             \/ /\ i \in Secondary
                /\ Advance(c)
                /\ UNCHANGED i
          /\ UNCHANGED <<conf, table, at, sp, root, own, shared, slot, given, id, powered>>

\* The end of its body.
NextCpu(c) == /\ Does(c, {"next"})
              /\ i' = i + 1
              /\ pc' = [pc EXCEPT ![c] = @ - (Len(LoopBody) + 1)]
              /\ UNCHANGED <<conf, table, at, sp, root, own, shared, slot, given, id, powered>>

system_off(c) == /\ Does(c, {"off", "halt"})
                 /\ powered' = (Step(c).op = "halt")
                 /\ Advance(c)
                 /\ UNCHANGED <<conf, table, at, sp, root, own, shared, slot, i, given, id>>

CpuStep(c) == \/ Call(c) \/ LoadStack(c) \/ RaiseStack(c) \/ InitPageTable(c)
              \/ init_mmu(c) \/ Jump(c) \/ EnterMain(c) \/ RemapKernel(c)
              \/ StoreStack(c) \/ flush_dcache_line(c) \/ StartCpu(c)
              \/ Wait(c) \/ For(c) \/ NextCpu(c) \/ system_off(c)

Next == \E c \in CPU : CpuStep(c)

Spec == Init /\ [][Next]_vars

\* Every CPU that has been started keeps executing.
FairSpec == Spec /\ \A c \in CPU : WF_vars(CpuStep(c))
-----------------------------------------------------------------------------
(* Properties.                                                             *)

Half == {"low", "high"}

\* The machine, the boot table and what a CPU holds have their types (i, slot, own
\* and shared are not constrained here); in particular a CPU never loads a
\* stack pointer that cpu_boot has not stored (ap_start.S:48).
TypeOK == /\ conf.platform \in Platforms
          /\ Primary \in CPU
          /\ \A e \in table : e.half \in Half /\ e.attr \in {"device", "normal", "any"}
          /\ \A c \in CPU :
               /\ pc[c] \in 0 .. Len(Program(c)) + 1
               /\ at[c] \in Half
               /\ sp[c].half \in Half
               /\ pc[c] > 2 /\ conf.platform # "x86" => sp[c].page \in {StackOf(d) : d \in CPU}
               /\ id[c] # None => sp[c].page \in {StackOf(d) : d \in CPU}
               /\ root[c] \in {"none", "boot", "kernel"}
               /\ given[c] \in {None, StackOf(c)}
          /\ powered \in BOOLEAN

InRange(page, ranges) == \E r \in ranges : r[1] <= page /\ page < r[1] + r[2]

\* Can CPU c access a physical page at its address in the given half, as the
\* given kind of memory?
Mapped(c, half, page, attr) ==
    \/ root[c] = "none" /\ (half = "low" \/ conf.platform = "loong")
    \/ root[c] = "boot" /\ \E e \in table : /\ Covers(e, Entry(half, page, 1, attr))
                                            /\ e.attr \in {attr, "any"}
    \/ /\ root[c] = "kernel"
       /\ half = "high"
       /\ InRange(page, IF attr = "device" THEN Here.memory.mmio
                        ELSE Here.memory.ram \cup Here.memory.reserved)

\* No CPU ever accesses memory that is not there: its code and its stack are
\* mapped in the half it uses them, and so is every device register and page of
\* RAM the next step accesses, a device as device memory.  This includes the
\* return from init_mmu, where the old addresses must still be valid, and the
\* kernel's table, which contains what phys_ram_ranges and mmio_ranges list.
NoFault ==
    powered => \A c \in CPU : pc[c] # 0 =>
        /\ Mapped(c, at[c], Here.kernel, "normal")
        /\ sp[c].page # None => Mapped(c, sp[c].half, sp[c].page, "normal")
        /\ ~Up(c) => /\ \A d \in Step(c).dev : Mapped(c, "high", Here.dev[d], "device")
                     /\ \A p \in Step(c).ram : Mapped(c, "high", p, "normal")

\* Nothing is used before it has been set up, by this CPU or by the first one
\* for all (gic.rs:88 "It must be called after init_gic", apic.rs:44), and no
\* LazyInit cell is filled twice, however many CPUs initialize.
InitOrder ==
    powered => \A c \in CPU : pc[c] \in DOMAIN Program(c) =>
        /\ Step(c).uses \subseteq shared \cup own[c]
        /\ Step(c).once \cap shared = {}

\* What init_early may rely on (axplat/src/init.rs:19-23): main runs in kernel
\* mode, with translation on, at a high address, on a high stack, and where
\* the compiler may use FP registers they are enabled.
EntryContract ==
    \A c \in CPU : id[c] # None =>
        /\ root[c] # "none"
        /\ at[c] = "high"
        /\ sp[c].half = "high"
        /\ {"kernel_mode"} \subseteq own[c]
        /\ conf.platform # "riscv" => "fp" \in own[c]

\* Each CPU comes to main on the stack cpu_boot was given for it, although the shared
\* cell (raspi mp.rs:3, loongarch64 mp.rs:8, x86 mp.rs:31) is written again for
\* the next CPU and, on raspi, is read with the caches off.
OwnStack ==
    \A c \in CPU : id[c] # None => sp[c].page = StackOf(c)

\* The boot table is never changed under a CPU that translates through it,
\* except to map more: init_page_tables_after_mmu (arm boot.rs:76) rewrites the
\* entries it is running on.
LiveTable ==
    [][(\E c \in CPU : root[c] = "boot") =>
         \A e \in table : \E f \in table' : Covers(f, e) /\ f.attr = e.attr]_vars

\* cpu_boot and init.rs:14 give CPUs logical ids 0, 1, ..., N-1: main and
\* secondary_main are called with the id that cpu_boot was called with.
LogicalId == \A c \in CPU : id[c] # None => id[c] = c

\* Every CPU comes up and the machine is shut down, whoever is the first CPU.
Completes == <>(\A c \in CPU : Up(c))
=============================================================================
