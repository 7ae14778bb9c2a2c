------------------------- MODULE PlatformBootProofs -------------------------
(***************************************************************************)
(* Proofs about booting the eight platforms, with one to four CPUs, for    *)
(* every size of the kernel image (NoFaults: every size that fits) and     *)
(* every interleaving of the CPUs.                                         *)
(*                                                                         *)
(* Three parts are about the programs alone: of which kinds of steps the   *)
(* code of each platform is made, in which order the entry code does what  *)
(* main relies on, and how cpu_boot passes the stack (CodeIsFit); in which *)
(* order the programs fill and use the cells (CodeInOrder); and what they  *)
(* access, and what their page tables map (CodeIsLaidOut).  The rest       *)
(* locates a CPU in its program and proves the invariants, and uses of the *)
(* programs only what these three lemmas and ArmTables say.                *)
(***************************************************************************)
EXTENDS PlatformBoot, SequenceTheorems, TLAPS

-----------------------------------------------------------------------------
(* What the programs are made of.                                          *)

TableEntry == [half : Half, first : Nat, size : Nat, attr : {"device", "normal", "any"}]

Cells == SUBSET {"kernel_mode", "fp", "trap", "irqs", "timer", "UART", "uart_handler", "RATIO",
                 "GIC", "TRAP_OP", "PSCI_METHOD", "NANOS_PER_TICK", "COM1", "INIT_TICK",
                 "RAM_REGIONS", "IO_APIC", "LOCAL_APIC", "LAPIC_RATIO"}
Devices == SUBSET {"uart", "rtc", "gicd", "gicc", "topcrm", "safetycrm", "ged", "lapic", "ioapic"}
Pages == SUBSET Nat
EntryOps == {"call", "sp", "sp_virt", "sp_high", "table", "mmu", "jump", "main"}
AllOps == EntryOps \cup {"remap", "for", "stack", "clean", "release", "wait", "next", "barrier",
                         "off", "halt"}

StepType == [op : AllOps, uses : Cells, once : Cells, sets : Cells, own : Cells,
             dev : Devices, ram : Pages, map : SUBSET TableEntry]

StepOf(ops) == {s \in StepType : s.op \in ops}

Calls == StepOf({"call"})

\* The functions of the shared drivers are calls.
LEMMA DriverCalls ==
  {switch_to_el1, enable_fp, init_trap, pl011_init_early, psci_init, generic_timer_init_early,
   pl031_init_early, init_gic, init_gicc, enable_irqs, register_handler, pl011_write_bytes,
   generic_timer_ticks_to_nanos, gic_handle_irq, gic_send_ipi} \subseteq Calls
<1> USE DEF Plain, Calls, StepOf, StepType, Cells, Devices, Pages, AllOps, EntryOps
<1>1. switch_to_el1 \in Calls /\ enable_fp \in Calls /\ init_trap \in Calls
  BY DEF switch_to_el1, enable_fp, init_trap
<1>2. pl011_init_early \in Calls /\ psci_init \in Calls /\ generic_timer_init_early \in Calls
  BY DEF pl011_init_early, psci_init, generic_timer_init_early
<1>3. pl031_init_early \in Calls /\ init_gic \in Calls /\ init_gicc \in Calls
  BY DEF pl031_init_early, init_gic, init_gicc
<1>4. enable_irqs \in Calls /\ register_handler \in Calls /\ pl011_write_bytes \in Calls
  BY DEF enable_irqs, register_handler, pl011_write_bytes
<1>5. generic_timer_ticks_to_nanos \in Calls /\ gic_handle_irq \in Calls /\ gic_send_ipi \in Calls
  BY DEF generic_timer_ticks_to_nanos, gic_handle_irq, gic_send_ipi
<1> HIDE DEF Plain, Calls, StepOf, StepType, Cells, Devices, Pages, AllOps, EntryOps
<1> QED
  BY <1>1, <1>2, <1>3, <1>4, <1>5

\* So are those of the platforms' own drivers.
LEMMA BstaCalls ==
  {dw_uart_init_early, dw_uart_init_irq, dw_uart_write_bytes, get_bootmode, reset_qspi}
   \subseteq Calls
<1> USE DEF Plain, Calls, StepOf, StepType, Cells, Devices, Pages, AllOps, EntryOps
<1>1. dw_uart_init_early \in Calls /\ dw_uart_init_irq \in Calls /\ dw_uart_write_bytes \in Calls
  BY DEF dw_uart_init_early, dw_uart_init_irq, dw_uart_write_bytes
<1>2. get_bootmode \in Calls /\ reset_qspi \in Calls
  BY DEF get_bootmode, reset_qspi
<1> HIDE DEF Plain, Calls, StepOf, StepType, Cells, Devices, Pages, AllOps, EntryOps
<1> QED
  BY <1>1, <1>2

LEMMA LoongCalls ==
  {LoongTimeInitEarly, LoongInitRtc, LoongTimeInitPercpu, LoongEnableIpi, LoongWriteBytes,
   LoongTicksToNanos, LoongHandleIrq} \subseteq Calls
<1> USE DEF Plain, Calls, StepOf, StepType, Cells, Devices, Pages, AllOps, EntryOps
<1>1. LoongTimeInitEarly \in Calls /\ LoongInitRtc \in Calls /\ LoongTimeInitPercpu \in Calls
  BY DEF LoongTimeInitEarly, LoongInitRtc, LoongTimeInitPercpu
<1>2. LoongEnableIpi \in Calls /\ LoongWriteBytes \in Calls /\ LoongTicksToNanos \in Calls
  BY DEF LoongEnableIpi, LoongWriteBytes, LoongTicksToNanos
<1>3. LoongHandleIrq \in Calls
  BY DEF LoongHandleIrq
<1> HIDE DEF Plain, Calls, StepOf, StepType, Cells, Devices, Pages, AllOps, EntryOps
<1> QED
  BY <1>1, <1>2, <1>3

LEMMA RiscvCalls ==
  {RiscvTimeInitEarly, RiscvIrqInitPercpu, RiscvTimeInitPercpu, RiscvHandleIrq} \subseteq Calls
<1> USE DEF Plain, Calls, StepOf, StepType, Cells, Devices, Pages, AllOps, EntryOps
<1>1. RiscvTimeInitEarly \in Calls /\ RiscvIrqInitPercpu \in Calls /\ RiscvTimeInitPercpu \in Calls
  BY DEF RiscvTimeInitEarly, RiscvIrqInitPercpu, RiscvTimeInitPercpu
<1>2. RiscvHandleIrq \in Calls
  BY DEF RiscvHandleIrq
<1> HIDE DEF Plain, Calls, StepOf, StepType, Cells, Devices, Pages, AllOps, EntryOps
<1> QED
  BY <1>1, <1>2

LEMMA X86Calls ==
  {X86ConsoleInit, X86TimeInitEarly, X86ApicInitPrimary, X86TimeInitPrimary,
   X86ApicInitSecondary, X86TimeInitSecondary, X86WriteBytes, X86CurrentTicks,
   X86SetOneshotTimer, X86SetEnable, X86MemInit} \subseteq Calls
<1>m. {\h9} \in Pages
  BY DEF Pages
<1>n. X86MemInit \in Calls
  BY <1>m DEF X86MemInit, Plain, Calls, StepOf, StepType, Cells, Devices, AllOps, EntryOps
<1> USE DEF Plain, Calls, StepOf, StepType, Cells, Devices, Pages, AllOps, EntryOps
<1>1. X86ConsoleInit \in Calls /\ X86TimeInitEarly \in Calls /\ X86ApicInitPrimary \in Calls
  BY DEF X86ConsoleInit, X86TimeInitEarly, X86ApicInitPrimary
<1>2. X86TimeInitPrimary \in Calls /\ X86ApicInitSecondary \in Calls /\ X86TimeInitSecondary \in Calls
  BY DEF X86TimeInitPrimary, X86ApicInitSecondary, X86TimeInitSecondary
<1>3. X86WriteBytes \in Calls /\ X86CurrentTicks \in Calls /\ X86SetOneshotTimer \in Calls
  BY DEF X86WriteBytes, X86CurrentTicks, X86SetOneshotTimer
<1>4. X86SetEnable \in Calls
  BY DEF X86SetEnable
<1> HIDE DEF Plain, Calls, StepOf, StepType, Cells, Devices, Pages, AllOps, EntryOps
<1> QED
  BY <1>1, <1>2, <1>3, <1>4, <1>n

\* The steps of assembly code.
LEMMA CodeSteps ==
  /\ SetStack \in StepOf({"sp"}) /\ Op("sp_virt") \in StepOf({"sp_virt"})
  /\ InitMmu \in StepOf({"mmu"}) /\ JumpHigh \in StepOf({"jump"})
  /\ StackHigh \in StepOf({"sp_high"}) /\ CallMain \in StepOf({"main"})
  /\ PassStack \in StepOf({"stack"}) /\ CleanStack \in StepOf({"clean"})
  /\ Release \in StepOf({"release"})
BY DEF SetStack, InitMmu, JumpHigh, StackHigh, CallMain, PassStack, CleanStack, Release,
       Op, Plain, StepOf, StepType, Cells, Devices, Pages, AllOps, EntryOps

\* The steps of the kernel.
LEMMA KernelSteps ==
  ASSUME NEW n \in {"remap", "for", "next", "wait", "barrier"}
  PROVE  Op(n) \in StepOf({n})
BY DEF Op, Plain, StepOf, StepType, Cells, Devices, Pages, AllOps, EntryOps

\* A step that writes a table carries the entries it writes.
LEMMA TableSteps ==
  ASSUME NEW entries \in SUBSET TableEntry
  PROVE  WriteTable(entries) \in StepOf({"table"}) /\ WriteTable(entries).map = entries
BY DEF WriteTable, Op, Plain, StepOf, StepType, Cells, Devices, Pages, AllOps, EntryOps

LEMMA Blocks ==
  ASSUME NEW n \in Nat, NEW attr \in {"device", "normal"}
  PROVE  Block(n, attr) \subseteq TableEntry
BY DEF Block, Entry, GB, TableEntry, Half

\* The boot page tables consist of entries.
LEMMA Tables ==
  /\ VirtPageTable \in StepOf({"table"}) /\ BstaPageTable \in StepOf({"table"})
  /\ PhytiumPageTable \in StepOf({"table"}) /\ RaspiPageTable \in StepOf({"table"})
  /\ ArmPageTable \in StepOf({"table"}) /\ ArmPageTableAfterMmu \in StepOf({"table"})
  /\ LoongPageTable \in StepOf({"table"}) /\ RiscvPageTable \in StepOf({"table"})
  /\ X86PageTable \subseteq TableEntry
<1>1. \A n \in 0 .. 3 : Block(n, "device") \subseteq TableEntry /\ Block(n, "normal") \subseteq TableEntry
  BY Blocks
<1>2. /\ VirtPageTable \in StepOf({"table"}) /\ BstaPageTable \in StepOf({"table"})
      /\ PhytiumPageTable \in StepOf({"table"}) /\ RaspiPageTable \in StepOf({"table"})
      /\ LoongPageTable \in StepOf({"table"})
  BY <1>1, TableSteps DEF VirtPageTable, BstaPageTable, PhytiumPageTable, RaspiPageTable, LoongPageTable
<1>3. {Entry(h, \h40000, \h400, "normal") : h \in {"low", "high"}} \subseteq TableEntry
  BY DEF Entry, TableEntry, Half
<1>4. {Entry("high", 0, GB, "device"), Entry("high", GB, GB, "normal")} \subseteq TableEntry
  BY DEF Entry, TableEntry, Half, GB
<1>5. {Entry(h, n * GB, GB, "any") : h \in {"low", "high"}, n \in {0, 2}} \subseteq TableEntry
  BY DEF Entry, TableEntry, Half, GB
<1>6. X86PageTable \subseteq TableEntry
  BY DEF X86PageTable, Entry, TableEntry, Half, GB
<1> QED
  BY <1>2, <1>3, <1>4, <1>5, <1>6, TableSteps DEF ArmPageTable, ArmPageTableAfterMmu, RiscvPageTable

-----------------------------------------------------------------------------
(* What the entry code does before main, on each platform.                 *)

SetsStack(s) == s.op \in {"sp", "sp_virt"}

\* The platforms that may be entered at EL2.
MaybeEL2 == {"virt", "bsta", "phytium", "raspi"}

\* main is the last step of s; before it the stack pointer is loaded and then
\* high, translation is turned on, and the CPU is in kernel mode with its FP
\* registers enabled.
Ready(p, s) ==
    /\ Len(s) \in Nat \ {0}
    /\ \A k \in 1 .. Len(s) : s[k].op = "main" <=> k = Len(s)
    /\ p # "x86" => SetsStack(s[1])
    /\ \E k \in 1 .. Len(s) - 1 : SetsStack(s[k])
    /\ \E k \in 1 .. Len(s) - 1 : s[k].op = "mmu"
    /\ \E k \in 1 .. Len(s) - 1 :
         /\ s[k].op \in {"sp_high", "sp_virt"}
         /\ \A l \in k + 1 .. Len(s) : s[l].op # "sp"
    /\ p \in MaybeEL2 => \E k \in 1 .. Len(s) - 1 : s[k].op = "call" /\ "kernel_mode" \in s[k].own
    /\ p # "riscv" => \E k \in 1 .. Len(s) - 1 : s[k].op = "call" /\ "fp" \in s[k].own

\* The boot table is written before translation is turned on.
TableFirst(s) ==
    \A k \in 1 .. Len(s) : s[k].op = "table" => \A l \in 1 .. k - 1 : s[l].op # "mmu"

\* The kinds of the steps of the entry code.
LEMMA Kinds ==
  /\ SetStack.op = "sp" /\ Op("sp_virt").op = "sp_virt" /\ InitMmu.op = "mmu"
  /\ JumpHigh.op = "jump" /\ StackHigh.op = "sp_high" /\ CallMain.op = "main"
  /\ switch_to_el1.op = "call" /\ "kernel_mode" \in switch_to_el1.own
  /\ enable_fp.op = "call" /\ "fp" \in enable_fp.own
BY DEF SetStack, InitMmu, JumpHigh, StackHigh, CallMain, switch_to_el1, enable_fp, Op, Plain

LEMMA TableKinds ==
  \A s \in {VirtPageTable, BstaPageTable, PhytiumPageTable, RaspiPageTable, ArmPageTable,
            ArmPageTableAfterMmu, LoongPageTable, RiscvPageTable} : s.op = "table"
BY Tables DEF StepOf

\* The entry code of each platform, of the first CPU and of the others.
LEMMA VirtStartReady ==
  VirtStart \in Seq(StepOf(EntryOps)) /\ Ready("virt", VirtStart) /\ TableFirst(VirtStart)
<1>1. /\ Len(VirtStart) = 7 /\ VirtStart[1] = SetStack /\ VirtStart[2] = switch_to_el1
      /\ VirtStart[3] = enable_fp /\ VirtStart[4] = VirtPageTable /\ VirtStart[5] = InitMmu
      /\ VirtStart[6] = StackHigh /\ VirtStart[7] = CallMain
  BY DEF VirtStart
<1>2. {SetStack, switch_to_el1, enable_fp, VirtPageTable, InitMmu, StackHigh, CallMain} \subseteq StepOf(EntryOps)
  BY CodeSteps, DriverCalls, Tables DEF StepOf, Calls, EntryOps
<1>3. VirtStart \in Seq(StepOf(EntryOps))
  BY <1>2 DEF VirtStart
<1> QED
  BY <1>1, <1>3, Kinds, TableKinds DEF Ready, TableFirst, SetsStack, MaybeEL2

LEMMA VirtStartSecondaryReady ==
  VirtStartSecondary \in Seq(StepOf(EntryOps \ {"table"})) /\ Ready("virt", VirtStartSecondary)
<1>1. /\ Len(VirtStartSecondary) = 6 /\ VirtStartSecondary[1] = SetStack
      /\ VirtStartSecondary[2] = switch_to_el1 /\ VirtStartSecondary[3] = enable_fp
      /\ VirtStartSecondary[4] = InitMmu /\ VirtStartSecondary[5] = StackHigh
      /\ VirtStartSecondary[6] = CallMain
  BY DEF VirtStartSecondary
<1>2. {SetStack, switch_to_el1, enable_fp, InitMmu, StackHigh, CallMain} \subseteq StepOf(EntryOps \ {"table"})
  BY CodeSteps, DriverCalls, Tables DEF StepOf, Calls, EntryOps
<1>3. VirtStartSecondary \in Seq(StepOf(EntryOps \ {"table"}))
  BY <1>2 DEF VirtStartSecondary
<1> QED
  BY <1>1, <1>3, Kinds DEF Ready, TableFirst, SetsStack, MaybeEL2

LEMMA BstaStartReady ==
  BstaStart \in Seq(StepOf(EntryOps)) /\ Ready("bsta", BstaStart) /\ TableFirst(BstaStart)
<1>1. /\ Len(BstaStart) = 7 /\ BstaStart[1] = SetStack /\ BstaStart[2] = switch_to_el1
      /\ BstaStart[3] = enable_fp /\ BstaStart[4] = BstaPageTable /\ BstaStart[5] = InitMmu
      /\ BstaStart[6] = StackHigh /\ BstaStart[7] = CallMain
  BY DEF BstaStart
<1>2. {SetStack, switch_to_el1, enable_fp, BstaPageTable, InitMmu, StackHigh, CallMain} \subseteq StepOf(EntryOps)
  BY CodeSteps, DriverCalls, Tables DEF StepOf, Calls, EntryOps
<1>3. BstaStart \in Seq(StepOf(EntryOps))
  BY <1>2 DEF BstaStart
<1> QED
  BY <1>1, <1>3, Kinds, TableKinds DEF Ready, TableFirst, SetsStack, MaybeEL2

LEMMA BstaStartSecondaryReady ==
  BstaStartSecondary \in Seq(StepOf(EntryOps \ {"table"})) /\ Ready("bsta", BstaStartSecondary)
<1>1. /\ Len(BstaStartSecondary) = 6 /\ BstaStartSecondary[1] = SetStack
      /\ BstaStartSecondary[2] = switch_to_el1 /\ BstaStartSecondary[3] = InitMmu
      /\ BstaStartSecondary[4] = enable_fp /\ BstaStartSecondary[5] = StackHigh
      /\ BstaStartSecondary[6] = CallMain
  BY DEF BstaStartSecondary
<1>2. {SetStack, switch_to_el1, InitMmu, enable_fp, StackHigh, CallMain} \subseteq StepOf(EntryOps \ {"table"})
  BY CodeSteps, DriverCalls, Tables DEF StepOf, Calls, EntryOps
<1>3. BstaStartSecondary \in Seq(StepOf(EntryOps \ {"table"}))
  BY <1>2 DEF BstaStartSecondary
<1> QED
  BY <1>1, <1>3, Kinds DEF Ready, TableFirst, SetsStack, MaybeEL2

LEMMA PhytiumStartReady ==
  PhytiumStart \in Seq(StepOf(EntryOps)) /\ Ready("phytium", PhytiumStart) /\ TableFirst(PhytiumStart)
<1>1. /\ Len(PhytiumStart) = 7 /\ PhytiumStart[1] = SetStack /\ PhytiumStart[2] = switch_to_el1
      /\ PhytiumStart[3] = enable_fp /\ PhytiumStart[4] = PhytiumPageTable /\ PhytiumStart[5]
         = InitMmu /\ PhytiumStart[6] = StackHigh /\ PhytiumStart[7] = CallMain
  BY DEF PhytiumStart
<1>2. {SetStack, switch_to_el1, enable_fp, PhytiumPageTable, InitMmu, StackHigh, CallMain} \subseteq StepOf(EntryOps)
  BY CodeSteps, DriverCalls, Tables DEF StepOf, Calls, EntryOps
<1>3. PhytiumStart \in Seq(StepOf(EntryOps))
  BY <1>2 DEF PhytiumStart
<1> QED
  BY <1>1, <1>3, Kinds, TableKinds DEF Ready, TableFirst, SetsStack, MaybeEL2

LEMMA PhytiumStartSecondaryReady ==
  PhytiumStartSecondary \in Seq(StepOf(EntryOps \ {"table"})) /\ Ready("phytium", PhytiumStartSecondary)
<1>1. /\ Len(PhytiumStartSecondary) = 6 /\ PhytiumStartSecondary[1] = SetStack
      /\ PhytiumStartSecondary[2] = switch_to_el1 /\ PhytiumStartSecondary[3] = InitMmu
      /\ PhytiumStartSecondary[4] = enable_fp /\ PhytiumStartSecondary[5] = StackHigh
      /\ PhytiumStartSecondary[6] = CallMain
  BY DEF PhytiumStartSecondary
<1>2. {SetStack, switch_to_el1, InitMmu, enable_fp, StackHigh, CallMain} \subseteq StepOf(EntryOps \ {"table"})
  BY CodeSteps, DriverCalls, Tables DEF StepOf, Calls, EntryOps
<1>3. PhytiumStartSecondary \in Seq(StepOf(EntryOps \ {"table"}))
  BY <1>2 DEF PhytiumStartSecondary
<1> QED
  BY <1>1, <1>3, Kinds DEF Ready, TableFirst, SetsStack, MaybeEL2

LEMMA RaspiStartReady ==
  RaspiStart \in Seq(StepOf(EntryOps)) /\ Ready("raspi", RaspiStart) /\ TableFirst(RaspiStart)
<1>1. /\ Len(RaspiStart) = 7 /\ RaspiStart[1] = SetStack /\ RaspiStart[2] = switch_to_el1
      /\ RaspiStart[3] = enable_fp /\ RaspiStart[4] = RaspiPageTable /\ RaspiStart[5] = InitMmu
      /\ RaspiStart[6] = StackHigh /\ RaspiStart[7] = CallMain
  BY DEF RaspiStart
<1>2. {SetStack, switch_to_el1, enable_fp, RaspiPageTable, InitMmu, StackHigh, CallMain} \subseteq StepOf(EntryOps)
  BY CodeSteps, DriverCalls, Tables DEF StepOf, Calls, EntryOps
<1>3. RaspiStart \in Seq(StepOf(EntryOps))
  BY <1>2 DEF RaspiStart
<1> QED
  BY <1>1, <1>3, Kinds, TableKinds DEF Ready, TableFirst, SetsStack, MaybeEL2

LEMMA RaspiStartSecondaryReady ==
  RaspiStartSecondary \in Seq(StepOf(EntryOps \ {"table"})) /\ Ready("raspi", RaspiStartSecondary)
<1>1. /\ Len(RaspiStartSecondary) = 6 /\ RaspiStartSecondary[1] = SetStack
      /\ RaspiStartSecondary[2] = switch_to_el1 /\ RaspiStartSecondary[3] = enable_fp
      /\ RaspiStartSecondary[4] = InitMmu /\ RaspiStartSecondary[5] = StackHigh
      /\ RaspiStartSecondary[6] = CallMain
  BY DEF RaspiStartSecondary
<1>2. {SetStack, switch_to_el1, enable_fp, InitMmu, StackHigh, CallMain} \subseteq StepOf(EntryOps \ {"table"})
  BY CodeSteps, DriverCalls, Tables DEF StepOf, Calls, EntryOps
<1>3. RaspiStartSecondary \in Seq(StepOf(EntryOps \ {"table"}))
  BY <1>2 DEF RaspiStartSecondary
<1> QED
  BY <1>1, <1>3, Kinds DEF Ready, TableFirst, SetsStack, MaybeEL2

LEMMA ArmStartReady ==
  ArmStart \in Seq(StepOf(EntryOps)) /\ Ready("arm", ArmStart)
<1>1. /\ Len(ArmStart) = 8 /\ ArmStart[1] = SetStack /\ ArmStart[2] = enable_fp /\ ArmStart[3] =
         ArmPageTable /\ ArmStart[4] = InitMmu /\ ArmStart[5] = JumpHigh /\ ArmStart[6] =
         StackHigh /\ ArmStart[7] = ArmPageTableAfterMmu /\ ArmStart[8] = CallMain
  BY DEF ArmStart
<1>2. {SetStack, enable_fp, ArmPageTable, InitMmu, JumpHigh, StackHigh, ArmPageTableAfterMmu,
       CallMain} \subseteq StepOf(EntryOps)
  BY CodeSteps, DriverCalls, Tables DEF StepOf, Calls, EntryOps
<1>3. ArmStart \in Seq(StepOf(EntryOps))
  BY <1>2 DEF ArmStart
<1> QED
  BY <1>1, <1>3, Kinds, TableKinds DEF Ready, TableFirst, SetsStack, MaybeEL2

LEMMA ArmStartSecondaryReady ==
  ArmStartSecondary \in Seq(StepOf(EntryOps \ {"table"})) /\ Ready("arm", ArmStartSecondary)
<1>1. /\ Len(ArmStartSecondary) = 6 /\ ArmStartSecondary[1] = SetStack /\ ArmStartSecondary[2] =
         enable_fp /\ ArmStartSecondary[3] = InitMmu /\ ArmStartSecondary[4] = JumpHigh
      /\ ArmStartSecondary[5] = StackHigh /\ ArmStartSecondary[6] = CallMain
  BY DEF ArmStartSecondary
<1>2. {SetStack, enable_fp, InitMmu, JumpHigh, StackHigh, CallMain} \subseteq StepOf(EntryOps \ {"table"})
  BY CodeSteps, DriverCalls, Tables DEF StepOf, Calls, EntryOps
<1>3. ArmStartSecondary \in Seq(StepOf(EntryOps \ {"table"}))
  BY <1>2 DEF ArmStartSecondary
<1> QED
  BY <1>1, <1>3, Kinds DEF Ready, TableFirst, SetsStack, MaybeEL2

LEMMA LoongStartReady ==
  LoongStart \in Seq(StepOf(EntryOps)) /\ Ready("loong", LoongStart) /\ TableFirst(LoongStart)
<1>1. /\ Len(LoongStart) = 5 /\ LoongStart[1] = Op("sp_virt") /\ LoongStart[2] = enable_fp
      /\ LoongStart[3] = LoongPageTable /\ LoongStart[4] = InitMmu /\ LoongStart[5] = CallMain
  BY DEF LoongStart
<1>2. {Op("sp_virt"), enable_fp, LoongPageTable, InitMmu, CallMain} \subseteq StepOf(EntryOps)
  BY CodeSteps, DriverCalls, Tables DEF StepOf, Calls, EntryOps
<1>3. LoongStart \in Seq(StepOf(EntryOps))
  BY <1>2 DEF LoongStart
<1> QED
  BY <1>1, <1>3, Kinds, TableKinds DEF Ready, TableFirst, SetsStack, MaybeEL2

LEMMA LoongStartSecondaryReady ==
  LoongStartSecondary \in Seq(StepOf(EntryOps \ {"table"})) /\ Ready("loong", LoongStartSecondary)
<1>1. /\ Len(LoongStartSecondary) = 4 /\ LoongStartSecondary[1] = Op("sp_virt")
      /\ LoongStartSecondary[2] = enable_fp /\ LoongStartSecondary[3] = InitMmu
      /\ LoongStartSecondary[4] = CallMain
  BY DEF LoongStartSecondary
<1>2. {Op("sp_virt"), enable_fp, InitMmu, CallMain} \subseteq StepOf(EntryOps \ {"table"})
  BY CodeSteps, DriverCalls, Tables DEF StepOf, Calls, EntryOps
<1>3. LoongStartSecondary \in Seq(StepOf(EntryOps \ {"table"}))
  BY <1>2 DEF LoongStartSecondary
<1> QED
  BY <1>1, <1>3, Kinds DEF Ready, TableFirst, SetsStack, MaybeEL2

LEMMA RiscvStartReady ==
  RiscvStart \in Seq(StepOf(EntryOps)) /\ Ready("riscv", RiscvStart) /\ TableFirst(RiscvStart)
<1>1. /\ Len(RiscvStart) = 5 /\ RiscvStart[1] = SetStack /\ RiscvStart[2] = RiscvPageTable
      /\ RiscvStart[3] = InitMmu /\ RiscvStart[4] = StackHigh /\ RiscvStart[5] = CallMain
  BY DEF RiscvStart
<1>2. {SetStack, RiscvPageTable, InitMmu, StackHigh, CallMain} \subseteq StepOf(EntryOps)
  BY CodeSteps, DriverCalls, Tables DEF StepOf, Calls, EntryOps
<1>3. RiscvStart \in Seq(StepOf(EntryOps))
  BY <1>2 DEF RiscvStart
<1> QED
  BY <1>1, <1>3, Kinds, TableKinds DEF Ready, TableFirst, SetsStack, MaybeEL2

LEMMA RiscvStartSecondaryReady ==
  RiscvStartSecondary \in Seq(StepOf(EntryOps \ {"table"})) /\ Ready("riscv", RiscvStartSecondary)
<1>1. /\ Len(RiscvStartSecondary) = 4 /\ RiscvStartSecondary[1] = SetStack
      /\ RiscvStartSecondary[2] = InitMmu /\ RiscvStartSecondary[3] = StackHigh
      /\ RiscvStartSecondary[4] = CallMain
  BY DEF RiscvStartSecondary
<1>2. {SetStack, InitMmu, StackHigh, CallMain} \subseteq StepOf(EntryOps \ {"table"})
  BY CodeSteps, DriverCalls, Tables DEF StepOf, Calls, EntryOps
<1>3. RiscvStartSecondary \in Seq(StepOf(EntryOps \ {"table"}))
  BY <1>2 DEF RiscvStartSecondary
<1> QED
  BY <1>1, <1>3, Kinds DEF Ready, TableFirst, SetsStack, MaybeEL2

LEMMA X86StartReady ==
  X86Start \in Seq(StepOf(EntryOps)) /\ Ready("x86", X86Start) /\ TableFirst(X86Start)
<1>1. /\ Len(X86Start) = 4 /\ X86Start[1] = enable_fp /\ X86Start[2] = InitMmu /\ X86Start[3] =
         Op("sp_virt") /\ X86Start[4] = CallMain
  BY DEF X86Start, X86Cr4, X86Cr0, rust_entry
<1>2. {enable_fp, InitMmu, Op("sp_virt"), CallMain} \subseteq StepOf(EntryOps)
  BY CodeSteps, DriverCalls, Tables DEF StepOf, Calls, EntryOps
<1>3. X86Start \in Seq(StepOf(EntryOps))
  BY <1>2 DEF X86Start, X86Cr4, X86Cr0, rust_entry
<1> QED
  BY <1>1, <1>3, Kinds DEF Ready, TableFirst, SetsStack, MaybeEL2

LEMMA X86StartSecondaryReady ==
  X86StartSecondary \in Seq(StepOf(EntryOps \ {"table"})) /\ Ready("x86", X86StartSecondary)
<1>1. /\ Len(X86StartSecondary) = 5 /\ X86StartSecondary[1] = SetStack /\ X86StartSecondary[2] =
         enable_fp /\ X86StartSecondary[3] = InitMmu /\ X86StartSecondary[4] = StackHigh
      /\ X86StartSecondary[5] = CallMain
  BY DEF X86StartSecondary, X86Cr4, X86Cr0, rust_entry_secondary
<1>2. {SetStack, enable_fp, InitMmu, StackHigh, CallMain} \subseteq StepOf(EntryOps \ {"table"})
  BY CodeSteps, DriverCalls, Tables DEF StepOf, Calls, EntryOps
<1>3. X86StartSecondary \in Seq(StepOf(EntryOps \ {"table"}))
  BY <1>2 DEF X86StartSecondary, X86Cr4, X86Cr0, rust_entry_secondary
<1> QED
  BY <1>1, <1>3, Kinds DEF Ready, TableFirst, SetsStack, MaybeEL2

-----------------------------------------------------------------------------
(* The rest of the programs.                                               *)

\* cpu_boot ends with the start of the CPU.  Where the stack passes through one
\* cell it is stored first, and on raspi written back before the start.
Passes(p, s) ==
    /\ s \in Seq(StepOf({"stack", "clean", "release"}))
    /\ Len(s) = IF p = "raspi" THEN 3 ELSE IF p \in {"loong", "x86"} THEN 2 ELSE 1
    /\ \A k \in 1 .. Len(s) : /\ s[k].op = "release" <=> k = Len(s)
                              /\ s[k].op = "stack" <=> (k = 1 /\ Len(s) > 1)
                              /\ s[k].op = "clean" <=> (k = 2 /\ Len(s) = 3)

\* The steps of cpu_boot.
LEMMA BootCalls ==
  /\ psci_cpu_on \in StepOf({"release"})
  /\ [Release EXCEPT !.ram = {0}] \in StepOf({"release"})
  /\ [PassStack EXCEPT !.ram = {6}] \in StepOf({"stack"})
  /\ [Release EXCEPT !.uses = {"LOCAL_APIC", "INIT_TICK"}, !.dev = {"lapic"}]
       \in StepOf({"release"})
<1>1. {0} \in Pages /\ {6} \in Pages
  BY DEF Pages
<1>2. psci_cpu_on \in StepOf({"release"})
  BY DEF psci_cpu_on, Release, Op, Plain, StepOf, StepType, Cells, Devices, Pages, AllOps, EntryOps
<1>3. /\ [Release EXCEPT !.ram = {0}] \in StepOf({"release"})
      /\ [PassStack EXCEPT !.ram = {6}] \in StepOf({"stack"})
  BY <1>1, CodeSteps DEF StepOf, StepType
<1>4. [Release EXCEPT !.uses = {"LOCAL_APIC", "INIT_TICK"}, !.dev = {"lapic"}] \in StepOf({"release"})
  BY CodeSteps DEF StepOf, StepType, Cells, Devices
<1> QED
  BY <1>2, <1>3, <1>4

\* What the proofs below use of a platform.
Fit(p, code) ==
    /\ code.kernel \in Nat
    /\ code.start \in Seq(StepOf(EntryOps)) /\ Ready(p, code.start)
    /\ p # "arm" => TableFirst(code.start)
    /\ code.secondary \in Seq(StepOf(EntryOps \ {"table"})) /\ Ready(p, code.secondary)
    /\ code.early \in Seq(Calls) /\ code.early_use \in Seq(Calls)
    /\ code.later \in Seq(Calls) /\ code.later_use \in Seq(Calls)
    /\ code.later_secondary \in Seq(Calls)
    /\ Passes(p, code.cpu_boot)
    /\ code.system_off \in StepOf({"off", "halt"})

\* Every platform has what the proofs use.
LEMMA VirtFit ==
  Fit("virt", Virt)
<1>1. /\ Virt.kernel \in Nat
      /\ Virt.start = VirtStart /\ Virt.secondary = VirtStartSecondary
      /\ Virt.early = VirtInitEarly /\ Virt.early_use = GicEarlyUse(pl011_write_bytes)
      /\ Virt.later = VirtInitLater /\ Virt.later_use = GicLaterUse
      /\ Virt.later_secondary = GicLaterSecondary /\ Virt.cpu_boot = VirtCpuBoot
      /\ Virt.system_off = psci_system_off
  BY DEF Virt
<1>2. VirtInitEarly \in Seq(Calls) /\ VirtInitLater \in Seq(Calls) /\ GicLaterSecondary \in Seq(Calls)
  BY DriverCalls DEF VirtInitEarly, VirtInitLater, GicLaterSecondary
<1>3. GicEarlyUse(pl011_write_bytes) \in Seq(Calls)
  BY DriverCalls DEF GicEarlyUse
<1>4. GicLaterUse \in Seq(Calls)
  BY DriverCalls DEF GicLaterUse
<1>5. Passes("virt", VirtCpuBoot)
  <2>1. Len(VirtCpuBoot) = 1
    BY DEF VirtCpuBoot
  <2>2. VirtCpuBoot \in Seq(StepOf({"stack", "clean", "release"}))
    BY CodeSteps, BootCalls DEF VirtCpuBoot, StepOf
  <2>3. VirtCpuBoot[1].op = "release"
    BY CodeSteps, BootCalls DEF StepOf, VirtCpuBoot
  <2> QED
    BY <2>1, <2>2, <2>3 DEF Passes
<1>6. psci_system_off \in StepOf({"off", "halt"})
  BY DEF psci_system_off, Op, Plain, StepOf, StepType, Cells, Devices, Pages, AllOps, EntryOps
<1> QED
  BY <1>1, <1>2, <1>3, <1>4, <1>5, <1>6, VirtStartReady, VirtStartSecondaryReady DEF Fit

LEMMA BstaFit ==
  Fit("bsta", Bsta)
<1>1. /\ Bsta.kernel \in Nat
      /\ Bsta.start = BstaStart /\ Bsta.secondary = BstaStartSecondary
      /\ Bsta.early = BstaInitEarly /\ Bsta.early_use = GicEarlyUse(dw_uart_write_bytes) \o <<get_bootmode, reset_qspi>>
      /\ Bsta.later = BstaInitLater /\ Bsta.later_use = GicLaterUse
      /\ Bsta.later_secondary = GicLaterSecondary /\ Bsta.cpu_boot = BstaCpuBoot
      /\ Bsta.system_off = psci_system_off
  BY DEF Bsta, Virt
<1>2. BstaInitEarly \in Seq(Calls) /\ BstaInitLater \in Seq(Calls) /\ GicLaterSecondary \in Seq(Calls)
  BY DriverCalls, BstaCalls DEF BstaInitEarly, BstaInitLater, GicLaterSecondary
<1>3. GicEarlyUse(dw_uart_write_bytes) \o <<get_bootmode, reset_qspi>> \in Seq(Calls)
  <2>1. GicEarlyUse(dw_uart_write_bytes) \in Seq(Calls) /\ <<get_bootmode, reset_qspi>> \in Seq(Calls)
    BY DriverCalls, BstaCalls DEF GicEarlyUse
  <2> QED
    BY <2>1, ConcatProperties
<1>4. GicLaterUse \in Seq(Calls)
  BY DriverCalls, BstaCalls DEF GicLaterUse
<1>5. Passes("bsta", BstaCpuBoot)
  <2>1. Len(BstaCpuBoot) = 1
    BY DEF BstaCpuBoot
  <2>2. BstaCpuBoot \in Seq(StepOf({"stack", "clean", "release"}))
    BY CodeSteps, BootCalls DEF BstaCpuBoot, StepOf
  <2>3. BstaCpuBoot[1].op = "release"
    BY CodeSteps, BootCalls DEF StepOf, BstaCpuBoot
  <2> QED
    BY <2>1, <2>2, <2>3 DEF Passes
<1>6. psci_system_off \in StepOf({"off", "halt"})
  BY DEF psci_system_off, Op, Plain, StepOf, StepType, Cells, Devices, Pages, AllOps, EntryOps
<1> QED
  BY <1>1, <1>2, <1>3, <1>4, <1>5, <1>6, BstaStartReady, BstaStartSecondaryReady DEF Fit

LEMMA PhytiumFit ==
  Fit("phytium", Phytium)
<1>1. /\ Phytium.kernel \in Nat
      /\ Phytium.start = PhytiumStart /\ Phytium.secondary = PhytiumStartSecondary
      /\ Phytium.early = PhytiumInitEarly /\ Phytium.early_use = GicEarlyUse(pl011_write_bytes)
      /\ Phytium.later = PhytiumInitLater /\ Phytium.later_use = GicLaterUse
      /\ Phytium.later_secondary = GicLaterSecondary /\ Phytium.cpu_boot = PhytiumCpuBoot
      /\ Phytium.system_off = psci_system_off
  BY DEF Phytium, Virt
<1>2. PhytiumInitEarly \in Seq(Calls) /\ PhytiumInitLater \in Seq(Calls) /\ GicLaterSecondary \in Seq(Calls)
  BY DriverCalls DEF PhytiumInitEarly, PhytiumInitLater, GicLaterSecondary
<1>3. GicEarlyUse(pl011_write_bytes) \in Seq(Calls)
  BY DriverCalls DEF GicEarlyUse
<1>4. GicLaterUse \in Seq(Calls)
  BY DriverCalls DEF GicLaterUse
<1>5. Passes("phytium", PhytiumCpuBoot)
  <2>1. Len(PhytiumCpuBoot) = 1
    BY DEF PhytiumCpuBoot
  <2>2. PhytiumCpuBoot \in Seq(StepOf({"stack", "clean", "release"}))
    BY CodeSteps, BootCalls DEF PhytiumCpuBoot, StepOf
  <2>3. PhytiumCpuBoot[1].op = "release"
    BY CodeSteps, BootCalls DEF StepOf, PhytiumCpuBoot
  <2> QED
    BY <2>1, <2>2, <2>3 DEF Passes
<1>6. psci_system_off \in StepOf({"off", "halt"})
  BY DEF psci_system_off, Op, Plain, StepOf, StepType, Cells, Devices, Pages, AllOps, EntryOps
<1> QED
  BY <1>1, <1>2, <1>3, <1>4, <1>5, <1>6, PhytiumStartReady, PhytiumStartSecondaryReady DEF Fit

LEMMA RaspiFit ==
  Fit("raspi", Raspi)
<1>1. /\ Raspi.kernel \in Nat
      /\ Raspi.start = RaspiStart /\ Raspi.secondary = RaspiStartSecondary
      /\ Raspi.early = RaspiInitEarly /\ Raspi.early_use = GicEarlyUse(pl011_write_bytes)
      /\ Raspi.later = RaspiInitLater /\ Raspi.later_use = GicLaterUse
      /\ Raspi.later_secondary = GicLaterSecondary /\ Raspi.cpu_boot = RaspiCpuBoot
      /\ Raspi.system_off = RaspiSystemOff
  BY DEF Raspi, Virt
<1>2. RaspiInitEarly \in Seq(Calls) /\ RaspiInitLater \in Seq(Calls) /\ GicLaterSecondary \in Seq(Calls)
  BY DriverCalls DEF RaspiInitEarly, RaspiInitLater, GicLaterSecondary
<1>3. GicEarlyUse(pl011_write_bytes) \in Seq(Calls)
  BY DriverCalls DEF GicEarlyUse
<1>4. GicLaterUse \in Seq(Calls)
  BY DriverCalls DEF GicLaterUse
<1>5. Passes("raspi", RaspiCpuBoot)
  <2>1. Len(RaspiCpuBoot) = 3
    BY DEF RaspiCpuBoot
  <2>2. RaspiCpuBoot \in Seq(StepOf({"stack", "clean", "release"}))
    BY CodeSteps, BootCalls DEF RaspiCpuBoot, StepOf
  <2>3. RaspiCpuBoot[1].op = "stack" /\ RaspiCpuBoot[2].op = "clean" /\ RaspiCpuBoot[3].op = "release"
    BY CodeSteps, BootCalls DEF StepOf, RaspiCpuBoot
  <2> QED
    BY <2>1, <2>2, <2>3 DEF Passes
<1>6. RaspiSystemOff \in StepOf({"off", "halt"})
  BY DEF RaspiSystemOff, Op, Plain, StepOf, StepType, Cells, Devices, Pages, AllOps, EntryOps
<1> QED
  BY <1>1, <1>2, <1>3, <1>4, <1>5, <1>6, RaspiStartReady, RaspiStartSecondaryReady DEF Fit

LEMMA ArmFit ==
  Fit("arm", Arm)
<1>1. /\ Arm.kernel \in Nat
      /\ Arm.start = ArmStart /\ Arm.secondary = ArmStartSecondary
      /\ Arm.early = ArmInitEarly /\ Arm.early_use = GicEarlyUse(pl011_write_bytes)
      /\ Arm.later = ArmInitLater /\ Arm.later_use = GicLaterUse
      /\ Arm.later_secondary = GicLaterSecondary /\ Arm.cpu_boot = ArmCpuBoot
      /\ Arm.system_off = psci_system_off
  BY DEF Arm, Virt
<1>2. ArmInitEarly \in Seq(Calls) /\ ArmInitLater \in Seq(Calls) /\ GicLaterSecondary \in Seq(Calls)
  BY DriverCalls DEF ArmInitEarly, ArmInitLater, GicLaterSecondary
<1>3. GicEarlyUse(pl011_write_bytes) \in Seq(Calls)
  BY DriverCalls DEF GicEarlyUse
<1>4. GicLaterUse \in Seq(Calls)
  BY DriverCalls DEF GicLaterUse
<1>5. Passes("arm", ArmCpuBoot)
  <2>1. Len(ArmCpuBoot) = 1
    BY DEF ArmCpuBoot
  <2>2. ArmCpuBoot \in Seq(StepOf({"stack", "clean", "release"}))
    BY CodeSteps, BootCalls DEF ArmCpuBoot, StepOf
  <2>3. ArmCpuBoot[1].op = "release"
    BY CodeSteps, BootCalls DEF StepOf, ArmCpuBoot
  <2> QED
    BY <2>1, <2>2, <2>3 DEF Passes
<1>6. psci_system_off \in StepOf({"off", "halt"})
  BY DEF psci_system_off, Op, Plain, StepOf, StepType, Cells, Devices, Pages, AllOps, EntryOps
<1> QED
  BY <1>1, <1>2, <1>3, <1>4, <1>5, <1>6, ArmStartReady, ArmStartSecondaryReady DEF Fit

LEMMA LoongFit ==
  Fit("loong", Loong)
<1>1. /\ Loong.kernel \in Nat
      /\ Loong.start = LoongStart /\ Loong.secondary = LoongStartSecondary
      /\ Loong.early = LoongInitEarly /\ Loong.early_use = <<LoongWriteBytes, LoongTicksToNanos>>
      /\ Loong.later = LoongInitLater /\ Loong.later_use = <<LoongHandleIrq>>
      /\ Loong.later_secondary = LoongInitLaterSecondary /\ Loong.cpu_boot = LoongCpuBoot
      /\ Loong.system_off = LoongSystemOff
  BY DEF Loong
<1>2. LoongInitEarly \in Seq(Calls) /\ LoongInitLater \in Seq(Calls) /\ LoongInitLaterSecondary \in Seq(Calls)
  BY DriverCalls, LoongCalls DEF LoongInitEarly, LoongInitLater, LoongInitLaterSecondary
<1>3. <<LoongWriteBytes, LoongTicksToNanos>> \in Seq(Calls)
  BY DriverCalls, LoongCalls
<1>4. <<LoongHandleIrq>> \in Seq(Calls)
  BY DriverCalls, LoongCalls
<1>5. Passes("loong", LoongCpuBoot)
  <2>1. Len(LoongCpuBoot) = 2
    BY DEF LoongCpuBoot
  <2>2. LoongCpuBoot \in Seq(StepOf({"stack", "clean", "release"}))
    BY CodeSteps, BootCalls DEF LoongCpuBoot, StepOf
  <2>3. LoongCpuBoot[1].op = "stack" /\ LoongCpuBoot[2].op = "release"
    BY CodeSteps, BootCalls DEF StepOf, LoongCpuBoot
  <2> QED
    BY <2>1, <2>2, <2>3 DEF Passes
<1>6. LoongSystemOff \in StepOf({"off", "halt"})
  BY DEF LoongSystemOff, Op, Plain, StepOf, StepType, Cells, Devices, Pages, AllOps, EntryOps
<1> QED
  BY <1>1, <1>2, <1>3, <1>4, <1>5, <1>6, LoongStartReady, LoongStartSecondaryReady DEF Fit

LEMMA RiscvFit ==
  Fit("riscv", Riscv)
<1>1. /\ Riscv.kernel \in Nat
      /\ Riscv.start = RiscvStart /\ Riscv.secondary = RiscvStartSecondary
      /\ Riscv.early = RiscvInitEarly /\ Riscv.early_use = <<>>
      /\ Riscv.later = RiscvInitLater /\ Riscv.later_use = <<RiscvHandleIrq>>
      /\ Riscv.later_secondary = RiscvInitLaterSecondary /\ Riscv.cpu_boot = RiscvCpuBoot
      /\ Riscv.system_off = Op("off")
  BY DEF Riscv, Loong
<1>2. RiscvInitEarly \in Seq(Calls) /\ RiscvInitLater \in Seq(Calls) /\ RiscvInitLaterSecondary \in Seq(Calls)
  BY DriverCalls, RiscvCalls DEF RiscvInitEarly, RiscvInitLater, RiscvInitLaterSecondary
<1>3. <<>> \in Seq(Calls)
  BY DriverCalls, RiscvCalls
<1>4. <<RiscvHandleIrq>> \in Seq(Calls)
  BY DriverCalls, RiscvCalls
<1>5. Passes("riscv", RiscvCpuBoot)
  <2>1. Len(RiscvCpuBoot) = 1
    BY DEF RiscvCpuBoot
  <2>2. RiscvCpuBoot \in Seq(StepOf({"stack", "clean", "release"}))
    BY CodeSteps, BootCalls DEF RiscvCpuBoot, StepOf
  <2>3. RiscvCpuBoot[1].op = "release"
    BY CodeSteps, BootCalls DEF StepOf, RiscvCpuBoot
  <2> QED
    BY <2>1, <2>2, <2>3 DEF Passes
<1>6. Op("off") \in StepOf({"off", "halt"})
  BY DEF Op, Plain, StepOf, StepType, Cells, Devices, Pages, AllOps, EntryOps
<1> QED
  BY <1>1, <1>2, <1>3, <1>4, <1>5, <1>6, RiscvStartReady, RiscvStartSecondaryReady DEF Fit

LEMMA X86Fit ==
  Fit("x86", X86)
<1>1. /\ X86.kernel \in Nat
      /\ X86.start = X86Start /\ X86.secondary = X86StartSecondary
      /\ X86.early = X86InitEarly /\ X86.early_use = <<X86WriteBytes, X86CurrentTicks>>
      /\ X86.later = X86InitLater /\ X86.later_use = <<X86SetOneshotTimer, X86SetEnable>>
      /\ X86.later_secondary = X86InitLaterSecondary /\ X86.cpu_boot = X86CpuBoot
      /\ X86.system_off = Op("off")
  BY DEF X86, Loong
<1>2. X86InitEarly \in Seq(Calls) /\ X86InitLater \in Seq(Calls) /\ X86InitLaterSecondary \in Seq(Calls)
  BY DriverCalls, X86Calls DEF X86InitEarly, X86InitLater, X86InitLaterSecondary
<1>3. <<X86WriteBytes, X86CurrentTicks>> \in Seq(Calls)
  BY DriverCalls, X86Calls
<1>4. <<X86SetOneshotTimer, X86SetEnable>> \in Seq(Calls)
  BY DriverCalls, X86Calls
<1>5. Passes("x86", X86CpuBoot)
  <2>1. Len(X86CpuBoot) = 2
    BY DEF X86CpuBoot
  <2>2. X86CpuBoot \in Seq(StepOf({"stack", "clean", "release"}))
    BY CodeSteps, BootCalls DEF X86CpuBoot, StepOf
  <2>3. X86CpuBoot[1].op = "stack" /\ X86CpuBoot[2].op = "release"
    BY CodeSteps, BootCalls DEF StepOf, X86CpuBoot
  <2> QED
    BY <2>1, <2>2, <2>3 DEF Passes
<1>6. Op("off") \in StepOf({"off", "halt"})
  BY DEF Op, Plain, StepOf, StepType, Cells, Devices, Pages, AllOps, EntryOps
<1> QED
  BY <1>1, <1>2, <1>3, <1>4, <1>5, <1>6, X86StartReady, X86StartSecondaryReady DEF Fit

\* All eight platforms are fit.
LEMMA CodeIsFit ==
  ASSUME NEW p \in DOMAIN Code
  PROVE  Fit(p, Code[p])
<1>1. p \in {"virt", "bsta", "phytium", "raspi", "arm", "loong", "riscv", "x86"}
  BY DEF Code
<1>2. /\ Code["virt"] = Virt /\ Code["bsta"] = Bsta /\ Code["phytium"] = Phytium
      /\ Code["raspi"] = Raspi /\ Code["arm"] = Arm /\ Code["loong"] = Loong
      /\ Code["riscv"] = Riscv /\ Code["x86"] = X86
  BY DEF Code
<1> QED
  BY <1>1, <1>2, VirtFit, BstaFit, PhytiumFit, RaspiFit, ArmFit, LoongFit, RiscvFit, X86Fit

-----------------------------------------------------------------------------
(* Where a CPU is in its program.                                          *)

ConfInv ==
    /\ conf.platform \in Platforms /\ conf.code = Code[conf.platform]
    /\ conf.primary \in CPU /\ conf.fine \in BOOLEAN /\ conf.waits \in BOOLEAN
    /\ SharesSlot => conf.waits

\* So is the one that is booted.
LEMMA HereIsFit ==
  ASSUME ConfInv
  PROVE  Fit(conf.platform, Here)
BY CodeIsFit, PlatformsAssumption DEF ConfInv, Here

\* A program over some kinds of steps is a program.
LEMMA StepsOf ==
  ASSUME NEW ops, NEW s \in Seq(StepOf(ops))
  PROVE  s \in Seq(StepType) /\ Len(s) \in Nat /\ \A k \in 1 .. Len(s) : s[k].op \in ops
<1>1. StepOf(ops) \subseteq StepType
  BY DEF StepOf
<1>2. \A k \in 1 .. Len(s) : s[k] \in StepOf(ops)
  BY ElementOfSeq
<1> QED
  BY <1>1, <1>2, LenProperties DEF StepOf

\* c is a followed by b.
JoinOf(a, b, c) ==
    /\ c \in Seq(StepType) /\ Len(a) \in Nat /\ Len(b) \in Nat
    /\ Len(c) = Len(a) + Len(b)
    /\ \A k \in 1 .. Len(a) : c[k] = a[k]
    /\ \A k \in 1 .. Len(b) : c[Len(a) + k] = b[k]

\* Concatenation is what it is thought to be.
LEMMA Joined ==
  ASSUME NEW a \in Seq(StepType), NEW b \in Seq(StepType)
  PROVE  JoinOf(a, b, a \o b) /\ a \o b \in Seq(StepType)
<1>1. Len(a) \in Nat /\ Len(b) \in Nat
  BY LenProperties
<1>2. /\ a \o b \in Seq(StepType)
      /\ Len(a \o b) = Len(a) + Len(b)
      /\ \A k \in 1 .. Len(a) + Len(b) : (a \o b)[k] = IF k <= Len(a) THEN a[k] ELSE b[k - Len(a)]
  BY ConcatProperties
<1>3. ASSUME NEW k \in 1 .. Len(a) PROVE (a \o b)[k] = a[k]
  BY <1>1, <1>2
<1>4. ASSUME NEW k \in 1 .. Len(b) PROVE (a \o b)[Len(a) + k] = b[k]
  <2>1. Len(a) + k \in 1 .. Len(a) + Len(b) /\ ~(Len(a) + k <= Len(a)) /\ Len(a) + k - Len(a) = k
    BY <1>1
  <2> QED
    BY <1>2, <2>1
<1> QED
  BY <1>1, <1>2, <1>3, <1>4 DEF JoinOf

\* t begins with s and goes on with steps of the given kinds.
Continues(s, t, ops) ==
    /\ t \in Seq(StepType) /\ Len(s) <= Len(t)
    /\ \A k \in 1 .. Len(s) : t[k] = s[k]
    /\ \A k \in Len(s) + 1 .. Len(t) : t[k].op \in ops

LEMMA ContinuesItself ==
  ASSUME NEW s \in Seq(StepType), NEW ops
  PROVE  Continues(s, s, ops)
<1>1. Len(s) \in Nat
  BY LenProperties
<1> QED
  BY <1>1 DEF Continues

\* More steps of the same kinds may follow.
LEMMA ContinuesOn ==
  ASSUME NEW s \in Seq(StepType), NEW t, NEW ops, Continues(s, t, ops), NEW u \in Seq(StepOf(ops))
  PROVE  Continues(s, t \o u, ops)
<1>1. /\ t \in Seq(StepType) /\ u \in Seq(StepType)
      /\ Len(s) \in Nat /\ Len(t) \in Nat /\ Len(u) \in Nat /\ Len(s) <= Len(t)
      /\ \A k \in 1 .. Len(u) : u[k].op \in ops
  BY StepsOf, LenProperties DEF Continues
<1>2. /\ t \o u \in Seq(StepType)
      /\ Len(t \o u) = Len(t) + Len(u)
      /\ \A k \in 1 .. Len(t) + Len(u) :
           (t \o u)[k] = IF k <= Len(t) THEN t[k] ELSE u[k - Len(t)]
  BY <1>1, ConcatProperties
<1>3. ASSUME NEW k \in 1 .. Len(s) PROVE (t \o u)[k] = s[k]
  <2>1. k \in 1 .. Len(t) + Len(u) /\ k <= Len(t)
    BY <1>1
  <2> QED
    BY <1>2, <2>1 DEF Continues
<1>4. ASSUME NEW k \in Len(s) + 1 .. Len(t) + Len(u) PROVE (t \o u)[k].op \in ops
  <2>1. k \in 1 .. Len(t) + Len(u)
    BY <1>1
  <2>2. CASE k <= Len(t)
    BY <1>1, <1>2, <2>1, <2>2 DEF Continues
  <2>3. CASE ~(k <= Len(t))
    <3>1. k - Len(t) \in 1 .. Len(u)
      BY <1>1, <2>3
    <3> QED
      BY <1>1, <1>2, <2>1, <2>3, <3>1
  <2> QED
    BY <2>2, <2>3
<1> QED
  BY <1>1, <1>2, <1>3, <1>4 DEF Continues

LEMMA RemapSteps ==
  ASSUME ConfInv
  PROVE  MayRemap \in Seq(StepOf({"call", "remap"}))
<1>1. Remap \in StepOf({"call", "remap"})
  BY DEF Remap, Op, Plain, StepOf, StepType, Cells, Devices, Pages, AllOps, EntryOps
<1>2. <<Remap>> \in Seq(StepOf({"call", "remap"})) /\ <<>> \in Seq(StepOf({"call", "remap"}))
  BY <1>1
<1> QED
  BY <1>2 DEF MayRemap

LEMMA CallsAre ==
  /\ Calls \subseteq StepOf({"call", "remap"})
  /\ Seq(Calls) \subseteq Seq(StepOf({"call", "remap"}))
<1>1. Calls \subseteq StepOf({"call", "remap"})
  BY DEF Calls, StepOf
<1> QED
  BY <1>1

\* Behind main there are calls, and the switch to the kernel's page table.
LEMMA EntryComesFirst ==
  ASSUME ConfInv
  PROVE  /\ Continues(Here.start, BeforeLoop, {"call", "remap"})
         /\ Continues(Here.secondary, SecondaryProgram, {"call", "remap"})
<1> DEFINE ops == {"call", "remap"}
           S == StepOf(ops)
<1>1. /\ Here.early \in Seq(S) /\ Here.early_use \in Seq(S) /\ Here.later \in Seq(S)
      /\ Here.later_use \in Seq(S) /\ Here.later_secondary \in Seq(S) /\ MayRemap \in Seq(S)
  BY HereIsFit, CallsAre, RemapSteps DEF Fit
<1>2. <<init_trap>> \in Seq(S)
  BY DriverCalls, CallsAre
<1>3. Here.start \in Seq(StepType) /\ Here.secondary \in Seq(StepType)
  BY HereIsFit, StepsOf DEF Fit
<1> HIDE DEF ops, S
<1>4. Continues(Here.start, BeforeLoop, ops)
  <2>1. Continues(Here.start, Here.start \o Here.early, ops)
    BY <1>1, <1>3, ContinuesItself, ContinuesOn DEF S
  <2>2. Continues(Here.start, Here.start \o Here.early \o Here.early_use, ops)
    BY <1>1, <1>3, <2>1, ContinuesOn DEF S
  <2>3. Continues(Here.start, Here.start \o Here.early \o Here.early_use \o MayRemap, ops)
    BY <1>1, <1>3, <2>2, ContinuesOn DEF S
  <2>4. Continues(Here.start, Here.start \o Here.early \o Here.early_use \o MayRemap \o Here.later, ops)
    BY <1>1, <1>3, <2>3, ContinuesOn DEF S
  <2> QED
    BY <1>1, <1>3, <2>4, ContinuesOn DEF S, BeforeLoop
<1>5. Continues(Here.secondary, SecondaryProgram, ops)
  <2>1. Continues(Here.secondary, Here.secondary \o <<init_trap>>, ops)
    BY <1>2, <1>3, ContinuesItself, ContinuesOn DEF S
  <2>2. Continues(Here.secondary, Here.secondary \o <<init_trap>> \o Here.early_use, ops)
    BY <1>1, <1>3, <2>1, ContinuesOn DEF S
  <2>3. Continues(Here.secondary, Here.secondary \o <<init_trap>> \o Here.early_use \o MayRemap, ops)
    BY <1>1, <1>3, <2>2, ContinuesOn DEF S
  <2>4. Continues(Here.secondary, Here.secondary \o <<init_trap>> \o Here.early_use \o MayRemap
                                                 \o Here.later_secondary, ops)
    BY <1>1, <1>3, <2>3, ContinuesOn DEF S
  <2> QED
    BY <1>1, <1>3, <2>4, ContinuesOn DEF S, SecondaryProgram
<1> QED
  BY <1>4, <1>5 DEF ops

\* The place of the loop over the CPUs, and how long cpu_boot is.
LoopHead == Len(BeforeLoop) + 1
BootLen == Len(Here.cpu_boot)

\* The lengths of the parts of the programs.
LEMMA Lengths ==
  ASSUME ConfInv
  PROVE  /\ LoopHead \in Nat /\ Len(Here.start) \in Nat \ {0} /\ Len(Here.start) < LoopHead
         /\ BootLen = IF Uncached THEN 3 ELSE IF SharesSlot THEN 2 ELSE 1
         /\ Len(LoopBody) = IF conf.waits THEN BootLen + 1 ELSE BootLen
         /\ LoopBody \in Seq(StepType)
         /\ \A k \in 1 .. BootLen : LoopBody[k] = Here.cpu_boot[k]
         /\ conf.waits => LoopBody[BootLen + 1] = Op("wait") /\ LoopBody[BootLen + 1].op = "wait"
         /\ Len(Here.secondary) \in Nat \ {0}
         /\ SecondaryProgram \in Seq(StepType)
         /\ Len(Here.secondary) <= Len(SecondaryProgram)
<1>1. /\ BeforeLoop \in Seq(StepType) /\ SecondaryProgram \in Seq(StepType)
      /\ Len(Here.start) <= Len(BeforeLoop) /\ Len(Here.secondary) <= Len(SecondaryProgram)
  BY EntryComesFirst DEF Continues
<1>2. Len(BeforeLoop) \in Nat /\ Len(SecondaryProgram) \in Nat
  BY <1>1, LenProperties
<1>3. Len(Here.start) \in Nat \ {0} /\ Len(Here.secondary) \in Nat \ {0}
  BY HereIsFit DEF Fit, Ready
<1>4. BootLen = IF Uncached THEN 3 ELSE IF SharesSlot THEN 2 ELSE 1
  BY HereIsFit DEF Fit, Passes, BootLen, Uncached, SharesSlot
<1>5. Here.cpu_boot \in Seq(StepType)
  BY HereIsFit, StepsOf DEF Fit, Passes
<1>6. Op("wait") \in StepType /\ Op("wait").op = "wait"
  BY KernelSteps DEF StepOf
<1>7. MayWait \in Seq(StepType) /\ Len(MayWait) = (IF conf.waits THEN 1 ELSE 0)
  <2>1. CASE conf.waits
    BY <1>6, <2>1 DEF MayWait
  <2>2. CASE ~conf.waits
    BY <2>2 DEF MayWait
  <2> QED
    BY <2>1, <2>2
<1>8. JoinOf(Here.cpu_boot, MayWait, LoopBody) /\ LoopBody \in Seq(StepType)
  BY <1>5, <1>7, Joined DEF LoopBody
<1>9. /\ Len(LoopBody) = BootLen + Len(MayWait)
      /\ \A k \in 1 .. BootLen : LoopBody[k] = Here.cpu_boot[k]
      /\ \A k \in 1 .. Len(MayWait) : LoopBody[BootLen + k] = MayWait[k]
  BY <1>8 DEF JoinOf, BootLen
<1>10. ASSUME conf.waits PROVE LoopBody[BootLen + 1] = Op("wait") /\ LoopBody[BootLen + 1].op = "wait"
  <2>1. LoopBody[BootLen + 1] = MayWait[1]
    BY <1>7, <1>9, <1>10
  <2>2. MayWait[1] = Op("wait")
    BY <1>10 DEF MayWait
  <2> QED
    BY <1>6, <2>1, <2>2
<1> QED
  BY <1>1, <1>2, <1>3, <1>4, <1>7, <1>8, <1>9, <1>10 DEF LoopHead

\* p is a, the step f, b, the step g and e.
LaidOut(p, a, f, b, g, e) ==
    LET h == Len(a)
        n == Len(b)
    IN  /\ p \in Seq(StepType) /\ Len(p) = h + 1 + n + 1 + Len(e)
        /\ \A k \in 1 .. h : p[k] = a[k]
        /\ p[h + 1] = f
        /\ \A k \in 1 .. n : p[h + 1 + k] = b[k]
        /\ p[h + 1 + n + 1] = g
        /\ \A k \in 1 .. Len(e) : p[h + 1 + n + 1 + k] = e[k]

LEMMA LoopLength ==
  ASSUME NEW b \in Seq(StepType), NEW f \in StepType, NEW g \in StepType
  PROVE  Len(<<f>> \o b \o <<g>>) = Len(b) + 2
<1>1. <<f>> \in Seq(StepType) /\ Len(<<f>>) = 1 /\ <<g>> \in Seq(StepType) /\ Len(<<g>>) = 1
  OBVIOUS
<1>2. JoinOf(<<f>>, b, <<f>> \o b) /\ <<f>> \o b \in Seq(StepType)
  BY <1>1, Joined
<1>3. JoinOf(<<f>> \o b, <<g>>, <<f>> \o b \o <<g>>)
  BY <1>1, <1>2, Joined
<1> QED
  BY <1>1, <1>2, <1>3 DEF JoinOf

\* Where the parts of the first CPU's program lie.
LEMMA LayOut ==
  ASSUME NEW a \in Seq(StepType), NEW f \in StepType, NEW b \in Seq(StepType), NEW g \in StepType,
         NEW e \in Seq(StepType)
  PROVE  LaidOut(a \o (<<f>> \o b \o <<g>>) \o e, a, f, b, g, e)
<1> DEFINE h == Len(a)
           n == Len(b)
           c == <<f>> \o b
           d == c \o <<g>>
           u == a \o d
           p == u \o e
<1>1. h \in Nat /\ n \in Nat /\ Len(e) \in Nat
  BY LenProperties
<1>2. /\ <<f>> \in Seq(StepType) /\ Len(<<f>>) = 1 /\ <<f>>[1] = f
      /\ <<g>> \in Seq(StepType) /\ Len(<<g>>) = 1 /\ <<g>>[1] = g
  OBVIOUS
<1>3. JoinOf(<<f>>, b, c) /\ c \in Seq(StepType)
  BY <1>2, Joined
<1> HIDE DEF c
<1>4. JoinOf(c, <<g>>, d) /\ d \in Seq(StepType)
  BY <1>2, <1>3, Joined
<1> HIDE DEF d
<1>5. JoinOf(a, d, u) /\ u \in Seq(StepType)
  BY <1>4, Joined
<1> HIDE DEF u
<1>6. JoinOf(u, e, p) /\ p \in Seq(StepType)
  BY <1>5, Joined
<1> HIDE DEF p, h, n
<1>7. /\ Len(c) = 1 + n /\ Len(d) = 1 + n + 1 /\ Len(u) = h + (1 + n + 1)
      /\ Len(p) = h + (1 + n + 1) + Len(e)
  BY <1>2, <1>3, <1>4, <1>5, <1>6 DEF JoinOf, h, n
<1>8. ASSUME NEW k \in 1 .. h PROVE p[k] = a[k]
  <2>1. k \in 1 .. Len(u) /\ k \in 1 .. Len(a)
    BY <1>1, <1>7 DEF h
  <2> QED
    BY <1>5, <1>6, <2>1 DEF JoinOf
<1>9. ASSUME NEW k \in 1 .. 1 + n + 1 PROVE p[h + k] = d[k]
  <2>1. h + k \in 1 .. Len(u) /\ k \in 1 .. Len(d) /\ Len(a) + k = h + k
    BY <1>1, <1>7 DEF h
  <2>2. p[h + k] = u[h + k]
    BY <1>6, <2>1 DEF JoinOf
  <2>3. u[Len(a) + k] = d[k]
    BY <1>5, <2>1 DEF JoinOf
  <2> QED
    BY <2>1, <2>2, <2>3
<1>10. ASSUME NEW k \in 1 .. 1 + n PROVE d[k] = c[k]
  <2>1. k \in 1 .. Len(c)
    BY <1>7
  <2> QED
    BY <1>4, <2>1 DEF JoinOf
<1>11. p[h + 1] = f
  <2>1. 1 \in 1 .. 1 + n + 1 /\ 1 \in 1 .. 1 + n /\ 1 \in 1 .. Len(<<f>>)
    BY <1>1, <1>2
  <2>2. c[1] = <<f>>[1]
    BY <1>3, <2>1 DEF JoinOf
  <2> QED
    BY <1>2, <1>9, <1>10, <2>1, <2>2
<1>12. ASSUME NEW k \in 1 .. n PROVE p[h + 1 + k] = b[k]
  <2>1. /\ 1 + k \in 1 .. 1 + n + 1 /\ 1 + k \in 1 .. 1 + n /\ h + 1 + k = h + (1 + k)
        /\ k \in 1 .. Len(b) /\ Len(<<f>>) + k = 1 + k
    BY <1>1, <1>2 DEF n
  <2>2. c[Len(<<f>>) + k] = b[k]
    BY <1>3, <2>1 DEF JoinOf
  <2> QED
    BY <1>9, <1>10, <2>1, <2>2
<1>13. p[h + 1 + n + 1] = g
  <2>1. /\ 1 + n + 1 \in 1 .. 1 + n + 1 /\ h + 1 + n + 1 = h + (1 + n + 1)
        /\ 1 \in 1 .. Len(<<g>>) /\ Len(c) + 1 = 1 + n + 1
    BY <1>1, <1>2, <1>7
  <2>2. d[Len(c) + 1] = <<g>>[1]
    BY <1>4, <2>1 DEF JoinOf
  <2> QED
    BY <1>2, <1>9, <2>1, <2>2
<1>14. ASSUME NEW k \in 1 .. Len(e) PROVE p[h + 1 + n + 1 + k] = e[k]
  <2>1. h + 1 + n + 1 + k = Len(u) + k
    BY <1>1, <1>7
  <2> QED
    BY <1>6, <2>1 DEF JoinOf
<1>15. Len(p) = h + 1 + n + 1 + Len(e)
  BY <1>1, <1>7
<1> QED
  BY <1>6, <1>8, <1>11, <1>12, <1>13, <1>14, <1>15 DEF LaidOut, p, u, d, c, h, n

\* The first CPU's program around the loop.
LEMMA PrimaryLayout ==
  ASSUME ConfInv
  PROVE  /\ PrimaryProgram \in Seq(StepType)
         /\ Len(Loop) = Len(LoopBody) + 2
         /\ Len(PrimaryProgram) = LoopHead + Len(LoopBody) + 3
         /\ \A k \in 1 .. LoopHead - 1 : PrimaryProgram[k] = BeforeLoop[k]
         /\ PrimaryProgram[LoopHead].op = "for"
         /\ \A k \in 1 .. Len(LoopBody) : PrimaryProgram[LoopHead + k] = LoopBody[k]
         /\ PrimaryProgram[LoopHead + Len(LoopBody) + 1].op = "next"
         /\ PrimaryProgram[LoopHead + Len(LoopBody) + 2].op = "barrier"
         /\ PrimaryProgram[LoopHead + Len(LoopBody) + 3].op \in {"off", "halt"}
         /\ PrimaryProgram[LoopHead] = Op("for")
         /\ PrimaryProgram[LoopHead + Len(LoopBody) + 1] = Op("next")
         /\ PrimaryProgram[LoopHead + Len(LoopBody) + 2] = Op("barrier")
         /\ PrimaryProgram[LoopHead + Len(LoopBody) + 3] = Here.system_off
<1> DEFINE n == Len(LoopBody)
           h == Len(BeforeLoop)
           E == <<Op("barrier"), Here.system_off>>
<1>1. /\ Op("for") \in StepType /\ Op("for").op = "for" /\ Op("next") \in StepType
      /\ Op("next").op = "next" /\ Op("barrier") \in StepType /\ Op("barrier").op = "barrier"
  BY KernelSteps DEF StepOf
<1>2. Here.system_off \in StepType /\ Here.system_off.op \in {"off", "halt"}
  BY HereIsFit DEF Fit, StepOf
<1>3. E \in Seq(StepType) /\ Len(E) = 2 /\ E[1] = Op("barrier") /\ E[2] = Here.system_off
  BY <1>1, <1>2
<1>4. /\ BeforeLoop \in Seq(StepType) /\ h \in Nat /\ LoopHead = h + 1
      /\ LoopBody \in Seq(StepType) /\ n \in Nat
  BY EntryComesFirst, Lengths, LenProperties DEF Continues, LoopHead
<1>5. LaidOut(PrimaryProgram, BeforeLoop, Op("for"), LoopBody, Op("next"), E)
  BY <1>1, <1>3, <1>4, LayOut DEF PrimaryProgram, Loop
<1>6. Len(Loop) = n + 2
  BY <1>1, <1>4, LoopLength DEF Loop
<1>7. /\ PrimaryProgram \in Seq(StepType) /\ Len(PrimaryProgram) = h + 1 + n + 1 + Len(E)
      /\ \A k \in 1 .. h : PrimaryProgram[k] = BeforeLoop[k]
      /\ PrimaryProgram[h + 1] = Op("for")
      /\ \A k \in 1 .. n : PrimaryProgram[h + 1 + k] = LoopBody[k]
      /\ PrimaryProgram[h + 1 + n + 1] = Op("next")
      /\ \A k \in 1 .. Len(E) : PrimaryProgram[h + 1 + n + 1 + k] = E[k]
  BY <1>5, Zenon DEF LaidOut
<1> HIDE DEF n, h, E
<1>8. /\ PrimaryProgram[h + 1 + n + 2] = Op("barrier")
      /\ PrimaryProgram[h + 1 + n + 3] = Here.system_off
  <2>1. /\ 1 \in 1 .. Len(E) /\ 2 \in 1 .. Len(E)
        /\ h + 1 + n + 2 = h + 1 + n + 1 + 1 /\ h + 1 + n + 3 = h + 1 + n + 1 + 2
    BY <1>3, <1>4
  <2> QED
    BY <1>3, <1>7, <2>1
<1>9. h + 1 + n + 1 + Len(E) = LoopHead + n + 3 /\ LoopHead - 1 = h
  BY <1>3, <1>4
<1> QED
  BY <1>1, <1>2, <1>4, <1>6, <1>7, <1>8, <1>9 DEF n

\* What the kind of the step says about the place, on the first CPU.
LEMMA PrimaryPlace ==
  ASSUME ConfInv, NEW q \in 1 .. Len(PrimaryProgram), NEW op, op = PrimaryProgram[q].op
  PROVE  /\ op \in EntryOps \cup {"remap"} <=> q < LoopHead
         /\ op \in EntryOps \ {"call"} => q <= Len(Here.start)
         /\ q <= Len(Here.start) => PrimaryProgram[q] = Here.start[q]
         /\ op = "for" <=> q = LoopHead
         /\ op = "stack" <=> (SharesSlot /\ q = LoopHead + 1)
         /\ op = "clean" <=> (Uncached /\ q = LoopHead + 2)
         /\ op = "release" <=> q = LoopHead + BootLen
         /\ op = "wait" <=> (conf.waits /\ q = LoopHead + BootLen + 1)
         /\ op = "next" <=> q = LoopHead + Len(LoopBody) + 1
         /\ op = "barrier" <=> q = LoopHead + Len(LoopBody) + 2
         /\ op \in {"off", "halt"} <=> q = LoopHead + Len(LoopBody) + 3
<1> DEFINE n == Len(LoopBody)
<1>1. /\ LoopHead \in Nat /\ Len(Here.start) \in Nat \ {0} /\ Len(Here.start) < LoopHead
      /\ BootLen = IF Uncached THEN 3 ELSE IF SharesSlot THEN 2 ELSE 1
      /\ n = IF conf.waits THEN BootLen + 1 ELSE BootLen
      /\ Len(PrimaryProgram) = LoopHead + n + 3
  BY Lengths, PrimaryLayout
<1>2. Uncached => SharesSlot
  BY DEF Uncached, SharesSlot
<1> HIDE DEF n
<1>3. CASE q < LoopHead
  <2>0. q \in 1 .. LoopHead - 1
    BY <1>1, <1>3
  <2>1. q \in 1 .. LoopHead - 1 /\ PrimaryProgram[q] = BeforeLoop[q]
    BY <2>0, PrimaryLayout
  <2>2. CASE q <= Len(Here.start)
    <3>1. q \in 1 .. Len(Here.start)
      BY <2>1, <2>2, <1>1
    <3>2. BeforeLoop[q] = Here.start[q]
      BY <3>1, EntryComesFirst DEF Continues
    <3>3. op \in EntryOps
      BY <2>1, <3>1, <3>2, HereIsFit, StepsOf DEF Fit
    <3> QED
      BY <1>1, <1>3, <2>1, <2>2, <3>2, <3>3 DEF EntryOps
  <2>3. CASE ~(q <= Len(Here.start))
    <3>1. q \in Len(Here.start) + 1 .. Len(BeforeLoop)
      BY <1>1, <1>3, <2>3 DEF LoopHead
    <3>2. op \in {"call", "remap"}
      BY <2>1, <3>1, EntryComesFirst DEF Continues
    <3> QED
      BY <1>1, <1>3, <2>3, <3>2 DEF EntryOps
  <2> QED
    BY <2>2, <2>3
<1>4. CASE q = LoopHead
  <2>1. op = "for"
    BY <1>4, PrimaryLayout
  <2> QED
    BY <1>1, <1>4, <2>1 DEF EntryOps
<1>5. CASE q \in LoopHead + 1 .. LoopHead + BootLen
  <2>1. PICK k \in 1 .. BootLen : q = LoopHead + k
    <3>1. q - LoopHead \in 1 .. BootLen /\ q = LoopHead + (q - LoopHead)
      BY <1>1, <1>5
    <3> QED
      BY <3>1
  <2>2. PrimaryProgram[q] = Here.cpu_boot[k]
    <3>1. k \in 1 .. n
      BY <1>1
    <3> QED
      BY <2>1, <3>1, PrimaryLayout, Lengths DEF n
  <2>3. /\ op = "release" <=> k = BootLen
        /\ op = "stack" <=> (k = 1 /\ BootLen > 1)
        /\ op = "clean" <=> (k = 2 /\ BootLen = 3)
    BY <2>2, HereIsFit DEF Fit, Passes, BootLen
  <2>4. op \in {"stack", "clean", "release"}
    BY <1>1, <2>2, HereIsFit, StepsOf DEF Fit, Passes, BootLen
  <2>5. /\ q \in Nat /\ ~(q < LoopHead) /\ ~(q <= Len(Here.start)) /\ q # LoopHead
        /\ q # LoopHead + BootLen + 1 /\ q # LoopHead + n + 1 /\ q # LoopHead + n + 2
        /\ q # LoopHead + n + 3
    BY <1>1, <2>1
  <2>6. /\ k = BootLen <=> q = LoopHead + BootLen
        /\ k = 1 <=> q = LoopHead + 1
        /\ k = 2 <=> q = LoopHead + 2
    BY <1>1, <2>1
  <2>7. (BootLen > 1 <=> SharesSlot) /\ (BootLen = 3 <=> Uncached)
    BY <1>1, <1>2
  <2> QED
    BY <2>3, <2>4, <2>5, <2>6, <2>7 DEF EntryOps, n
<1>6. CASE conf.waits /\ q = LoopHead + BootLen + 1
  <2>1. BootLen + 1 \in 1 .. n /\ LoopHead + (BootLen + 1) = q
    BY <1>1, <1>6
  <2>2. op = "wait"
    BY <1>6, <2>1, PrimaryLayout, Lengths DEF n
  <2>3. /\ q \in Nat /\ ~(q < LoopHead) /\ ~(q <= Len(Here.start)) /\ q # LoopHead
        /\ q # LoopHead + BootLen /\ q # LoopHead + n + 1 /\ q # LoopHead + n + 2
        /\ q # LoopHead + n + 3 /\ ~(SharesSlot /\ q = LoopHead + 1)
        /\ ~(Uncached /\ q = LoopHead + 2)
    BY <1>1, <1>2, <1>6
  <2> QED
    BY <1>6, <2>2, <2>3 DEF EntryOps, n
<1>7. CASE q = LoopHead + n + 1
  <2>1. op = "next"
    BY <1>7, PrimaryLayout DEF n
  <2> QED
    BY <1>1, <1>7, <2>1 DEF EntryOps, n
<1>8. CASE q = LoopHead + n + 2
  <2>1. op = "barrier"
    BY <1>8, PrimaryLayout DEF n
  <2> QED
    BY <1>1, <1>8, <2>1 DEF EntryOps, n
<1>9. CASE q = LoopHead + n + 3
  <2>1. op \in {"off", "halt"}
    BY <1>9, PrimaryLayout DEF n
  <2> QED
    BY <1>1, <1>9, <2>1 DEF EntryOps, n
<1> QED
  BY <1>1, <1>3, <1>4, <1>5, <1>6, <1>7, <1>8, <1>9

\* The other CPUs run entry code and calls only.
LEMMA SecondaryPlace ==
  ASSUME ConfInv, NEW q \in 1 .. Len(SecondaryProgram), NEW op, op = SecondaryProgram[q].op
  PROVE  /\ op \in (EntryOps \cup {"remap"}) \ {"table"}
         /\ op \in EntryOps \ {"call"} => q <= Len(Here.secondary)
         /\ q <= Len(Here.secondary) => SecondaryProgram[q] = Here.secondary[q]
<1>1. /\ Len(Here.secondary) \in Nat \ {0} /\ Len(SecondaryProgram) \in Nat
      /\ Len(Here.secondary) <= Len(SecondaryProgram)
  BY Lengths, LenProperties
<1>2. CASE q <= Len(Here.secondary)
  <2>1. q \in 1 .. Len(Here.secondary)
    BY <1>1, <1>2
  <2>2. SecondaryProgram[q] = Here.secondary[q]
    BY <2>1, EntryComesFirst DEF Continues
  <2>3. op \in EntryOps \ {"table"}
    BY <2>1, <2>2, HereIsFit, StepsOf DEF Fit
  <2> QED
    BY <1>2, <2>2, <2>3
<1>3. CASE ~(q <= Len(Here.secondary))
  <2>1. q \in Len(Here.secondary) + 1 .. Len(SecondaryProgram)
    BY <1>1, <1>3
  <2>2. op \in {"call", "remap"}
    BY <2>1, EntryComesFirst DEF Continues
  <2> QED
    BY <1>3, <2>2 DEF EntryOps
<1> QED
  BY <1>2, <1>3

-----------------------------------------------------------------------------
(* The inductive invariant.                                                *)

\* The entry code of each CPU and the length of its whole program.
EntryCode == [c \in CPU |-> IF c = Primary THEN Here.start ELSE Here.secondary]
Length == [c \in CPU |-> Len(Program(c))]
BodyLen == Len(LoopBody)

\* The first CPU runs the loop from LoopHead to Latch, and in the loop it is at
\* Started once CPU i has been started.
Started == LoopHead + BootLen + 1
Latch == LoopHead + BodyLen + 1

TypeInv ==
    /\ table \in SUBSET TableEntry
    /\ pc \in [CPU -> Nat]
    /\ at \in [CPU -> Half]
    /\ sp \in [CPU -> [half : Half, page : Int]]
    /\ root \in [CPU -> {"none", "boot", "kernel"}]
    /\ own \in [CPU -> Cells]
    /\ slot \in [cached : Int, memory : Int]
    /\ i \in 0 .. CPU_NUM
    /\ given \in [CPU -> Int]
    /\ DOMAIN id = CPU
    /\ powered \in BOOLEAN

\* The first CPU never stops being on; in the loop's body i is another CPU.
LoopInv ==
    /\ \A c \in CPU : pc[c] \in 0 .. Length[c] + 1
    /\ pc[Primary] # 0
    /\ pc[Primary] < LoopHead => i = 0
    /\ pc[Primary] \in LoopHead + 1 .. Latch => i \in Secondary

\* The CPUs that are on are those the loop has passed; if the kernel waits,
\* only the last of them may still be on its way.
OnInv ==
    \A c \in Secondary : pc[c] # 0 =>
        /\ c < i \/ (c = i /\ pc[Primary] \in Started .. Latch)
        /\ given[c] = Here.kernel + IMAGE - 1 - c
        /\ conf.waits /\ pc[c] <= Length[c] => c = i /\ pc[Primary] = Started

\* From the store to the wait the cell holds the stack of CPU i, and on raspi
\* so does memory from the write-back on.
SlotInv ==
    LET stack == Here.kernel + IMAGE - 1 - i
    IN  SharesSlot =>
          /\ pc[Primary] \in LoopHead + 2 .. Started => slot.cached = stack
          /\ Uncached /\ pc[Primary] \in LoopHead + 3 .. Started => slot.memory = stack

GivenInv ==
    \A c \in CPU : given[c] \in {None, Here.kernel + IMAGE - 1 - c}

\* What the steps k of the entry code that c has taken have left.
Left(c, k) ==
    LET s == EntryCode[c][k]
    IN  /\ s.op = "mmu" => root[c] # "none"
        /\ SetsStack(s) => sp[c].page = StackOf(c)
        /\ s.op = "call" => s.own \subseteq own[c]
        /\ /\ s.op \in {"sp_high", "sp_virt"}
           /\ \A l \in k + 1 .. Len(EntryCode[c]) : EntryCode[c][l].op # "sp"
           => sp[c].half = "high"

ReadyInv ==
    \A c \in CPU : \A k \in 1 .. Len(EntryCode[c]) : k < pc[c] => Left(c, k)

EntryInv ==
    \A c \in CPU : /\ id[c] # None => pc[c] > Len(EntryCode[c]) /\ at[c] = "high"
                   /\ conf.platform \notin MaybeEL2 => "kernel_mode" \in own[c]

\* Translation is on only behind the step that turns it on.
RootInv ==
    \A c \in CPU : root[c] # "none" =>
        \E k \in 1 .. Len(EntryCode[c]) : k < pc[c] /\ EntryCode[c][k].op = "mmu"

\* arm-qemu-virt writes its table twice, the second time while it is in use.
ArmInv ==
    conf.platform = "arm" => /\ pc[Primary] <= 3 => table = {}
                             /\ pc[Primary] \in 4 .. 7 => table = ArmPageTable.map

IInv == /\ ConfInv /\ TypeInv /\ LoopInv /\ OnInv /\ SlotInv /\ GivenInv
        /\ ReadyInv /\ EntryInv /\ RootInv /\ ArmInv

-----------------------------------------------------------------------------
(* The programs do not change, and the kind of a step tells its place.     *)

\* The programs depend only on the machine, which does not change.
LEMMA Stays ==
  ASSUME conf' = conf
  PROVE  /\ Here' = Here /\ Primary' = Primary /\ Secondary' = Secondary
         /\ SharesSlot' <=> SharesSlot
         /\ Uncached' <=> Uncached
         /\ LoopHead' = LoopHead /\ Started' = Started /\ Latch' = Latch
         /\ EntryCode' = EntryCode /\ Length' = Length
<1>1. /\ Here' = Here /\ Primary' = Primary /\ Secondary' = Secondary
      /\ SharesSlot' <=> SharesSlot
      /\ Uncached' <=> Uncached
  BY DEF Here, Primary, Secondary, SharesSlot, Uncached
<1>2. MayRemap' = MayRemap /\ MayWait' = MayWait
  BY DEF MayRemap, Remap, MayWait
<1>3. BeforeLoop' = BeforeLoop /\ LoopBody' = LoopBody /\ SecondaryProgram' = SecondaryProgram
  BY <1>1, <1>2 DEF BeforeLoop, LoopBody, SecondaryProgram
<1>4. PrimaryProgram' = PrimaryProgram
  BY <1>1, <1>3 DEF PrimaryProgram, Loop
<1>5. LoopHead' = LoopHead /\ BootLen' = BootLen /\ BodyLen' = BodyLen
  BY <1>1, <1>3 DEF LoopHead, BootLen, BodyLen
<1>6. Started' = Started /\ Latch' = Latch
  BY <1>5 DEF Started, Latch
<1>7. EntryCode' = EntryCode
  BY <1>1 DEF EntryCode
<1>8. Length' = Length
  BY <1>1, <1>3, <1>4 DEF Length, Program
<1> QED
  BY <1>1, <1>5, <1>6, <1>7, <1>8

\* The places of the loop and the lengths of the programs.
LEMMA Numbers ==
  ASSUME ConfInv
  PROVE  /\ LoopHead \in Nat
         /\ Started = LoopHead + (IF Uncached THEN 4 ELSE IF SharesSlot THEN 3 ELSE 2)
         /\ Latch = IF conf.waits THEN Started + 1 ELSE Started
         /\ Length[Primary] = Latch + 2
         /\ Len(EntryCode[Primary]) < LoopHead
         /\ \A c \in CPU : /\ Length[c] \in Nat /\ Len(EntryCode[c]) \in Nat \ {0}
                           /\ Len(EntryCode[c]) <= Length[c]
                           /\ Program(c) \in Seq(StepType) /\ DOMAIN Program(c) = 1 .. Length[c]
         /\ Primary \in CPU
<1>1. Primary \in CPU
  BY DEF ConfInv, Primary
<1>2. /\ Length[Primary] = Len(PrimaryProgram) /\ EntryCode[Primary] = Here.start
      /\ \A c \in CPU : Program(c) = IF c = Primary THEN PrimaryProgram ELSE SecondaryProgram
      /\ \A c \in CPU \ {Primary} : /\ Length[c] = Len(SecondaryProgram)
                                    /\ EntryCode[c] = Here.secondary
  BY <1>1 DEF Length, EntryCode, Program
<1>3. PrimaryProgram \in Seq(StepType) /\ SecondaryProgram \in Seq(StepType)
  BY PrimaryLayout, Lengths
<1>4. /\ LoopHead \in Nat /\ BootLen = IF Uncached THEN 3 ELSE IF SharesSlot THEN 2 ELSE 1
      /\ BodyLen = IF conf.waits THEN BootLen + 1 ELSE BootLen
      /\ Len(Here.start) \in Nat \ {0} /\ Len(Here.start) < LoopHead
      /\ Len(Here.secondary) \in Nat \ {0} /\ Len(Here.secondary) <= Len(SecondaryProgram)
      /\ Len(PrimaryProgram) = LoopHead + BodyLen + 3
  BY PrimaryLayout, Lengths DEF BodyLen
<1>5. /\ Len(PrimaryProgram) \in Nat /\ DOMAIN PrimaryProgram = 1 .. Len(PrimaryProgram)
      /\ Len(SecondaryProgram) \in Nat /\ DOMAIN SecondaryProgram = 1 .. Len(SecondaryProgram)
  BY <1>3, LenProperties
<1>6. Len(Here.start) <= Len(PrimaryProgram)
  BY <1>4, <1>5
<1>7. \A c \in CPU : /\ Length[c] \in Nat /\ Len(EntryCode[c]) \in Nat \ {0}
                     /\ Len(EntryCode[c]) <= Length[c]
                     /\ Program(c) \in Seq(StepType) /\ DOMAIN Program(c) = 1 .. Length[c]
  <2> TAKE c \in CPU
  <2>1. CASE c = Primary
    BY <1>2, <1>3, <1>4, <1>5, <1>6, <2>1
  <2>2. CASE c # Primary
    BY <1>2, <1>3, <1>4, <1>5, <2>2
  <2> QED
    BY <2>1, <2>2
<1>8. /\ Started = LoopHead + (IF Uncached THEN 4 ELSE IF SharesSlot THEN 3 ELSE 2)
      /\ Latch = IF conf.waits THEN Started + 1 ELSE Started
      /\ Length[Primary] = Latch + 2
  BY <1>2, <1>4 DEF Started, Latch
<1> QED
  BY <1>1, <1>2, <1>4, <1>7, <1>8

\* The step of c is one of its program, in the entry code one of that.
LEMMA TheStep ==
  ASSUME ConfInv, NEW c \in CPU, pc[c] \in DOMAIN Program(c)
  PROVE  /\ pc[c] \in 1 .. Length[c]
         /\ Step(c) \in StepType
         /\ Step(c).op \in EntryOps \ {"call"} => pc[c] <= Len(EntryCode[c])
         /\ pc[c] <= Len(EntryCode[c]) => Step(c) = EntryCode[c][pc[c]]
         /\ c # Primary => Step(c).op \in (EntryOps \cup {"remap"}) \ {"table"}
<1>1. pc[c] \in 1 .. Length[c] /\ Program(c) \in Seq(StepType) /\ Length[c] = Len(Program(c))
  BY Numbers DEF Length
<1>2. Step(c) \in StepType
  BY <1>1, ElementOfSeq DEF Step
<1>3. CASE c = Primary
  <2>1. Program(c) = PrimaryProgram /\ EntryCode[c] = Here.start
    BY <1>3 DEF Program, EntryCode
  <2>2. pc[c] \in 1 .. Len(PrimaryProgram) /\ Step(c) = PrimaryProgram[pc[c]]
    BY <1>1, <2>1 DEF Step
  <2>3. /\ Step(c).op \in EntryOps \ {"call"} => pc[c] <= Len(Here.start)
        /\ pc[c] <= Len(Here.start) => PrimaryProgram[pc[c]] = Here.start[pc[c]]
    BY <2>2, PrimaryPlace
  <2> QED
    BY <1>1, <1>2, <1>3, <2>1, <2>2, <2>3
<1>4. CASE c # Primary
  <2>1. Program(c) = SecondaryProgram /\ EntryCode[c] = Here.secondary
    BY <1>4 DEF Program, EntryCode
  <2>2. pc[c] \in 1 .. Len(SecondaryProgram) /\ Step(c) = SecondaryProgram[pc[c]]
    BY <1>1, <2>1 DEF Step
  <2>3. /\ Step(c).op \in (EntryOps \cup {"remap"}) \ {"table"}
        /\ Step(c).op \in EntryOps \ {"call"} => pc[c] <= Len(Here.secondary)
        /\ pc[c] <= Len(Here.secondary) => SecondaryProgram[pc[c]] = Here.secondary[pc[c]]
    BY <2>2, SecondaryPlace
  <2> QED
    BY <1>1, <1>2, <2>1, <2>2, <2>3
<1> QED
  BY <1>3, <1>4

\* The steps of the loop and behind it are the first CPU's, each at its place.
LEMMA LoopStep ==
  ASSUME ConfInv, NEW c \in CPU, pc[c] \in DOMAIN Program(c)
  PROVE  /\ c = Primary => (Step(c).op \in EntryOps \cup {"remap"} <=> pc[c] < LoopHead)
         /\ Step(c).op = "for" => c = Primary /\ pc[c] = LoopHead
         /\ Step(c).op = "stack" => c = Primary /\ SharesSlot /\ pc[c] = LoopHead + 1
         /\ Step(c).op = "clean" => c = Primary /\ Uncached /\ pc[c] = LoopHead + 2
         /\ Step(c).op = "release" => c = Primary /\ pc[c] + 1 = Started
         /\ Step(c).op = "wait" => c = Primary /\ conf.waits /\ pc[c] = Started
         /\ Step(c).op = "next" => c = Primary /\ pc[c] = Latch
         /\ Step(c).op = "barrier" => c = Primary /\ pc[c] = Latch + 1
         /\ Step(c).op \in {"off", "halt"} => c = Primary /\ pc[c] = Latch + 2
<1>1. CASE c # Primary
  BY <1>1, TheStep DEF EntryOps
<1>2. CASE c = Primary
  <2>1. Program(c) = PrimaryProgram /\ Length[c] = Len(PrimaryProgram)
    BY <1>2 DEF Program, Length
  <2>2. pc[c] \in 1 .. Len(PrimaryProgram) /\ Step(c) = PrimaryProgram[pc[c]]
    BY TheStep, <2>1 DEF Step
  <2>3. /\ LoopHead \in Nat /\ BootLen \in Nat /\ Len(LoopBody) \in Nat
    BY Lengths
  <2>4. /\ Started = LoopHead + BootLen + 1 /\ Latch = LoopHead + Len(LoopBody) + 1
        /\ LoopHead + BootLen + 1 = Started /\ Latch + 1 = LoopHead + Len(LoopBody) + 2
        /\ Latch + 2 = LoopHead + Len(LoopBody) + 3
    BY <2>3 DEF Started, Latch, BodyLen
  <2> DEFINE q == pc[c]
             op == Step(c).op
  <2>5. op = PrimaryProgram[q].op
    BY <2>2
  <2> HIDE DEF q, op
  <2>6. /\ op \in EntryOps \cup {"remap"} <=> q < LoopHead
        /\ op = "for" <=> q = LoopHead
        /\ op = "stack" <=> (SharesSlot /\ q = LoopHead + 1)
        /\ op = "clean" <=> (Uncached /\ q = LoopHead + 2)
        /\ op = "release" <=> q = LoopHead + BootLen
        /\ op = "wait" <=> (conf.waits /\ q = LoopHead + BootLen + 1)
        /\ op = "next" <=> q = LoopHead + Len(LoopBody) + 1
        /\ op = "barrier" <=> q = LoopHead + Len(LoopBody) + 2
        /\ op \in {"off", "halt"} <=> q = LoopHead + Len(LoopBody) + 3
    BY <2>2, <2>5, PrimaryPlace DEF q
  <2> QED
    BY <1>2, <2>3, <2>4, <2>6 DEF q, op
<1> QED
  BY <1>1, <1>2

-----------------------------------------------------------------------------
(* The steps outside the loop: c goes on to the next one.                  *)

EntryStep(c) ==
    \/ Call(c) \/ LoadStack(c) \/ RaiseStack(c) \/ InitPageTable(c)
    \/ init_mmu(c) \/ Jump(c) \/ EnterMain(c) \/ RemapKernel(c)

LoopOrEnd(c) ==
    \/ StoreStack(c) \/ flush_dcache_line(c) \/ StartCpu(c)
    \/ Wait(c) \/ For(c) \/ NextCpu(c) \/ system_off(c)

Moved(c) ==
    /\ pc[c] \in 1 .. Length[c]
    /\ c = Primary => pc[c] < LoopHead
    /\ pc' = [pc EXCEPT ![c] = pc[c] + 1]
    /\ conf' = conf /\ slot' = slot /\ i' = i /\ given' = given /\ powered' = powered

\* A step outside the loop moves c on.
LEMMA EntryMoves ==
  ASSUME ConfInv, NEW c \in CPU, EntryStep(c)
  PROVE  Moved(c)
<1>1. /\ pc[c] \in DOMAIN Program(c) /\ Step(c).op \in EntryOps \cup {"remap"}
      /\ pc' = [pc EXCEPT ![c] = pc[c] + 1]
      /\ conf' = conf /\ slot' = slot /\ i' = i /\ given' = given /\ powered' = powered
  BY DEF EntryStep, Call, LoadStack, RaiseStack, InitPageTable, init_mmu, Jump, EnterMain,
         RemapKernel, Does, Advance, EntryOps
<1> QED
  BY <1>1, TheStep, LoopStep DEF Moved

LEMMA StackNumbers ==
  ASSUME ConfInv, NEW c \in Int
  PROVE  StackOf(c) \in Int /\ StackOf(c) = Here.kernel + IMAGE - 1 - c /\ Here.kernel \in Nat
<1>1. Here.kernel \in Nat
  BY HereIsFit DEF Fit
<1> QED
  BY <1>1, ImageAssumption DEF StackOf

\* CPUs are numbers.
LEMMA CpuNumbers ==
  ASSUME ConfInv
  PROVE  /\ CPU_NUM \in Nat \ {0} /\ CPU \subseteq Nat /\ Secondary \subseteq Nat
         /\ Primary \in CPU /\ Secondary = CPU \ {Primary}
         /\ \A c : c \in CPU <=> c \in Nat /\ c < CPU_NUM
BY CpuNumAssumption DEF CPU, Secondary, ConfInv, Primary

\* Such a step does not disturb the loop.
LEMMA MovedControl ==
  ASSUME ConfInv, TypeInv, LoopInv, OnInv, SlotInv, GivenInv, NEW c \in CPU, Moved(c)
  PROVE  LoopInv' /\ OnInv' /\ SlotInv' /\ GivenInv'
<1>1. /\ Here' = Here /\ Primary' = Primary /\ Secondary' = Secondary
      /\ SharesSlot' <=> SharesSlot
      /\ Uncached' <=> Uncached
      /\ LoopHead' = LoopHead /\ Started' = Started /\ Latch' = Latch
      /\ EntryCode' = EntryCode /\ Length' = Length /\ conf' = conf
  BY Stays DEF Moved
<1>2. /\ LoopHead \in Nat /\ Started \in Nat /\ Latch \in Nat
      /\ LoopHead + 2 <= Started /\ Started <= Latch
      /\ \A d \in CPU : Length[d] \in Nat
  BY Numbers
<1>3. /\ pc \in [CPU -> Nat] /\ i' = i /\ given' = given /\ slot' = slot
      /\ \A d \in CPU : pc'[d] = IF d = c THEN pc[c] + 1 ELSE pc[d]
      /\ pc[c] \in 1 .. Length[c] /\ (c = Primary => pc[c] < LoopHead)
  BY DEF TypeInv, Moved
<1>4. Primary \in CPU /\ Secondary \subseteq CPU
  BY CpuNumbers
<1>5. /\ pc'[Primary] = pc[Primary] \/ (pc[Primary] < LoopHead /\ pc'[Primary] = pc[Primary] + 1)
      /\ pc[Primary] \in Nat
  BY <1>3, <1>4
<1>6. LoopInv'
  <2>1. \A d \in CPU : pc'[d] \in 0 .. Length[d] + 1
    BY <1>2, <1>3 DEF LoopInv
  <2>2. /\ pc'[Primary] # 0
        /\ pc'[Primary] < LoopHead => i = 0
        /\ pc'[Primary] \in LoopHead + 1 .. Latch => i \in Secondary
    BY <1>2, <1>5 DEF LoopInv
  <2> QED
    BY <1>1, <1>3, <2>1, <2>2 DEF LoopInv
<1>7. OnInv'
  <2>1. SUFFICES ASSUME NEW d \in Secondary, pc'[d] # 0
                 PROVE  /\ d < i \/ (d = i /\ pc'[Primary] \in Started .. Latch)
                        /\ given[d] = Here.kernel + IMAGE - 1 - d
                        /\ conf.waits /\ pc'[d] <= Length[d] => d = i /\ pc'[Primary] = Started
    BY <1>1, <1>3 DEF OnInv
  <2>2. pc[d] # 0 /\ (pc'[d] <= Length[d] => pc[d] <= Length[d]) /\ d \in CPU
    BY <1>2, <1>3, <1>4, <2>1
  <2>3. pc[Primary] >= LoopHead => pc'[Primary] = pc[Primary]
    BY <1>2, <1>5
  <2> QED
    BY <1>2, <1>5, <2>1, <2>2, <2>3 DEF OnInv
<1>8. SlotInv'
  <2>1. ASSUME NEW k \in Nat, pc'[Primary] \in k .. Started, k >= LoopHead + 2
        PROVE  pc[Primary] \in k .. Started
    BY <1>2, <1>5, <2>1
  <2>2. LoopHead + 2 \in Nat /\ LoopHead + 3 \in Nat /\ LoopHead + 3 >= LoopHead + 2
        /\ LoopHead + 2 >= LoopHead + 2
    BY <1>2
  <2> QED
    BY <1>1, <1>3, <2>1, <2>2 DEF SlotInv
<1>9. GivenInv'
  BY <1>1, <1>3 DEF GivenInv
<1> QED
  BY <1>6, <1>7, <1>8, <1>9

\* What the proofs about the loop use: numbers, and what stays the same.
LEMMA LoopFacts ==
  ASSUME ConfInv, TypeInv, LoopInv, conf' = conf
  PROVE  /\ Here' = Here /\ Primary' = Primary /\ Secondary' = Secondary
         /\ SharesSlot' <=> SharesSlot
         /\ Uncached' <=> Uncached
         /\ LoopHead' = LoopHead /\ Started' = Started /\ Latch' = Latch /\ Length' = Length
         /\ LoopHead \in Nat \ {0} /\ Started \in Nat /\ Latch \in Nat
         /\ LoopHead + 2 <= Started /\ Started <= Latch
         /\ SharesSlot => LoopHead + 3 <= Started /\ conf.waits
         /\ Uncached => LoopHead + 4 = Started
         /\ conf.waits => Latch = Started + 1
         /\ Length[Primary] = Latch + 2
         /\ \A d \in CPU : Length[d] \in Nat /\ pc[d] \in Nat
         /\ Primary \in CPU /\ Secondary \subseteq CPU /\ CPU \subseteq Nat /\ i \in Nat
         /\ \A d \in Secondary : d # Primary
         /\ conf' = conf
<1>1. /\ Here' = Here /\ Primary' = Primary /\ Secondary' = Secondary
      /\ SharesSlot' <=> SharesSlot
      /\ Uncached' <=> Uncached
      /\ LoopHead' = LoopHead /\ Started' = Started /\ Latch' = Latch /\ Length' = Length
  BY Stays
<1>2. /\ LoopHead \in Nat \ {0}
      /\ Started = LoopHead + (IF Uncached THEN 4 ELSE IF SharesSlot THEN 3 ELSE 2)
      /\ Latch = IF conf.waits THEN Started + 1 ELSE Started
      /\ Length[Primary] = Latch + 2
      /\ \A d \in CPU : Length[d] \in Nat
  BY Numbers
<1>3. /\ Primary \in CPU /\ Secondary \subseteq CPU /\ CPU \subseteq Nat
      /\ \A d \in Secondary : d # Primary
  BY CpuNumbers
<1>4. (\A d \in CPU : pc[d] \in Nat) /\ i \in Nat
  BY CpuNumAssumption DEF TypeInv
<1>5. (SharesSlot => conf.waits) /\ (Uncached => SharesSlot)
  BY DEF ConfInv, SharesSlot, Uncached
<1> QED
  BY <1>1, <1>2, <1>3, <1>4, <1>5

\* The steps of the loop keep what is known about it, one by one.
LEMMA StoreStackControl ==
  ASSUME ConfInv, TypeInv, LoopInv, OnInv, SlotInv, GivenInv, NEW c \in CPU, StoreStack(c)
  PROVE  LoopInv' /\ OnInv' /\ SlotInv' /\ GivenInv'
<1>1. /\ pc[c] \in DOMAIN Program(c) /\ Step(c).op = "stack"
      /\ conf' = conf /\ i' = i /\ given' = given
      /\ pc' = [pc EXCEPT ![c] = pc[c] + 1] /\ slot' = [slot EXCEPT !.cached = StackOf(i)]
  BY DEF StoreStack, Does, Advance
<1>2. c = Primary /\ SharesSlot /\ pc[c] = LoopHead + 1
  BY <1>1, LoopStep
<1>3. /\ \A d \in CPU : pc'[d] = IF d = Primary THEN LoopHead + 2 ELSE pc[d]
      /\ pc[Primary] = LoopHead + 1
      /\ slot'.cached = Here.kernel + IMAGE - 1 - i
  <2>1. /\ pc \in [CPU -> Nat] /\ slot \in [cached : Int, memory : Int]
        /\ StackOf(i) = Here.kernel + IMAGE - 1 - i
    BY DEF TypeInv, StackOf
  <2>2. LoopHead \in Nat
    BY Numbers
  <2> QED
    BY <1>1, <1>2, <2>1, <2>2
<1>4. LoopInv'
  BY <1>1, <1>3, LoopFacts, <1>2 DEF LoopInv
<1>5. OnInv'
  BY <1>1, <1>3, LoopFacts, <1>2 DEF OnInv
<1>6. SlotInv'
  BY <1>1, <1>3, LoopFacts, <1>2 DEF SlotInv
<1>7. GivenInv'
  BY <1>1, LoopFacts DEF GivenInv
<1> QED
  BY <1>4, <1>5, <1>6, <1>7

LEMMA CleanControl ==
  ASSUME ConfInv, TypeInv, LoopInv, OnInv, SlotInv, GivenInv, NEW c \in CPU, flush_dcache_line(c)
  PROVE  LoopInv' /\ OnInv' /\ SlotInv' /\ GivenInv'
<1>1. /\ pc[c] \in DOMAIN Program(c) /\ Step(c).op = "clean"
      /\ conf' = conf /\ i' = i /\ given' = given
      /\ pc' = [pc EXCEPT ![c] = pc[c] + 1] /\ slot' = [slot EXCEPT !.memory = slot.cached]
  BY DEF flush_dcache_line, Does, Advance
<1>2. c = Primary /\ SharesSlot /\ Uncached /\ pc[c] = LoopHead + 2
  BY <1>1, LoopStep DEF Uncached, SharesSlot
<1>3. /\ \A d \in CPU : pc'[d] = IF d = Primary THEN LoopHead + 3 ELSE pc[d]
      /\ pc[Primary] = LoopHead + 2
      /\ slot'.cached = slot.cached /\ slot'.memory = slot.cached
  <2>1. pc \in [CPU -> Nat] /\ slot \in [cached : Int, memory : Int]
    BY DEF TypeInv
  <2>2. LoopHead \in Nat
    BY Numbers
  <2> QED
    BY <1>1, <1>2, <2>1, <2>2
<1>4. LoopInv'
  BY <1>1, <1>3, LoopFacts, <1>2 DEF LoopInv
<1>5. OnInv'
  BY <1>1, <1>3, LoopFacts, <1>2 DEF OnInv
<1>6. SlotInv'
  <2>1. slot.cached = Here.kernel + IMAGE - 1 - i
    BY <1>1, <1>2, <1>3, LoopFacts DEF SlotInv
  <2> QED
    BY <1>1, <1>2, <1>3, <2>1, LoopFacts DEF SlotInv
<1>7. GivenInv'
  BY <1>1, LoopFacts DEF GivenInv
<1> QED
  BY <1>4, <1>5, <1>6, <1>7

\* The CPU that is started was off: no CPU is started twice.
LEMMA StartsOffCpu ==
  ASSUME ConfInv, TypeInv, LoopInv, OnInv, NEW c \in CPU, StartCpu(c)
  PROVE  /\ c = Primary /\ pc[c] + 1 = Started /\ i \in Secondary /\ pc[i] = 0 /\ i # c
         /\ \A d \in CPU : pc'[d] = IF d = Primary THEN Started ELSE IF d = i THEN 1 ELSE pc[d]
         /\ given' = [given EXCEPT ![i] = Here.kernel + IMAGE - 1 - i]
         /\ conf' = conf /\ i' = i /\ slot' = slot
<1>1. /\ pc[c] \in DOMAIN Program(c) /\ Step(c).op = "release"
      /\ conf' = conf /\ i' = i /\ slot' = slot
      /\ pc' = [pc EXCEPT ![c] = pc[c] + 1, ![i] = 1]
      /\ given' = [given EXCEPT ![i] = Here.kernel + IMAGE - 1 - i]
  BY DEF StartCpu, Does, StackOf
<1>2. c = Primary /\ pc[c] + 1 = Started
  BY <1>1, LoopStep
<1>3. i \in Secondary /\ i # c /\ i \in CPU
  BY <1>1, <1>2, LoopFacts DEF LoopInv
<1>4. pc[i] = 0
  BY <1>1, <1>2, <1>3, LoopFacts DEF OnInv
<1>5. \A d \in CPU : pc'[d] = IF d = Primary THEN Started ELSE IF d = i THEN 1 ELSE pc[d]
  <2>1. pc \in [CPU -> Nat]
    BY DEF TypeInv
  <2> QED
    BY <1>1, <1>2, <1>3, <2>1
<1> QED
  BY <1>1, <1>2, <1>3, <1>4, <1>5

LEMMA StartCpuControl ==
  ASSUME ConfInv, TypeInv, LoopInv, OnInv, SlotInv, GivenInv, NEW c \in CPU, StartCpu(c)
  PROVE  LoopInv' /\ OnInv' /\ SlotInv' /\ GivenInv'
<1>1. /\ c = Primary /\ pc[Primary] + 1 = Started /\ i \in Secondary
      /\ \A d \in CPU : pc'[d] = IF d = Primary THEN Started ELSE IF d = i THEN 1 ELSE pc[d]
      /\ conf' = conf /\ i' = i /\ slot' = slot
  BY StartsOffCpu
<1>2. \A d \in CPU : given'[d] = IF d = i THEN Here.kernel + IMAGE - 1 - i ELSE given[d]
  <2>1. given \in [CPU -> Int] /\ given' = [given EXCEPT ![i] = Here.kernel + IMAGE - 1 - i]
    BY StartsOffCpu DEF TypeInv
  <2> QED
    BY <2>1
<1>3. LoopInv'
  BY <1>1, LoopFacts DEF LoopInv
<1>4. OnInv'
  <2>1. SUFFICES ASSUME NEW d \in Secondary, pc'[d] # 0
                 PROVE  /\ d < i \/ (d = i /\ pc'[Primary] \in Started .. Latch)
                        /\ given'[d] = Here.kernel + IMAGE - 1 - d
                        /\ conf.waits /\ pc'[d] <= Length[d] => d = i /\ pc'[Primary] = Started
    BY <1>1, LoopFacts DEF OnInv
  <2>2. pc'[Primary] = Started /\ Started \in Started .. Latch
    BY <1>1, LoopFacts
  <2>3. CASE d = i
    BY <1>1, <1>2, <2>2, <2>3, LoopFacts
  <2>4. CASE d # i
    <3>1. pc'[d] = pc[d] /\ given'[d] = given[d] /\ pc[Primary] \notin Started .. Latch
          /\ pc[Primary] # Started
      BY <1>1, <1>2, <2>4, LoopFacts
    <3> QED
      BY <2>1, <2>4, <3>1 DEF OnInv
  <2> QED
    BY <2>3, <2>4
<1>5. SlotInv'
  BY <1>1, LoopFacts DEF SlotInv
<1>6. GivenInv'
  BY <1>1, <1>2, LoopFacts DEF GivenInv
<1> QED
  BY <1>3, <1>4, <1>5, <1>6

LEMMA WaitControl ==
  ASSUME ConfInv, TypeInv, LoopInv, OnInv, SlotInv, GivenInv, NEW c \in CPU, Wait(c)
  PROVE  LoopInv' /\ OnInv' /\ SlotInv' /\ GivenInv'
<1>1. /\ pc[c] \in DOMAIN Program(c) /\ Step(c).op \in {"wait", "barrier"}
      /\ Step(c).op = "wait" => Up(i)
      /\ conf' = conf /\ i' = i /\ given' = given /\ slot' = slot
      /\ pc' = [pc EXCEPT ![c] = pc[c] + 1]
  BY DEF Wait, Does, Advance
<1>2. /\ c = Primary
      /\ \/ pc[c] = Started /\ conf.waits /\ Step(c).op = "wait"
         \/ pc[c] = Latch + 1
  BY <1>1, LoopStep
<1>3. \A d \in CPU : pc'[d] = IF d = Primary THEN pc[Primary] + 1 ELSE pc[d]
  <2>1. pc \in [CPU -> Nat]
    BY DEF TypeInv
  <2> QED
    BY <1>1, <1>2, <2>1
<1>4. LoopInv'
  BY <1>1, <1>2, <1>3, LoopFacts DEF LoopInv
<1>5. OnInv'
  <2>1. CASE pc[c] = Started /\ conf.waits /\ Step(c).op = "wait"
    <3>1. i \in Secondary /\ pc'[Primary] = Latch /\ Latch \in Started .. Latch /\ Latch # Started
      BY <1>1, <1>2, <1>3, <2>1, LoopFacts DEF LoopInv
    <3>2. pc[i] > Length[i]
      BY <1>1, <2>1, <3>1, LoopFacts DEF Up, Length
    <3>3. SUFFICES ASSUME NEW d \in Secondary, pc'[d] # 0
                   PROVE  /\ d < i \/ (d = i /\ pc'[Primary] \in Started .. Latch)
                          /\ given[d] = Here.kernel + IMAGE - 1 - d
                          /\ ~(conf.waits /\ pc'[d] <= Length[d])
      BY <1>1, <3>1, LoopFacts DEF OnInv
    <3>4. pc'[d] = pc[d] /\ pc[d] \in Nat /\ Length[d] \in Nat
      BY <1>1, <1>3, LoopFacts
    <3>5. pc[d] <= Length[d] /\ conf.waits => d = i
      BY <3>3, <3>4 DEF OnInv
    <3> QED
      BY <3>1, <3>2, <3>3, <3>4, <3>5 DEF OnInv
  <2>2. CASE pc[c] = Latch + 1
    <3>1. pc[Primary] \notin Started .. Latch /\ pc[Primary] # Started
      BY <1>1, <1>2, <2>2, LoopFacts
    <3>2. \A d \in Secondary : pc'[d] = pc[d]
      BY <1>1, <1>3, LoopFacts
    <3> QED
      BY <1>1, <3>1, <3>2, LoopFacts DEF OnInv
  <2> QED
    BY <1>2, <2>1, <2>2
<1>6. SlotInv'
  BY <1>1, <1>2, <1>3, LoopFacts DEF SlotInv
<1>7. GivenInv'
  BY <1>1, LoopFacts DEF GivenInv
<1> QED
  BY <1>4, <1>5, <1>6, <1>7

LEMMA ForControl ==
  ASSUME ConfInv, TypeInv, LoopInv, OnInv, SlotInv, GivenInv, NEW c \in CPU, For(c)
  PROVE  LoopInv' /\ OnInv' /\ SlotInv' /\ GivenInv' /\ i' \in 0 .. CPU_NUM
<1>1. /\ pc[c] \in DOMAIN Program(c) /\ Step(c).op = "for"
      /\ conf' = conf /\ given' = given /\ slot' = slot
  BY DEF For, Does
<1>2. c = Primary /\ pc[Primary] = LoopHead
  BY <1>1, LoopStep
<1>3. LoopHead + Len(Loop) = Latch + 1 /\ pc \in [CPU -> Nat]
  <2>1. LoopHead \in Nat /\ Len(LoopBody) \in Nat
    BY Lengths
  <2>2. Len(Loop) = Len(LoopBody) + 2
    BY PrimaryLayout
  <2> QED
    BY <2>1, <2>2 DEF Latch, BodyLen, TypeInv
<1>4. \/ i = CPU_NUM /\ i' = i /\ pc' = [pc EXCEPT ![c] = pc[c] + Len(Loop)]
      \/ i = Primary /\ i' = i + 1 /\ pc' = pc
      \/ i \in Secondary /\ i' = i /\ pc' = [pc EXCEPT ![c] = pc[c] + 1]
  BY DEF For, Advance
<1>5. /\ \A d \in CPU \ {Primary} : pc'[d] = pc[d]
      /\ \/ i = CPU_NUM /\ i' = i /\ pc'[Primary] = Latch + 1
         \/ i = Primary /\ i' = i + 1 /\ pc'[Primary] = LoopHead
         \/ i \in Secondary /\ i' = i /\ pc'[Primary] = LoopHead + 1
  BY <1>1, <1>2, <1>3, <1>4, LoopFacts
<1>6. i' \in 0 .. CPU_NUM /\ (i' = i \/ i' = i + 1) /\ i' \in Nat
  BY <1>1, <1>5, CpuNumbers, CpuNumAssumption DEF TypeInv
<1>7. LoopInv'
  <2>1. \A d \in CPU : pc'[d] \in 0 .. Length[d] + 1
    <3>1. ASSUME NEW d \in CPU \ {Primary} PROVE pc'[d] \in 0 .. Length[d] + 1
      BY <1>5 DEF LoopInv
    <3>2. pc'[Primary] \in 0 .. Length[Primary] + 1
      BY <1>1, <1>5, LoopFacts
    <3> QED
      BY <3>1, <3>2
  <2>2. /\ pc'[Primary] # 0 /\ ~(pc'[Primary] < LoopHead)
        /\ pc'[Primary] \in LoopHead + 1 .. Latch => i' \in Secondary
    <3>1. CASE i = CPU_NUM /\ i' = i /\ pc'[Primary] = Latch + 1
      BY <1>1, <3>1, LoopFacts
    <3>2. CASE i = Primary /\ i' = i + 1 /\ pc'[Primary] = LoopHead
      BY <1>1, <3>2, LoopFacts
    <3>3. CASE i \in Secondary /\ i' = i /\ pc'[Primary] = LoopHead + 1
      BY <1>1, <3>3, LoopFacts
    <3> QED
      BY <1>5, <3>1, <3>2, <3>3
  <2> QED
    BY <1>1, <2>1, <2>2, LoopFacts DEF LoopInv
<1>8. OnInv'
  <2>1. SUFFICES ASSUME NEW d \in Secondary, pc'[d] # 0
                 PROVE  /\ d < i'
                        /\ given[d] = Here.kernel + IMAGE - 1 - d
                        /\ ~(conf.waits /\ pc'[d] <= Length[d])
    BY <1>1, LoopFacts DEF OnInv
  <2>2. pc'[d] = pc[d] /\ d \in Nat
    BY <1>1, <1>5, LoopFacts
  <2>3. pc[Primary] \notin Started .. Latch /\ pc[Primary] # Started
    BY <1>1, <1>2, LoopFacts
  <2>4. /\ d < i /\ given[d] = Here.kernel + IMAGE - 1 - d
        /\ ~(conf.waits /\ pc[d] <= Length[d])
    BY <2>1, <2>2, <2>3 DEF OnInv
  <2> QED
    BY <1>1, <1>6, <2>2, <2>4, LoopFacts
<1>9. SlotInv'
  BY <1>1, <1>5, LoopFacts DEF SlotInv
<1>10. GivenInv'
  BY <1>1, LoopFacts DEF GivenInv
<1> QED
  BY <1>6, <1>7, <1>8, <1>9, <1>10

LEMMA NextCpuControl ==
  ASSUME ConfInv, TypeInv, LoopInv, OnInv, SlotInv, GivenInv, NEW c \in CPU, NextCpu(c)
  PROVE  LoopInv' /\ OnInv' /\ SlotInv' /\ GivenInv' /\ i' \in 0 .. CPU_NUM
<1>1. /\ pc[c] \in DOMAIN Program(c) /\ Step(c).op = "next"
      /\ conf' = conf /\ given' = given /\ slot' = slot /\ i' = i + 1
      /\ pc' = [pc EXCEPT ![c] = pc[c] - (Len(LoopBody) + 1)]
  BY DEF NextCpu, Does
<1>2. c = Primary /\ pc[Primary] = Latch
  BY <1>1, LoopStep
<1>3. Latch - (Len(LoopBody) + 1) = LoopHead /\ pc \in [CPU -> Nat]
  <2>1. LoopHead \in Nat /\ BootLen \in Nat
    BY Lengths
  <2>2. Len(LoopBody) = IF conf.waits THEN BootLen + 1 ELSE BootLen
    BY Lengths
  <2>3. Latch = LoopHead + Len(LoopBody) + 1
    BY DEF Latch, BodyLen
  <2> QED
    BY <2>1, <2>2, <2>3 DEF TypeInv
<1>4. \A d \in CPU : pc'[d] = IF d = Primary THEN LoopHead ELSE pc[d]
  BY <1>1, <1>2, <1>3
<1>5. i \in Secondary /\ i' \in 0 .. CPU_NUM
  <2>1. i \in Secondary
    BY <1>1, <1>2, LoopFacts DEF LoopInv
  <2> QED
    BY <1>1, <2>1, CpuNumbers
<1>6. LoopInv'
  <2>1. /\ pc'[Primary] = LoopHead /\ pc'[Primary] # 0
        /\ pc'[Primary] \notin LoopHead + 1 .. Latch /\ ~(pc'[Primary] < LoopHead)
    <3>1. LoopHead \in Nat \ {0} /\ Latch \in Nat /\ Primary \in CPU
      BY <1>1, LoopFacts
    <3>2. pc'[Primary] = LoopHead
      BY <1>4, <3>1
    <3> QED
      BY <3>1, <3>2
  <2>2. ASSUME NEW d \in CPU PROVE pc'[d] \in 0 .. Length[d] + 1
    <3>1. CASE d = Primary
      BY <1>1, <2>1, <3>1, LoopFacts
    <3>2. CASE d # Primary
      BY <1>4, <3>2 DEF LoopInv
    <3> QED
      BY <3>1, <3>2
  <2> QED
    BY <1>1, <2>1, <2>2, LoopFacts DEF LoopInv
<1>7. OnInv'
  <2>1. SUFFICES ASSUME NEW d \in Secondary, pc'[d] # 0
                 PROVE  /\ d < i + 1
                        /\ given[d] = Here.kernel + IMAGE - 1 - d
                        /\ ~(conf.waits /\ pc'[d] <= Length[d])
    BY <1>1, LoopFacts DEF OnInv
  <2>2. pc'[d] = pc[d] /\ d \in Nat /\ (conf.waits => pc[Primary] # Started)
    BY <1>1, <1>2, <1>4, LoopFacts
  <2>3. /\ d < i \/ d = i
        /\ given[d] = Here.kernel + IMAGE - 1 - d
        /\ ~(conf.waits /\ pc[d] <= Length[d])
    BY <2>1, <2>2 DEF OnInv
  <2> QED
    BY <1>1, <2>2, <2>3, LoopFacts
<1>8. SlotInv'
  BY <1>1, <1>4, LoopFacts DEF SlotInv
<1>9. GivenInv'
  BY <1>1, LoopFacts DEF GivenInv
<1> QED
  BY <1>5, <1>6, <1>7, <1>8, <1>9

LEMMA OffControl ==
  ASSUME ConfInv, TypeInv, LoopInv, OnInv, SlotInv, GivenInv, NEW c \in CPU, system_off(c)
  PROVE  LoopInv' /\ OnInv' /\ SlotInv' /\ GivenInv'
<1>1. /\ pc[c] \in DOMAIN Program(c) /\ Step(c).op \in {"off", "halt"}
      /\ conf' = conf /\ given' = given /\ slot' = slot /\ i' = i
      /\ pc' = [pc EXCEPT ![c] = pc[c] + 1]
  BY DEF system_off, Does, Advance
<1>2. c = Primary /\ pc[Primary] = Latch + 2
  BY <1>1, LoopStep
<1>3. \A d \in CPU : pc'[d] = IF d = Primary THEN Latch + 3 ELSE pc[d]
  <2>1. pc \in [CPU -> Nat] /\ Latch + 2 + 1 = Latch + 3
    BY <1>1, LoopFacts DEF TypeInv
  <2> QED
    BY <1>1, <1>2, <2>1
<1>4. LoopInv'
  BY <1>1, <1>2, <1>3, LoopFacts DEF LoopInv
<1>5. OnInv'
  <2>1. pc[Primary] \notin Started .. Latch /\ pc[Primary] # Started
    BY <1>1, <1>2, LoopFacts
  <2>2. \A d \in Secondary : pc'[d] = pc[d]
    BY <1>1, <1>3, LoopFacts
  <2> QED
    BY <1>1, <2>1, <2>2, LoopFacts DEF OnInv
<1>6. SlotInv'
  BY <1>1, <1>3, LoopFacts DEF SlotInv
<1>7. GivenInv'
  BY <1>1, LoopFacts DEF GivenInv
<1> QED
  BY <1>4, <1>5, <1>6, <1>7

-----------------------------------------------------------------------------
(* Types.                                                                  *)

\* Every step outside the loop keeps the types.
LEMMA EntryTypes ==
  ASSUME ConfInv, TypeInv, NEW c \in CPU, EntryStep(c)
  PROVE  TypeInv'
<1>1. /\ pc' = [pc EXCEPT ![c] = pc[c] + 1]
      /\ slot' = slot /\ i' = i /\ given' = given /\ powered' = powered
  BY EntryMoves DEF Moved
<1>2. /\ pc' \in [CPU -> Nat] /\ slot' \in [cached : Int, memory : Int] /\ i' \in 0 .. CPU_NUM
      /\ given' \in [CPU -> Int] /\ powered' \in BOOLEAN
  BY <1>1 DEF TypeInv
<1>3. pc[c] \in DOMAIN Program(c)
  BY DEF EntryStep, Call, LoadStack, RaiseStack, InitPageTable, init_mmu, Jump, EnterMain,
         RemapKernel, Does
<1>4. Step(c).own \in Cells /\ Step(c).map \in SUBSET TableEntry
  BY <1>3, TheStep DEF StepType
<1>5. CASE Call(c)
  <2>1. /\ own' = [own EXCEPT ![c] = own[c] \cup Step(c).own]
        /\ table' = table /\ at' = at /\ sp' = sp /\ root' = root /\ id' = id
    BY <1>5 DEF Call
  <2>2. own[c] \cup Step(c).own \in Cells
    BY <1>4 DEF TypeInv, Cells
  <2>3. own' \in [CPU -> Cells]
    BY <2>1, <2>2 DEF TypeInv
  <2> QED
    BY <1>2, <2>1, <2>3 DEF TypeInv
<1>6. CASE LoadStack(c)
  <2>1. /\ sp' = [sp EXCEPT ![c] = [half |-> IF Step(c).op = "sp" THEN "low" ELSE "high",
                                    page |-> BootStack(c)]]
        /\ own' = own /\ table' = table /\ at' = at /\ root' = root /\ id' = id
    BY <1>6 DEF LoadStack
  <2>2. BootStack(c) \in Int
    BY StackNumbers, CpuNumbers DEF TypeInv, BootStack
  <2>3. sp' \in [CPU -> [half : Half, page : Int]]
    BY <2>1, <2>2 DEF TypeInv, Half
  <2> QED
    BY <1>2, <2>1, <2>3 DEF TypeInv
<1>7. CASE RaiseStack(c)
  <2>1. /\ sp' = [sp EXCEPT ![c].half = "high"]
        /\ own' = own /\ table' = table /\ at' = at /\ root' = root /\ id' = id
    BY <1>7 DEF RaiseStack
  <2>2. sp' \in [CPU -> [half : Half, page : Int]]
    BY <2>1 DEF TypeInv, Half
  <2> QED
    BY <1>2, <2>1, <2>2 DEF TypeInv
<1>8. CASE InitPageTable(c)
  <2>1. /\ table' = Step(c).map \cup {e \in table : ~\E f \in Step(c).map : Covers(f, e)}
        /\ own' = own /\ sp' = sp /\ at' = at /\ root' = root /\ id' = id
    BY <1>8 DEF InitPageTable
  <2>2. table' \in SUBSET TableEntry
    BY <1>4, <2>1 DEF TypeInv
  <2> QED
    BY <1>2, <2>1, <2>2 DEF TypeInv
<1>9. CASE init_mmu(c) \/ RemapKernel(c)
  <2>1. /\ root' = [root EXCEPT ![c] = "boot"] \/ root' = [root EXCEPT ![c] = "kernel"]
        /\ own' = own /\ sp' = sp /\ at' = at /\ table' = table /\ id' = id
    BY <1>9 DEF init_mmu, RemapKernel
  <2>2. root' \in [CPU -> {"none", "boot", "kernel"}]
    BY <2>1 DEF TypeInv
  <2> QED
    BY <1>2, <2>1, <2>2 DEF TypeInv
<1>10. CASE Jump(c) \/ EnterMain(c)
  <2>1. /\ at' = [at EXCEPT ![c] = "high"]
        /\ own' = own /\ sp' = sp /\ root' = root /\ table' = table
        /\ id' = id \/ id' = [id EXCEPT ![c] = Here.ids[c + 1]]
    BY <1>10 DEF Jump, EnterMain
  <2>2. at' \in [CPU -> Half] /\ DOMAIN id' = CPU
    BY <2>1 DEF TypeInv, Half
  <2> QED
    BY <1>2, <2>1, <2>2 DEF TypeInv
<1> QED
  BY <1>5, <1>6, <1>7, <1>8, <1>9, <1>10 DEF EntryStep

\* So does every step of the loop.
LEMMA LoopTypes ==
  ASSUME ConfInv, TypeInv, LoopInv, OnInv, SlotInv, GivenInv, NEW c \in CPU, LoopOrEnd(c)
  PROVE  TypeInv'
<1> DEFINE Same == table' = table /\ sp' = sp /\ root' = root /\ own' = own /\ id' = id
<1>1. Same /\ conf' = conf
  BY DEF LoopOrEnd, StoreStack, flush_dcache_line, StartCpu, Wait, For, NextCpu, system_off
<1>2. CASE StoreStack(c) \/ flush_dcache_line(c)
  <2>1. /\ pc' = [pc EXCEPT ![c] = pc[c] + 1]
        /\ slot' = [slot EXCEPT !.cached = StackOf(i)] \/ slot' = [slot EXCEPT !.memory = slot.cached]
        /\ at' = at /\ given' = given /\ i' = i /\ powered' = powered
    BY <1>2 DEF StoreStack, flush_dcache_line, Advance
  <2>2. StackOf(i) \in Int
    BY StackNumbers DEF TypeInv
  <2>3. slot' \in [cached : Int, memory : Int]
    BY <2>1, <2>2 DEF TypeInv
  <2>4. pc' \in [CPU -> Nat]
    BY <2>1 DEF TypeInv
  <2> QED
    BY <1>1, <2>1, <2>3, <2>4 DEF TypeInv
<1>3. CASE StartCpu(c)
  <2>1. /\ pc' = [pc EXCEPT ![c] = pc[c] + 1, ![i] = 1]
        /\ at' = [at EXCEPT ![i] = IF conf.platform = "loong" THEN "high" ELSE "low"]
        /\ given' = [given EXCEPT ![i] = StackOf(i)]
        /\ slot' = slot /\ i' = i /\ powered' = powered
    BY <1>3 DEF StartCpu
  <2>2. StackOf(i) \in Int
    BY StackNumbers DEF TypeInv
  <2>3. pc' \in [CPU -> Nat]
    <3>1. pc \in [CPU -> Nat] /\ pc[c] + 1 \in Nat
      BY DEF TypeInv
    <3> QED
      BY <2>1, <3>1
  <2>4. at' \in [CPU -> Half] /\ given' \in [CPU -> Int]
    BY <2>1, <2>2 DEF TypeInv, Half
  <2> QED
    BY <1>1, <2>1, <2>3, <2>4 DEF TypeInv
<1>4. CASE Wait(c) \/ system_off(c)
  <2>1. /\ pc' = [pc EXCEPT ![c] = pc[c] + 1]
        /\ at' = at /\ given' = given /\ slot' = slot /\ i' = i
        /\ powered' = powered \/ powered' = (Step(c).op = "halt")
    BY <1>4 DEF Wait, system_off, Advance
  <2>2. pc' \in [CPU -> Nat]
    BY <2>1 DEF TypeInv
  <2>3. powered' \in BOOLEAN
    BY <2>1, Zenon DEF TypeInv
  <2> QED
    BY <1>1, <2>1, <2>2, <2>3 DEF TypeInv
<1>5. CASE For(c)
  <2>1. /\ pc' = [pc EXCEPT ![c] = pc[c] + Len(Loop)] \/ pc' = pc \/ pc' = [pc EXCEPT ![c] = pc[c] + 1]
        /\ at' = at /\ given' = given /\ slot' = slot /\ powered' = powered
    BY <1>5 DEF For, Advance
  <2>2. Len(Loop) \in Nat
    BY PrimaryLayout, Lengths
  <2>3. pc' \in [CPU -> Nat]
    <3>1. pc \in [CPU -> Nat] /\ pc[c] + Len(Loop) \in Nat /\ pc[c] + 1 \in Nat
      BY <2>2 DEF TypeInv
    <3> QED
      BY <2>1, <3>1
  <2>4. i' \in 0 .. CPU_NUM
    BY <1>5, ForControl
  <2> QED
    BY <1>1, <2>1, <2>3, <2>4 DEF TypeInv
<1>6. CASE NextCpu(c)
  <2>1. /\ pc' = [pc EXCEPT ![c] = pc[c] - (Len(LoopBody) + 1)]
        /\ pc[c] \in DOMAIN Program(c) /\ Step(c).op = "next"
        /\ at' = at /\ given' = given /\ slot' = slot /\ powered' = powered
    BY <1>6 DEF NextCpu, Does
  <2>2. pc[c] - (Len(LoopBody) + 1) \in Nat
    <3>1. pc[c] = Latch
      BY <2>1, LoopStep
    <3>2. LoopHead \in Nat /\ Len(LoopBody) \in Nat
      BY Lengths
    <3> QED
      BY <3>1, <3>2 DEF Latch, BodyLen
  <2>3. pc' \in [CPU -> Nat]
    BY <2>1, <2>2 DEF TypeInv
  <2>4. i' \in 0 .. CPU_NUM
    BY <1>6, NextCpuControl
  <2> QED
    BY <1>1, <2>1, <2>3, <2>4 DEF TypeInv
<1> QED
  BY <1>2, <1>3, <1>4, <1>5, <1>6 DEF LoopOrEnd

-----------------------------------------------------------------------------
(* What the entry code leaves behind.                                      *)

\* The entry code of every CPU does what main relies on.
LEMMA EntryCodeIsReady ==
  ASSUME ConfInv, NEW c \in CPU
  PROVE  /\ Ready(conf.platform, EntryCode[c])
         /\ \A k \in 1 .. Len(EntryCode[c]) : EntryCode[c][k].op \in EntryOps
<1>1. EntryCode[c] = Here.start \/ EntryCode[c] = Here.secondary
  BY DEF EntryCode
<1>2. /\ Ready(conf.platform, Here.start) /\ Ready(conf.platform, Here.secondary)
      /\ Here.start \in Seq(StepOf(EntryOps)) /\ Here.secondary \in Seq(StepOf(EntryOps \ {"table"}))
  BY HereIsFit DEF Fit
<1>3. \A k \in 1 .. Len(Here.start) : Here.start[k].op \in EntryOps
  BY <1>2, StepsOf
<1>4. \A k \in 1 .. Len(Here.secondary) : Here.secondary[k].op \in EntryOps \ {"table"}
  BY <1>2, StepsOf
<1> QED
  BY <1>1, <1>2, <1>3, <1>4

\* A CPU loads its own stack, from wherever its platform has it.
LEMMA LoadsOwnStack ==
  ASSUME ConfInv, TypeInv, LoopInv, OnInv, SlotInv, NEW c \in CPU, LoadStack(c)
  PROVE  BootStack(c) = StackOf(c)
<1>1. pc[c] \in 1 .. Length[c]
  BY TheStep DEF LoadStack, Does
<1>2. CASE c = Primary
  BY <1>2 DEF BootStack
<1>3. CASE c # Primary
  <2>1. c \in Secondary /\ pc[c] # 0 /\ pc[c] <= Length[c]
    BY <1>1, <1>3, Numbers DEF Secondary
  <2>2. CASE ~SharesSlot
    BY <1>3, <2>1, <2>2 DEF OnInv, BootStack, StackOf
  <2>3. CASE SharesSlot
    <3>1. c = i /\ pc[Primary] = Started
      BY <2>1, <2>3 DEF OnInv, ConfInv
    <3>2. /\ LoopHead \in Nat
          /\ Started = LoopHead + (IF Uncached THEN 4 ELSE IF SharesSlot THEN 3 ELSE 2)
      BY Numbers
    <3>3. /\ pc[Primary] \in LoopHead + 2 .. Started
          /\ Uncached => pc[Primary] \in LoopHead + 3 .. Started
      BY <2>3, <3>1, <3>2
    <3> QED
      BY <1>3, <2>3, <3>1, <3>3 DEF SlotInv, BootStack, StackOf
  <2> QED
    BY <2>2, <2>3
<1> QED
  BY <1>2, <1>3

\* The steps c has taken keep what they left if nothing of it is taken away.
LEMMA LeftStays ==
  ASSUME NEW c \in CPU, NEW k, Left(c, k), conf' = conf,
         sp'[c] = sp[c], root[c] # "none" => root'[c] # "none", own[c] \subseteq own'[c]
  PROVE  Left(c, k)'
<1>1. EntryCode' = EntryCode /\ StackOf(c)' = StackOf(c)
  BY Stays DEF StackOf, Here
<1> QED
  BY <1>1 DEF Left, SetsStack

\* After a step of c, all the steps it has taken have left their effect.
LEMMA EntryLeaves ==
  ASSUME ConfInv, TypeInv, LoopInv, OnInv, SlotInv, ReadyInv, NEW c \in CPU, EntryStep(c),
         NEW k \in 1 .. Len(EntryCode[c]), k < pc[c] + 1
  PROVE  Left(c, k)'
<1>1. /\ pc[c] \in DOMAIN Program(c) /\ conf' = conf
  BY DEF EntryStep, Call, LoadStack, RaiseStack, InitPageTable, init_mmu, Jump, EnterMain,
         RemapKernel, Does
<1>2. EntryCode' = EntryCode /\ StackOf(c)' = StackOf(c)
  BY <1>1, Stays DEF StackOf, Here
<1>3. /\ pc[c] \in Nat /\ Len(EntryCode[c]) \in Nat /\ k \in Nat
      /\ Step(c).op \in EntryOps \ {"call"} => pc[c] <= Len(EntryCode[c])
      /\ pc[c] <= Len(EntryCode[c]) => Step(c) = EntryCode[c][pc[c]]
  <2>1. pc[c] \in Nat /\ Len(EntryCode[c]) \in Nat
    BY Numbers DEF TypeInv
  <2>2. /\ Step(c).op \in EntryOps \ {"call"} => pc[c] <= Len(EntryCode[c])
        /\ pc[c] <= Len(EntryCode[c]) => Step(c) = EntryCode[c][pc[c]]
    BY <1>1, TheStep
  <2> QED
    BY <2>1, <2>2
<1>4. k < pc[c] => Left(c, k)
  BY DEF ReadyInv
<1>5. k = pc[c] => Step(c) = EntryCode[c][k]
  BY <1>3
<1>6. k < pc[c] \/ k = pc[c]
  BY <1>3
<1>7. CASE Call(c)
  <2>1. /\ Step(c).op = "call" /\ sp'[c] = sp[c] /\ root'[c] = root[c]
        /\ own'[c] = own[c] \cup Step(c).own
    BY <1>7 DEF Call, Does, TypeInv
  <2>2. CASE k < pc[c]
    BY <1>1, <1>4, <2>1, <2>2, LeftStays
  <2>3. CASE k = pc[c]
    BY <1>2, <1>5, <2>1, <2>3 DEF Left, SetsStack
  <2> QED
    BY <1>6, <2>2, <2>3
<1>8. CASE LoadStack(c)
  <2>1. /\ Step(c).op \in {"sp", "sp_virt"} /\ root'[c] = root[c] /\ own'[c] = own[c]
        /\ sp'[c] = [half |-> IF Step(c).op = "sp" THEN "low" ELSE "high", page |-> BootStack(c)]
    BY <1>8 DEF LoadStack, Does, TypeInv
  <2>2. /\ sp'[c].page = StackOf(c)
        /\ Step(c).op = "sp_virt" => sp'[c].half = "high"
    BY <1>8, <2>1, LoadsOwnStack
  <2>3. pc[c] <= Len(EntryCode[c]) /\ Step(c) = EntryCode[c][pc[c]]
    BY <1>3, <2>1 DEF EntryOps
  <2>4. k < pc[c] => pc[c] \in k + 1 .. Len(EntryCode[c])
    BY <1>3, <2>3
  <2>5. CASE k < pc[c]
    <3>1. Left(c, k)
      BY <1>4, <2>5
    <3>2. (\A l \in k + 1 .. Len(EntryCode[c]) : EntryCode[c][l].op # "sp") => sp'[c].half = "high"
      BY <2>1, <2>2, <2>3, <2>4, <2>5
    <3> QED
      BY <1>2, <2>1, <2>2, <3>1, <3>2 DEF Left, SetsStack
  <2>6. CASE k = pc[c]
    BY <1>2, <1>5, <2>1, <2>2, <2>6 DEF Left, SetsStack
  <2> QED
    BY <1>6, <2>5, <2>6
<1>9. CASE RaiseStack(c)
  <2>1. /\ Step(c).op = "sp_high" /\ root'[c] = root[c] /\ own'[c] = own[c]
        /\ sp'[c].page = sp[c].page /\ sp'[c].half = "high"
    BY <1>9 DEF RaiseStack, Does, TypeInv
  <2>2. CASE k < pc[c]
    BY <1>2, <1>4, <2>1, <2>2 DEF Left, SetsStack
  <2>3. CASE k = pc[c]
    BY <1>2, <1>5, <2>1, <2>3 DEF Left, SetsStack
  <2> QED
    BY <1>6, <2>2, <2>3
<1>10. CASE InitPageTable(c) \/ Jump(c) \/ EnterMain(c)
  <2>1. /\ Step(c).op \in {"table", "jump", "main"} /\ sp'[c] = sp[c] /\ root'[c] = root[c]
        /\ own'[c] = own[c]
    BY <1>10 DEF InitPageTable, Jump, EnterMain, Does
  <2>2. CASE k < pc[c]
    BY <1>1, <1>4, <2>1, <2>2, LeftStays
  <2>3. CASE k = pc[c]
    BY <1>2, <1>5, <2>1, <2>3 DEF Left, SetsStack
  <2> QED
    BY <1>6, <2>2, <2>3
<1>11. CASE init_mmu(c) \/ RemapKernel(c)
  <2>1. /\ Step(c).op \in {"mmu", "remap"} /\ sp'[c] = sp[c] /\ own'[c] = own[c]
        /\ root'[c] # "none"
    BY <1>11 DEF init_mmu, RemapKernel, Does, TypeInv
  <2>2. CASE k < pc[c]
    BY <1>1, <1>4, <2>1, <2>2, LeftStays
  <2>3. CASE k = pc[c]
    BY <1>2, <1>5, <2>1, <2>3 DEF Left, SetsStack
  <2> QED
    BY <1>6, <2>2, <2>3
<1> QED
  BY <1>7, <1>8, <1>9, <1>10, <1>11 DEF EntryStep

\* A step of c changes nothing of the other CPUs.
LEMMA OthersStay ==
  ASSUME ConfInv, TypeInv, NEW c \in CPU, EntryStep(c), NEW d \in CPU, d # c
  PROVE  /\ pc'[d] = pc[d] /\ at'[d] = at[d] /\ sp'[d] = sp[d] /\ root'[d] = root[d]
         /\ own'[d] = own[d] /\ id'[d] = id[d]
<1> USE DEF TypeInv
<1>1. pc'[d] = pc[d]
  BY EntryMoves DEF Moved
<1>2. at'[d] = at[d]
  BY DEF EntryStep, Call, LoadStack, RaiseStack, InitPageTable, init_mmu, Jump, EnterMain, RemapKernel
<1>3. sp'[d] = sp[d]
  BY DEF EntryStep, Call, LoadStack, RaiseStack, InitPageTable, init_mmu, Jump, EnterMain, RemapKernel
<1>4. root'[d] = root[d]
  BY DEF EntryStep, Call, LoadStack, RaiseStack, InitPageTable, init_mmu, Jump, EnterMain, RemapKernel
<1>5. own'[d] = own[d]
  BY DEF EntryStep, Call, LoadStack, RaiseStack, InitPageTable, init_mmu, Jump, EnterMain, RemapKernel
<1>6. id'[d] = id[d]
  BY DEF EntryStep, Call, LoadStack, RaiseStack, InitPageTable, init_mmu, Jump, EnterMain, RemapKernel
<1> QED
  BY <1>1, <1>2, <1>3, <1>4, <1>5, <1>6

LEMMA EntryKeepsReady ==
  ASSUME ConfInv, TypeInv, LoopInv, OnInv, SlotInv, ReadyInv, NEW c \in CPU, EntryStep(c)
  PROVE  ReadyInv'
<1>1. conf' = conf /\ EntryCode' = EntryCode
  BY EntryMoves, Stays DEF Moved
<1>2. SUFFICES ASSUME NEW d \in CPU, NEW k \in 1 .. Len(EntryCode[d]), k < pc'[d]
               PROVE  Left(d, k)'
  BY <1>1 DEF ReadyInv
<1>3. CASE d = c
  <2>1. pc'[c] = pc[c] + 1
    BY EntryMoves DEF Moved, TypeInv
  <2>2. k \in 1 .. Len(EntryCode[c]) /\ k < pc[c] + 1
    BY <1>2, <1>3, <2>1
  <2>3. Left(c, k)'
    BY <2>2, EntryLeaves
  <2> QED
    BY <1>3, <2>3
<1>4. CASE d # c
  <2>1. pc'[d] = pc[d] /\ sp'[d] = sp[d] /\ root'[d] = root[d] /\ own'[d] = own[d]
    BY <1>4, OthersStay
  <2>2. Left(d, k)
    BY <1>2, <2>1 DEF ReadyInv
  <2> QED
    BY <1>1, <2>1, <2>2, LeftStays
<1> QED
  BY <1>3, <1>4

\* main is entered at the end of the entry code only.
LEMMA EntryKeepsEntry ==
  ASSUME ConfInv, TypeInv, EntryInv, NEW c \in CPU, EntryStep(c)
  PROVE  EntryInv'
<1>1. conf' = conf /\ EntryCode' = EntryCode /\ pc[c] \in Nat /\ pc'[c] = pc[c] + 1
  BY EntryMoves, Stays DEF Moved, TypeInv
<1>2. \A d \in CPU : Len(EntryCode[d]) \in Nat
  BY Numbers
<1>3. SUFFICES ASSUME NEW d \in CPU
               PROVE  /\ id'[d] # None => pc'[d] > Len(EntryCode[d]) /\ at'[d] = "high"
                      /\ conf.platform \notin MaybeEL2 => "kernel_mode" \in own'[d]
  BY <1>1 DEF EntryInv
<1>4. CASE d # c
  BY <1>4, OthersStay DEF EntryInv
<1>5. CASE d = c
  <2>1. CASE EnterMain(c)
    <3>1. /\ pc[c] \in DOMAIN Program(c) /\ Step(c).op = "main"
          /\ at'[c] = "high" /\ own' = own
      BY <2>1 DEF EnterMain, Does, TypeInv
    <3>2. pc[c] <= Len(EntryCode[c]) /\ pc[c] \in 1 .. Length[c] /\ Step(c) = EntryCode[c][pc[c]]
      BY <3>1, TheStep DEF EntryOps
    <3>3. pc[c] \in 1 .. Len(EntryCode[c])
      BY <1>2, <3>2, Numbers
    <3>4. pc[c] = Len(EntryCode[c])
      BY <3>1, <3>2, <3>3, EntryCodeIsReady DEF Ready
    <3> QED
      BY <1>1, <1>2, <1>5, <3>1, <3>4 DEF EntryInv
  <2>2. CASE ~EnterMain(c)
    <3>1. id' = id
      BY <2>2 DEF EntryStep, Call, LoadStack, RaiseStack, InitPageTable, init_mmu, Jump, RemapKernel
    <3>2. at[c] = "high" => at'[c] = "high"
      BY <2>2 DEF EntryStep, Call, LoadStack, RaiseStack, InitPageTable, init_mmu, Jump,
                  RemapKernel, TypeInv
    <3>3. "kernel_mode" \in own[c] => "kernel_mode" \in own'[c]
      BY <2>2 DEF EntryStep, Call, LoadStack, RaiseStack, InitPageTable, init_mmu, Jump,
                  RemapKernel, TypeInv
    <3> QED
      BY <1>1, <1>2, <1>5, <3>1, <3>2, <3>3 DEF EntryInv
  <2> QED
    BY <2>1, <2>2
<1> QED
  BY <1>4, <1>5

\* Translation is turned on by its step only.
LEMMA EntryKeepsRoot ==
  ASSUME ConfInv, TypeInv, RootInv, NEW c \in CPU, EntryStep(c)
  PROVE  RootInv'
<1>1. conf' = conf /\ EntryCode' = EntryCode /\ pc[c] \in Nat /\ pc'[c] = pc[c] + 1
  BY EntryMoves, Stays DEF Moved, TypeInv
<1>2. SUFFICES ASSUME NEW d \in CPU, root'[d] # "none"
               PROVE  \E k \in 1 .. Len(EntryCode[d]) : k < pc'[d] /\ EntryCode[d][k].op = "mmu"
  BY <1>1 DEF RootInv
<1>3. CASE d # c
  BY <1>2, <1>3, OthersStay DEF RootInv
<1>4. CASE d = c
  <2>1. pc[c] \in DOMAIN Program(c) /\ Len(EntryCode[c]) \in Nat
    BY Numbers DEF EntryStep, Call, LoadStack, RaiseStack, InitPageTable, init_mmu, Jump, EnterMain,
                   RemapKernel, Does
  <2>2. CASE init_mmu(c)
    <3>1. Step(c).op = "mmu"
      BY <2>2 DEF init_mmu, Does
    <3>2. pc[c] <= Len(EntryCode[c]) /\ pc[c] \in 1 .. Length[c] /\ Step(c) = EntryCode[c][pc[c]]
      BY <2>1, <3>1, TheStep DEF EntryOps
    <3>3. pc[c] \in 1 .. Len(EntryCode[c]) /\ pc[c] < pc[c] + 1
      BY <1>1, <2>1, <3>2, Numbers
    <3> QED
      BY <1>1, <1>4, <3>1, <3>2, <3>3
  <2>3. CASE RemapKernel(c)
    <3>1. Step(c).op = "remap"
      BY <2>3 DEF RemapKernel, Does
    <3>2. ~(pc[c] <= Len(EntryCode[c]))
      <4>1. SUFFICES ASSUME pc[c] <= Len(EntryCode[c]) PROVE FALSE
        OBVIOUS
      <4>2. pc[c] \in 1 .. Len(EntryCode[c]) /\ Step(c) = EntryCode[c][pc[c]]
        BY <2>1, <4>1, TheStep, Numbers
      <4> QED
        BY <3>1, <4>2, EntryCodeIsReady DEF EntryOps
    <3>3. PICK k \in 1 .. Len(EntryCode[c]) - 1 : EntryCode[c][k].op = "mmu"
      BY EntryCodeIsReady DEF Ready
    <3>4. k \in 1 .. Len(EntryCode[c]) /\ k < pc[c] + 1
      BY <1>1, <2>1, <3>2, <3>3
    <3> QED
      BY <1>1, <1>4, <3>3, <3>4
  <2>4. CASE ~init_mmu(c) /\ ~RemapKernel(c)
    <3>1. root' = root
      BY <2>4 DEF EntryStep, Call, LoadStack, RaiseStack, InitPageTable, Jump, EnterMain
    <3>2. PICK k \in 1 .. Len(EntryCode[c]) : k < pc[c] /\ EntryCode[c][k].op = "mmu"
      BY <1>2, <1>4, <3>1 DEF RootInv
    <3>3. k < pc[c] + 1
      BY <1>1, <2>1, <3>2
    <3> QED
      BY <1>1, <1>4, <3>2, <3>3
  <2> QED
    BY <2>2, <2>3, <2>4
<1> QED
  BY <1>3, <1>4

\* The two tables of arm-qemu-virt.
LEMMA ArmTables ==
  ASSUME ConfInv, conf.platform = "arm"
  PROVE  /\ EntryCode[Primary] = ArmStart /\ Len(ArmStart) = 8
         /\ ArmStart[3] = ArmPageTable /\ ArmStart[7] = ArmPageTableAfterMmu
         /\ \A k \in 1 .. 8 : /\ ArmStart[k].op = "table" <=> k \in {3, 7}
                              /\ ArmStart[k].op = "mmu" <=> k = 4
<1>1. EntryCode[Primary] = ArmStart
  <2>1. Here = Arm
    BY PlatformsAssumption DEF ConfInv, Here, Code
  <2>2. Here.start = ArmStart
    BY <2>1 DEF Arm, Virt
  <2> QED
    BY <2>2, CpuNumbers DEF EntryCode
<1>2. /\ Len(ArmStart) = 8 /\ ArmStart[1] = SetStack /\ ArmStart[2] = enable_fp
      /\ ArmStart[3] = ArmPageTable /\ ArmStart[4] = InitMmu /\ ArmStart[5] = JumpHigh
      /\ ArmStart[6] = StackHigh /\ ArmStart[7] = ArmPageTableAfterMmu /\ ArmStart[8] = CallMain
  BY DEF ArmStart
<1>3. ArmPageTable.op = "table" /\ ArmPageTableAfterMmu.op = "table"
  BY TableKinds
<1> QED
  BY <1>1, <1>2, <1>3, Kinds

\* The table of arm-qemu-virt between its two writes.
LEMMA EntryKeepsArm ==
  ASSUME ConfInv, TypeInv, ArmInv, NEW c \in CPU, EntryStep(c)
  PROVE  ArmInv'
<1>1. /\ conf' = conf /\ Primary' = Primary /\ pc[c] \in Nat /\ pc'[c] = pc[c] + 1
      /\ c # Primary => pc'[Primary] = pc[Primary]
  BY EntryMoves, OthersStay, Stays, CpuNumbers DEF Moved, TypeInv
<1>2. pc[c] \in DOMAIN Program(c)
  BY DEF EntryStep, Call, LoadStack, RaiseStack, InitPageTable, init_mmu, Jump, EnterMain,
         RemapKernel, Does
<1>3. SUFFICES ASSUME conf.platform = "arm"
               PROVE  /\ pc'[Primary] <= 3 => table' = {}
                      /\ pc'[Primary] \in 4 .. 7 => table' = ArmPageTable.map
  BY <1>1 DEF ArmInv
<1>4. /\ pc[Primary] <= 3 => table = {}
      /\ pc[Primary] \in 4 .. 7 => table = ArmPageTable.map
  BY <1>3 DEF ArmInv
<1>5. CASE InitPageTable(c)
  <2>1. /\ Step(c).op = "table"
        /\ table' = Step(c).map \cup {e \in table : ~\E f \in Step(c).map : Covers(f, e)}
    BY <1>5 DEF InitPageTable, Does
  <2>2. c = Primary
    BY <1>2, <2>1, TheStep
  <2>3. pc[c] <= 8 /\ pc[c] \in 1 .. Length[c] /\ Step(c) = ArmStart[pc[c]]
    BY <1>2, <1>3, <2>1, <2>2, TheStep, ArmTables DEF EntryOps
  <2>4. pc[c] \in 1 .. 8
    <3>1. Length[c] \in Nat
      BY Numbers
    <3> QED
      BY <2>3, <3>1
  <2>5. pc[c] = 3 \/ pc[c] = 7
    BY <1>3, <2>1, <2>3, <2>4, ArmTables
  <2>6. CASE pc[c] = 3
    <3>1. table = {} /\ Step(c).map = ArmPageTable.map /\ pc'[Primary] = 4
      BY <1>1, <1>3, <1>4, <2>2, <2>3, <2>6, ArmTables
    <3>2. table' = ArmPageTable.map
      BY <2>1, <3>1
    <3> QED
      BY <3>1, <3>2
  <2>7. CASE pc[c] = 7
    BY <1>1, <2>2, <2>7
  <2> QED
    BY <2>5, <2>6, <2>7
<1>6. CASE ~InitPageTable(c)
  <2>1. table' = table /\ Step(c).op \in (EntryOps \cup {"remap"}) \ {"table"}
    BY <1>6 DEF EntryStep, Call, LoadStack, RaiseStack, init_mmu, Jump, EnterMain, RemapKernel,
                Does, EntryOps
  <2>2. CASE c # Primary
    BY <1>1, <1>4, <2>1, <2>2
  <2>3. CASE c = Primary
    <3>1. pc[c] # 3
      <4>1. SUFFICES ASSUME pc[c] = 3 PROVE FALSE
        OBVIOUS
      <4>2. Len(EntryCode[c]) = 8 /\ EntryCode[c] = ArmStart
        BY <1>3, <2>3, ArmTables
      <4>3. pc[c] <= Len(EntryCode[c]) => Step(c) = EntryCode[c][pc[c]]
        BY <1>2, TheStep
      <4>4. Step(c) = ArmStart[3]
        BY <4>1, <4>2, <4>3
      <4> QED
        BY <1>3, <2>1, <4>4, ArmTables
    <3> QED
      BY <1>1, <1>4, <2>1, <2>3, <3>1
  <2> QED
    BY <2>2, <2>3
<1> QED
  BY <1>5, <1>6

\* The loop and what follows it: a CPU that was off is started, the first CPU
\* moves behind its entry code, and nothing else changes.
LEMMA LoopMoves ==
  ASSUME ConfInv, TypeInv, LoopInv, OnInv, NEW c \in CPU, LoopOrEnd(c)
  PROVE  /\ conf' = conf /\ sp' = sp /\ root' = root /\ own' = own /\ id' = id /\ table' = table
         /\ \A d \in CPU :
              \/ pc'[d] = pc[d] /\ at'[d] = at[d]
              \/ pc[d] = 0 /\ pc'[d] = 1 /\ d # Primary
              \/ /\ d = Primary /\ at'[d] = at[d]
                 /\ pc[d] > Len(EntryCode[d]) /\ pc'[d] > Len(EntryCode[d])
                 /\ pc[d] >= LoopHead /\ pc'[d] >= LoopHead
<1>1. /\ conf' = conf /\ sp' = sp /\ root' = root /\ own' = own /\ id' = id /\ table' = table
      /\ pc[c] \in DOMAIN Program(c)
  BY DEF LoopOrEnd, StoreStack, flush_dcache_line, StartCpu, Wait, For, NextCpu, system_off, Does
<1>2. /\ LoopHead \in Nat /\ Len(EntryCode[Primary]) \in Nat /\ Len(EntryCode[Primary]) < LoopHead
      /\ Primary \in CPU
  BY Numbers
<1>3. Step(c).op \in {"stack", "clean", "release", "wait", "barrier", "for", "next", "off", "halt"}
  BY DEF LoopOrEnd, StoreStack, flush_dcache_line, StartCpu, Wait, For, NextCpu, system_off, Does
<1>4. c = Primary /\ pc[c] \in Nat /\ pc[c] >= LoopHead
  <2>1. c = Primary /\ pc[c] \in Nat /\ ~(pc[c] < LoopHead)
    BY <1>1, <1>3, LoopStep DEF EntryOps, TypeInv
  <2> QED
    BY <1>2, <2>1
<1>5. pc[c] > Len(EntryCode[c])
  BY <1>2, <1>4
<1>6. CASE StartCpu(c)
  <2>1. /\ c = Primary /\ pc[c] + 1 = Started /\ i \in Secondary /\ pc[i] = 0 /\ i # c
        /\ \A d \in CPU : pc'[d] = IF d = Primary THEN Started ELSE IF d = i THEN 1 ELSE pc[d]
    BY <1>6, StartsOffCpu
  <2>2. \A d \in CPU : d # i => at'[d] = at[d]
    BY <1>6 DEF StartCpu, TypeInv
  <2>3. Started > Len(EntryCode[c]) /\ Started >= LoopHead
    BY <1>1, <1>2, <1>4, <2>1, LoopFacts
  <2>4. ASSUME NEW d \in CPU
        PROVE  \/ pc'[d] = pc[d] /\ at'[d] = at[d]
               \/ pc[d] = 0 /\ pc'[d] = 1 /\ d # Primary
               \/ /\ d = Primary /\ at'[d] = at[d]
                  /\ pc[d] > Len(EntryCode[d]) /\ pc'[d] > Len(EntryCode[d])
                  /\ pc[d] >= LoopHead /\ pc'[d] >= LoopHead
    BY <1>4, <1>5, <2>1, <2>2, <2>3
  <2> QED
    BY <1>1, <2>4
<1>7. CASE ~StartCpu(c)
  <2>1. at' = at
    BY <1>7 DEF LoopOrEnd, StoreStack, flush_dcache_line, Wait, For, NextCpu, system_off
  <2>2. \/ pc' = [pc EXCEPT ![c] = pc[c] + 1]
        \/ pc' = pc
        \/ pc' = [pc EXCEPT ![c] = pc[c] + Len(Loop)]
        \/ pc' = [pc EXCEPT ![c] = pc[c] - (Len(LoopBody) + 1)] /\ pc[c] = Latch
    BY <1>1, <1>7, LoopStep DEF LoopOrEnd, StoreStack, flush_dcache_line, Wait, For, NextCpu,
                                system_off, Advance, Does
  <2>3. Len(Loop) \in Nat
    BY PrimaryLayout, Lengths
  <2>4. Latch - (Len(LoopBody) + 1) = LoopHead
    <3>1. /\ LoopHead \in Nat /\ BootLen \in Nat
          /\ Len(LoopBody) = IF conf.waits THEN BootLen + 1 ELSE BootLen
      BY Lengths
    <3>2. Latch = LoopHead + Len(LoopBody) + 1
      BY DEF Latch, BodyLen
    <3> QED
      BY <3>1, <3>2
  <2>5. pc \in [CPU -> Nat]
    BY DEF TypeInv
  <2>6. /\ \A d \in CPU : d # Primary => pc'[d] = pc[d]
        /\ \/ pc'[c] = pc[c] + 1
           \/ pc'[c] = pc[c]
           \/ pc'[c] = pc[c] + Len(Loop)
           \/ pc'[c] = LoopHead
    BY <1>4, <2>2, <2>4, <2>5
  <2>7. pc'[c] > Len(EntryCode[c]) /\ pc'[c] >= LoopHead
    BY <1>2, <1>4, <1>5, <2>3, <2>6
  <2> QED
    BY <1>1, <1>4, <1>5, <2>1, <2>6, <2>7
<1> QED
  BY <1>6, <1>7

\* The loop takes away nothing of what the entry code has left.
LEMMA LoopKeepsEntry ==
  ASSUME ConfInv, TypeInv, LoopInv, OnInv, SlotInv, GivenInv, ReadyInv, EntryInv, RootInv, ArmInv,
         NEW c \in CPU, LoopOrEnd(c)
  PROVE  ReadyInv' /\ EntryInv' /\ RootInv' /\ ArmInv'
<1>1. /\ conf' = conf /\ sp' = sp /\ root' = root /\ own' = own /\ id' = id /\ table' = table
      /\ EntryCode' = EntryCode /\ Primary' = Primary
  BY LoopMoves, Stays
<1>2. \A d \in CPU :
        \/ pc'[d] = pc[d] /\ at'[d] = at[d]
        \/ pc[d] = 0 /\ pc'[d] = 1 /\ d # Primary
        \/ /\ d = Primary /\ at'[d] = at[d]
           /\ pc[d] > Len(EntryCode[d]) /\ pc'[d] > Len(EntryCode[d])
  BY LoopMoves
<1>3. \A d \in CPU : Len(EntryCode[d]) \in Nat /\ pc[d] \in Nat
  BY Numbers DEF TypeInv
<1>4. pc' \in [CPU -> Nat]
  BY LoopTypes DEF TypeInv
<1>5. ASSUME NEW d \in CPU, NEW k \in 1 .. Len(EntryCode[d])
      PROVE  k < pc'[d] <=> k < pc[d]
  BY <1>2, <1>3, <1>4, <1>5
<1>6. ReadyInv'
  <2>1. SUFFICES ASSUME NEW d \in CPU, NEW k \in 1 .. Len(EntryCode[d]), k < pc'[d]
                 PROVE  Left(d, k)'
    BY <1>1 DEF ReadyInv
  <2>2. Left(d, k)
    BY <1>5, <2>1 DEF ReadyInv
  <2> QED
    BY <1>1, <2>2, LeftStays
<1>7. EntryInv'
  BY <1>1, <1>2, <1>3, <1>4 DEF EntryInv
<1>8. RootInv'
  BY <1>1, <1>5 DEF RootInv
<1>9. ArmInv'
  <2>1. SUFFICES ASSUME conf.platform = "arm"
                 PROVE  /\ pc'[Primary] <= 3 => table = {}
                        /\ pc'[Primary] \in 4 .. 7 => table = ArmPageTable.map
    BY <1>1 DEF ArmInv
  <2>2. Len(EntryCode[Primary]) = 8 /\ Primary \in CPU
    BY <2>1, ArmTables, CpuNumbers
  <2>3. pc'[Primary] = pc[Primary] \/ pc'[Primary] > 8
    BY <1>2, <2>2
  <2>4. pc'[Primary] \in Nat /\ pc[Primary] \in Nat
    BY <1>3, <1>4, <2>2
  <2> QED
    BY <2>1, <2>3, <2>4 DEF ArmInv
<1> QED
  BY <1>6, <1>7, <1>8, <1>9

-----------------------------------------------------------------------------
(* The invariant holds.                                                    *)

LEMMA InitConf ==
  ASSUME Init
  PROVE  ConfInv
<1>1. PICK p \in Platforms, first \in CPU, fine \in BOOLEAN, waits \in BOOLEAN :
        conf = [platform |-> p, code |-> Code[p], primary |-> first, fine |-> fine, waits |-> waits]
  BY DEF Init
<1>2. /\ conf.platform = p /\ conf.code = Code[p] /\ conf.primary = first
      /\ conf.fine = fine /\ conf.waits = waits
  BY <1>1
<1>3. SharesSlot => conf.waits
  BY DEF Init
<1> QED
  BY <1>2, <1>3 DEF ConfInv

\* The invariant holds initially.
LEMMA InitInv ==
  ASSUME Init
  PROVE  IInv
<1>1. ConfInv
  BY InitConf
<1>2. TypeInv
  <2>1. table \in SUBSET TableEntry
    BY Tables DEF Init
  <2>2. {} \in Cells /\ {"kernel_mode"} \in Cells
    BY DEF Cells
  <2>3. own \in [CPU -> Cells]
    BY <2>2 DEF Init
  <2>4. pc \in [CPU -> Nat] /\ at \in [CPU -> Half] /\ root \in [CPU -> {"none", "boot", "kernel"}]
    BY DEF Init, Half
  <2>5. /\ sp \in [CPU -> [half : Half, page : Int]] /\ slot \in [cached : Int, memory : Int]
        /\ given \in [CPU -> Int] /\ DOMAIN id = CPU
    BY DEF Init, Half, None
  <2>6. i \in 0 .. CPU_NUM /\ powered \in BOOLEAN
    BY CpuNumAssumption DEF Init
  <2> QED
    BY <2>1, <2>3, <2>4, <2>5, <2>6 DEF TypeInv
<1>3. /\ \A c \in CPU : pc[c] = IF c = Primary THEN 1 ELSE 0
      /\ \A c \in CPU : given[c] = None /\ id[c] = None /\ root[c] = "none"
      /\ i = 0
  BY DEF Init
<1>4. /\ LoopHead \in Nat /\ 1 < LoopHead /\ Primary \in CPU
      /\ \A c \in CPU : Length[c] \in Nat /\ Len(EntryCode[c]) \in Nat
  BY <1>1, Numbers
<1>5. LoopInv
  BY <1>3, <1>4 DEF LoopInv
<1>6. OnInv
  BY <1>3 DEF OnInv, Secondary
<1>7. SlotInv
  BY <1>3, <1>4 DEF SlotInv
<1>8. GivenInv
  BY <1>3 DEF GivenInv
<1>9. ReadyInv
  BY <1>3, <1>4 DEF ReadyInv
<1>10. EntryInv
  BY <1>3 DEF EntryInv, Init, MaybeEL2
<1>11. RootInv
  BY <1>3 DEF RootInv
<1>12. ArmInv
  BY <1>3, <1>4 DEF ArmInv, Init
<1> QED
  BY <1>1, <1>2, <1>5, <1>6, <1>7, <1>8, <1>9, <1>10, <1>11, <1>12 DEF IInv

LEMMA ConfStays ==
  ASSUME ConfInv, conf' = conf
  PROVE  ConfInv'
BY Stays DEF ConfInv

LEMMA EntryStepKeepsInv ==
  ASSUME IInv, NEW c \in CPU, EntryStep(c)
  PROVE  IInv'
<1> USE DEF IInv
<1>1. Moved(c)
  BY EntryMoves
<1>2. ConfInv'
  BY <1>1, ConfStays DEF Moved
<1>3. LoopInv' /\ OnInv' /\ SlotInv' /\ GivenInv'
  BY <1>1, MovedControl
<1>4. TypeInv' /\ ReadyInv' /\ EntryInv' /\ RootInv' /\ ArmInv'
  BY EntryTypes, EntryKeepsReady, EntryKeepsEntry, EntryKeepsRoot, EntryKeepsArm
<1> QED
  BY <1>2, <1>3, <1>4

LEMMA LoopStepKeepsInv ==
  ASSUME IInv, NEW c \in CPU, LoopOrEnd(c)
  PROVE  IInv'
<1> USE DEF IInv
<1>1. ConfInv'
  BY LoopMoves, ConfStays
<1>2. LoopInv' /\ OnInv' /\ SlotInv' /\ GivenInv'
  BY StoreStackControl, CleanControl, StartCpuControl, WaitControl, ForControl, NextCpuControl,
     OffControl DEF LoopOrEnd
<1>3. TypeInv' /\ ReadyInv' /\ EntryInv' /\ RootInv' /\ ArmInv'
  BY LoopTypes, LoopKeepsEntry
<1> QED
  BY <1>1, <1>2, <1>3

\* Every step keeps it.
LEMMA NextKeepsInv ==
  ASSUME IInv, [Next]_vars
  PROVE  IInv'
<1>1. CASE Next
  <2>1. PICK c \in CPU : EntryStep(c) \/ LoopOrEnd(c)
    BY <1>1 DEF Next, CpuStep, EntryStep, LoopOrEnd
  <2> QED
    BY <2>1, EntryStepKeepsInv, LoopStepKeepsInv
<1>2. CASE vars' = vars
  <2> USE <1>2 DEF vars
  <2>1. /\ conf' = conf /\ Here' = Here /\ Primary' = Primary /\ Secondary' = Secondary
        /\ SharesSlot' <=> SharesSlot
        /\ Uncached' <=> Uncached
        /\ LoopHead' = LoopHead /\ Started' = Started /\ Latch' = Latch
        /\ EntryCode' = EntryCode /\ Length' = Length
    BY Stays
  <2>2. ConfInv' /\ TypeInv'
    BY ConfStays DEF IInv, TypeInv
  <2>3. LoopInv' /\ OnInv' /\ SlotInv' /\ GivenInv'
    BY <2>1 DEF IInv, LoopInv, OnInv, SlotInv, GivenInv
  <2>4. ReadyInv'
    <3>1. SUFFICES ASSUME NEW c \in CPU, NEW k \in 1 .. Len(EntryCode[c]), k < pc[c]
                   PROVE  Left(c, k)'
      BY <2>1 DEF ReadyInv
    <3> QED
      BY <3>1, LeftStays DEF IInv, ReadyInv
  <2>5. EntryInv' /\ RootInv' /\ ArmInv'
    BY <2>1 DEF IInv, EntryInv, RootInv, ArmInv
  <2> QED
    BY <2>2, <2>3, <2>4, <2>5 DEF IInv
<1> QED
  BY <1>1, <1>2

\* It is an invariant.
LEMMA Invariance ==
  Spec => []IInv
<1>1. Init => IInv
  BY InitInv
<1>2. IInv /\ [Next]_vars => IInv'
  BY NextKeepsInv
<1> QED
  BY <1>1, <1>2, PTL DEF Spec

-----------------------------------------------------------------------------
(* The theorems.                                                           *)

\* What the steps before main have left is the contract of main.
LEMMA InvImpliesEntryContract ==
  ASSUME IInv
  PROVE  EntryContract
<1> USE DEF IInv
<1>1. SUFFICES ASSUME NEW c \in CPU, id[c] # None
               PROVE  /\ root[c] # "none" /\ at[c] = "high" /\ sp[c].half = "high"
                      /\ "kernel_mode" \in own[c]
                      /\ conf.platform # "riscv" => "fp" \in own[c]
  BY DEF EntryContract
<1>2. pc[c] > Len(EntryCode[c]) /\ at[c] = "high"
  BY <1>1 DEF EntryInv
<1>3. Ready(conf.platform, EntryCode[c]) /\ Len(EntryCode[c]) \in Nat /\ pc[c] \in Nat
  BY EntryCodeIsReady, Numbers DEF TypeInv
<1>4. ASSUME NEW k \in 1 .. Len(EntryCode[c]) - 1 PROVE k \in 1 .. Len(EntryCode[c]) /\ Left(c, k)
  <2>1. k \in 1 .. Len(EntryCode[c]) /\ k < pc[c]
    BY <1>2, <1>3
  <2> QED
    BY <2>1 DEF ReadyInv
<1>5. root[c] # "none"
  BY <1>3, <1>4 DEF Ready, Left
<1>6. sp[c].half = "high"
  BY <1>3, <1>4 DEF Ready, Left
<1>7. "kernel_mode" \in own[c]
  BY <1>3, <1>4 DEF Ready, Left, EntryInv
<1>8. conf.platform # "riscv" => "fp" \in own[c]
  BY <1>3, <1>4 DEF Ready, Left
<1> QED
  BY <1>2, <1>5, <1>6, <1>7, <1>8

\* One of the steps before main has loaded the CPU's own stack.
LEMMA InvImpliesOwnStack ==
  ASSUME IInv
  PROVE  OwnStack
<1> USE DEF IInv
<1>1. SUFFICES ASSUME NEW c \in CPU, id[c] # None PROVE sp[c].page = StackOf(c)
  BY DEF OwnStack
<1>2. pc[c] > Len(EntryCode[c])
  BY <1>1 DEF EntryInv
<1>3. Ready(conf.platform, EntryCode[c]) /\ Len(EntryCode[c]) \in Nat /\ pc[c] \in Nat
  BY EntryCodeIsReady, Numbers DEF TypeInv
<1>4. PICK k \in 1 .. Len(EntryCode[c]) - 1 : SetsStack(EntryCode[c][k])
  BY <1>3 DEF Ready
<1>5. k \in 1 .. Len(EntryCode[c]) /\ k < pc[c]
  BY <1>2, <1>3
<1>6. Left(c, k)
  BY <1>5 DEF ReadyInv
<1> QED
  BY <1>4, <1>6 DEF Left

LEMMA InvImpliesTypeOK ==
  ASSUME IInv
  PROVE  TypeOK
<1> USE DEF IInv
<1>1. conf.platform \in Platforms /\ Primary \in CPU /\ powered \in BOOLEAN
  BY CpuNumbers DEF ConfInv, TypeInv
<1>2. \A e \in table : e.half \in Half /\ e.attr \in {"device", "normal", "any"}
  BY DEF TypeInv, TableEntry
<1>3. SUFFICES ASSUME NEW c \in CPU
               PROVE  /\ pc[c] \in 0 .. Len(Program(c)) + 1
                      /\ at[c] \in Half
                      /\ sp[c].half \in Half
                      /\ pc[c] > 2 /\ conf.platform # "x86" => sp[c].page \in {StackOf(d) : d \in CPU}
                      /\ id[c] # None => sp[c].page \in {StackOf(d) : d \in CPU}
                      /\ root[c] \in {"none", "boot", "kernel"}
                      /\ given[c] \in {None, StackOf(c)}
  BY <1>1, <1>2 DEF TypeOK
<1>4. pc[c] \in 0 .. Len(Program(c)) + 1
  BY DEF LoopInv, Length
<1>5. at[c] \in Half /\ sp[c].half \in Half /\ root[c] \in {"none", "boot", "kernel"}
  BY DEF TypeInv
<1>6. ASSUME pc[c] > 2, conf.platform # "x86" PROVE sp[c].page = StackOf(c)
  <2>1. Ready(conf.platform, EntryCode[c]) /\ Len(EntryCode[c]) \in Nat \ {0} /\ pc[c] \in Nat
    BY EntryCodeIsReady, Numbers DEF TypeInv
  <2>2. SetsStack(EntryCode[c][1]) /\ 1 \in 1 .. Len(EntryCode[c]) /\ 1 < pc[c]
    BY <1>6, <2>1 DEF Ready
  <2>3. Left(c, 1)
    BY <2>2 DEF ReadyInv
  <2> QED
    BY <2>2, <2>3 DEF Left
<1>7. id[c] # None => sp[c].page = StackOf(c)
  BY InvImpliesOwnStack DEF OwnStack
<1>8. given[c] \in {None, StackOf(c)}
  BY DEF GivenInv, StackOf
<1> QED
  BY <1>4, <1>5, <1>6, <1>7, <1>8

\* What TypeOK says holds on every platform, with one to four CPUs and for every
\* size of the image: in particular no CPU ever has a stack pointer that cpu_boot did
\* not store (ap_start.S:48), although the cell starts empty.
THEOREM TypeCorrect ==
  Spec => []TypeOK
<1>1. IInv => TypeOK
  BY InvImpliesTypeOK
<1> QED
  BY <1>1, Invariance, PTL

\* What init_early may rely on (axplat/src/init.rs:19-23) holds on every CPU of
\* every platform when main or secondary_main is called, and from then on.
THEOREM EntryIsReady ==
  Spec => []EntryContract
<1>1. IInv => EntryContract
  BY InvImpliesEntryContract
<1> QED
  BY <1>1, Invariance, PTL

\* Every CPU comes to main on its own boot stack: the loop of
\* start_secondary_cpus (mp.rs:11) writes the shared cell again only after the
\* CPU it was written for has come up, however the CPUs interleave.
THEOREM StacksAreOwn ==
  Spec => []OwnStack
<1>1. IInv => OwnStack
  BY InvImpliesOwnStack
<1> QED
  BY <1>1, Invariance, PTL

\* An entry lies within itself.
LEMMA CoversItself ==
  ASSUME NEW e \in TableEntry
  PROVE  Covers(e, e)
BY DEF Covers, TableEntry

\* The second table of arm-qemu-virt leaves an entry of the first alone, or maps
\* it again with its attribute.
LEMMA ArmRewrites ==
  ASSUME NEW e \in ArmPageTable.map
  PROVE  \/ ~\E f \in ArmPageTableAfterMmu.map : Covers(f, e)
         \/ \E f \in ArmPageTableAfterMmu.map : Covers(f, e) /\ f.attr = e.attr
<1>1. /\ ArmPageTable.map = {Entry(h, \h40000, \h400, "normal") : h \in {"low", "high"}}
      /\ ArmPageTableAfterMmu.map = {Entry("high", 0, GB, "device"), Entry("high", GB, GB, "normal")}
  BY DEF ArmPageTable, ArmPageTableAfterMmu, WriteTable, Op, Plain
<1>2. PICK h \in {"low", "high"} : e = Entry(h, \h40000, \h400, "normal")
  BY <1>1
<1>3. CASE h = "low"
  BY <1>1, <1>2, <1>3 DEF Covers, Entry
<1>4. CASE h = "high"
  <2>1. Covers(Entry("high", GB, GB, "normal"), e) /\ Entry("high", GB, GB, "normal").attr = e.attr
    BY <1>2, <1>4 DEF Covers, Entry, GB
  <2> QED
    BY <1>1, <2>1
<1> QED
  BY <1>3, <1>4

\* A page table is written before any CPU translates, or it is the second one
\* of arm-qemu-virt.
LEMMA WrittenUnused ==
  ASSUME IInv, NEW c \in CPU, InitPageTable(c), NEW d \in CPU, root[d] # "none"
  PROVE  conf.platform = "arm" /\ table = ArmPageTable.map /\ Step(c) = ArmPageTableAfterMmu
<1> USE DEF IInv
<1>1. pc[c] \in DOMAIN Program(c) /\ Step(c).op = "table"
  BY DEF InitPageTable, Does
<1>2. c = Primary
  BY <1>1, TheStep
<1>3. /\ pc[c] <= Len(EntryCode[c]) /\ pc[c] \in 1 .. Length[c] /\ Step(c) = EntryCode[c][pc[c]]
      /\ pc[c] \in Nat /\ Len(EntryCode[c]) \in Nat /\ Len(EntryCode[c]) < LoopHead
      /\ LoopHead \in Nat
  BY <1>1, <1>2, TheStep, Numbers DEF EntryOps, TypeInv
<1>4. pc[c] \in 1 .. Len(EntryCode[c]) /\ pc[Primary] < LoopHead
  BY <1>2, <1>3, Numbers
<1>5. PICK k \in 1 .. Len(EntryCode[d]) : k < pc[d] /\ EntryCode[d][k].op = "mmu"
  BY DEF RootInv
<1>6. d = Primary
  <2>1. SUFFICES ASSUME d # Primary PROVE FALSE
    OBVIOUS
  <2>2. d \in Secondary /\ d \in Nat /\ pc[d] \in Nat /\ pc[d] # 0
    BY <1>5, <2>1, CpuNumbers, Numbers DEF TypeInv
  <2>3. i = 0
    BY <1>4 DEF LoopInv
  <2>4. LoopHead < Started
    BY Numbers
  <2>5. pc[Primary] \notin Started .. Latch
    BY <1>2, <1>3, <1>4, <2>4, Numbers
  <2> QED
    BY <2>2, <2>3, <2>5 DEF OnInv
<1>7. conf.platform = "arm"
  <2>1. SUFFICES ASSUME conf.platform # "arm" PROVE FALSE
    OBVIOUS
  <2>2. TableFirst(EntryCode[Primary])
    BY <2>1, HereIsFit, CpuNumbers DEF Fit, EntryCode
  <2>3. k \in 1 .. pc[c] - 1
    BY <1>2, <1>3, <1>5, <1>6
  <2> QED
    BY <1>1, <1>2, <1>3, <1>4, <1>5, <1>6, <2>2, <2>3 DEF TableFirst
<1>8. /\ EntryCode[Primary] = ArmStart /\ Len(ArmStart) = 8 /\ ArmStart[7] = ArmPageTableAfterMmu
      /\ \A l \in 1 .. 8 : /\ ArmStart[l].op = "table" <=> l \in {3, 7}
                           /\ ArmStart[l].op = "mmu" <=> l = 4
  BY <1>7, ArmTables
<1>9. pc[Primary] = 7
  <2>1. k = 4
    BY <1>5, <1>6, <1>8
  <2>2. pc[c] \in {3, 7}
    BY <1>1, <1>2, <1>3, <1>4, <1>8
  <2> QED
    BY <1>2, <1>5, <1>6, <2>1, <2>2
<1> QED
  BY <1>2, <1>3, <1>7, <1>8, <1>9 DEF ArmInv

\* The boot table is never changed under a CPU that translates through it,
\* except to map more: what init_page_tables_after_mmu (arm boot.rs:76)
\* replaces while it runs on it is mapped again, with the same attribute.
THEOREM TableOnlyGrows ==
  Spec => LiveTable
<1> DEFINE Grows == (\E c \in CPU : root[c] = "boot") =>
                      \A e \in table : \E f \in table' : Covers(f, e) /\ f.attr = e.attr
<1>1. ASSUME IInv, Next PROVE Grows
  <2>1. SUFFICES ASSUME NEW d \in CPU, root[d] = "boot", NEW e \in table
                 PROVE  \E f \in table' : Covers(f, e) /\ f.attr = e.attr
    OBVIOUS
  <2>2. Covers(e, e)
    BY <1>1, CoversItself DEF IInv, TypeInv
  <2>3. PICK c \in CPU : CpuStep(c)
    BY <1>1 DEF Next
  <2>4. CASE InitPageTable(c)
    <3>1. table = ArmPageTable.map /\ Step(c) = ArmPageTableAfterMmu
      BY <1>1, <2>1, <2>4, WrittenUnused
    <3>2. table' = Step(c).map \cup {g \in table : ~\E f \in Step(c).map : Covers(f, g)}
      BY <2>4 DEF InitPageTable
    <3>3. e \in ArmPageTable.map
      BY <3>1
    <3>4. CASE ~\E f \in ArmPageTableAfterMmu.map : Covers(f, e)
      BY <2>2, <3>1, <3>2, <3>4
    <3>5. CASE \E f \in ArmPageTableAfterMmu.map : Covers(f, e) /\ f.attr = e.attr
      BY <3>1, <3>2, <3>5
    <3> QED
      BY <3>3, <3>4, <3>5, ArmRewrites
  <2>5. CASE ~InitPageTable(c)
    <3>1. table' = table
      BY <2>3, <2>5 DEF CpuStep, Call, LoadStack, RaiseStack, init_mmu, Jump, EnterMain,
                        RemapKernel, StoreStack, flush_dcache_line, StartCpu, Wait, For, NextCpu,
                        system_off
    <3> QED
      BY <2>2, <3>1
  <2> QED
    BY <2>4, <2>5
<1>2. IInv /\ [Next]_vars => [Grows]_vars
  BY <1>1
<1> QED
  BY <1>2, Invariance, PTL DEF Spec, LiveTable

-----------------------------------------------------------------------------
(* The order of initialization: what each step needs and what it provides. *)

\* The shared cells a step fills and what it sets up on its CPU.
Fills(s) == IF s.op = "call" THEN s.once \cup s.sets ELSE {}
Owns(s) == IF s.op = "call" THEN s.own ELSE {}

Effect(s, uses, once, fills, owns) ==
    s.uses = uses /\ s.once = once /\ Fills(s) = fills /\ Owns(s) = owns

Blank(s) == Effect(s, {}, {}, {}, {})

\* Where the cells `full` are filled and `mine` is set up on the CPU, every step of
\* s finds what it uses and no LazyInit cell that it fills is full; s fills
\* the cells `fills`, and no others, and sets up `owns` on the CPU.
Orderly(s, full, mine, fills, owns) ==
    /\ s \in Seq(StepType)
    /\ \A k \in 1 .. Len(s) :
         /\ \A x \in s[k].uses :
              x \in full \/ x \in mine \/ \E j \in 1 .. k - 1 : x \in Fills(s[j]) \/ x \in Owns(s[j])
         /\ \A x \in s[k].once : x \notin full /\ \A j \in 1 .. k - 1 : x \notin Fills(s[j])
         /\ \A x \in Fills(s[k]) : x \in fills
    /\ \A x \in fills : \E k \in 1 .. Len(s) : x \in Fills(s[k])
    /\ \A x \in owns : \E k \in 1 .. Len(s) : x \in Owns(s[k])

\* Steps that are no calls.
LEMMA OpIsBlank ==
  ASSUME NEW n
  PROVE  Blank(Op(n))
BY DEF Blank, Effect, Fills, Owns, Op, Plain

LEMMA TableIsBlank ==
  ASSUME NEW entries
  PROVE  Blank(WriteTable(entries))
BY DEF Blank, Effect, Fills, Owns, WriteTable, Op, Plain

\* What the functions of the shared drivers need, fill and set up.
LEMMA DriverEffects ==
  /\ Effect(switch_to_el1, {}, {}, {}, {"kernel_mode"})
  /\ Effect(enable_fp, {}, {}, {}, {"fp"})
  /\ Effect(init_trap, {}, {}, {}, {"trap"})
  /\ Effect(pl011_init_early, {}, {"UART"}, {"UART"}, {})
  /\ Effect(psci_init, {}, {}, {"PSCI_METHOD"}, {})
  /\ Effect(generic_timer_init_early, {}, {}, {"RATIO"}, {})
  /\ Effect(pl031_init_early, {"RATIO"}, {}, {}, {})
  /\ Effect(init_gic, {}, {"GIC", "TRAP_OP"}, {"GIC", "TRAP_OP"}, {})
  /\ Effect(init_gicc, {"GIC"}, {}, {}, {"irqs"})
  /\ Effect(enable_irqs, {"GIC", "irqs"}, {}, {}, {"timer"})
  /\ Effect(register_handler, {"GIC"}, {}, {"uart_handler"}, {})
  /\ Effect(pl011_write_bytes, {"UART", "trap"}, {}, {}, {})
  /\ Effect(generic_timer_ticks_to_nanos, {"RATIO"}, {}, {}, {})
  /\ Effect(gic_handle_irq, {"TRAP_OP", "trap", "irqs", "timer"}, {}, {}, {})
  /\ Effect(gic_send_ipi, {"GIC", "irqs"}, {}, {}, {})
<1>1. /\ Effect(switch_to_el1, {}, {}, {}, {"kernel_mode"})
      /\ Effect(enable_fp, {}, {}, {}, {"fp"})
      /\ Effect(init_trap, {}, {}, {}, {"trap"})
  BY DEF Effect, Fills, Owns, Plain, switch_to_el1, enable_fp, init_trap
<1>2. /\ Effect(pl011_init_early, {}, {"UART"}, {"UART"}, {})
      /\ Effect(psci_init, {}, {}, {"PSCI_METHOD"}, {})
      /\ Effect(generic_timer_init_early, {}, {}, {"RATIO"}, {})
  BY DEF Effect, Fills, Owns, Plain, pl011_init_early, psci_init, generic_timer_init_early
<1>3. /\ Effect(pl031_init_early, {"RATIO"}, {}, {}, {})
      /\ Effect(init_gic, {}, {"GIC", "TRAP_OP"}, {"GIC", "TRAP_OP"}, {})
      /\ Effect(init_gicc, {"GIC"}, {}, {}, {"irqs"})
  BY DEF Effect, Fills, Owns, Plain, pl031_init_early, init_gic, init_gicc
<1>4. /\ Effect(enable_irqs, {"GIC", "irqs"}, {}, {}, {"timer"})
      /\ Effect(register_handler, {"GIC"}, {}, {"uart_handler"}, {})
      /\ Effect(pl011_write_bytes, {"UART", "trap"}, {}, {}, {})
  BY DEF Effect, Fills, Owns, Plain, enable_irqs, register_handler, pl011_write_bytes
<1>5. /\ Effect(generic_timer_ticks_to_nanos, {"RATIO"}, {}, {}, {})
      /\ Effect(gic_handle_irq, {"TRAP_OP", "trap", "irqs", "timer"}, {}, {}, {})
      /\ Effect(gic_send_ipi, {"GIC", "irqs"}, {}, {}, {})
  BY DEF Effect, Fills, Owns, Plain, generic_timer_ticks_to_nanos, gic_handle_irq, gic_send_ipi
<1> QED
  BY <1>1, <1>2, <1>3, <1>4, <1>5

\* What the functions of bsta1000b need, fill and set up.
LEMMA BstaEffects ==
  /\ Effect(dw_uart_init_early, {}, {}, {"UART"}, {})
  /\ Effect(dw_uart_init_irq, {"UART", "GIC"}, {}, {"uart_handler"}, {})
  /\ Effect(dw_uart_write_bytes, {"UART", "trap"}, {}, {}, {})
  /\ Effect(get_bootmode, {}, {}, {}, {})
  /\ Effect(reset_qspi, {"RATIO"}, {}, {}, {})
<1>1. /\ Effect(dw_uart_init_early, {}, {}, {"UART"}, {})
      /\ Effect(dw_uart_init_irq, {"UART", "GIC"}, {}, {"uart_handler"}, {})
      /\ Effect(dw_uart_write_bytes, {"UART", "trap"}, {}, {}, {})
  BY DEF Effect, Fills, Owns, Plain, dw_uart_init_early, dw_uart_init_irq, dw_uart_write_bytes
<1>2. /\ Effect(get_bootmode, {}, {}, {}, {})
      /\ Effect(reset_qspi, {"RATIO"}, {}, {}, {})
  BY DEF Effect, Fills, Owns, Plain, get_bootmode, reset_qspi
<1> QED
  BY <1>1, <1>2

\* What the functions of loongarch64 need, fill and set up.
LEMMA LoongEffects ==
  /\ Effect(LoongTimeInitEarly, {}, {"NANOS_PER_TICK"}, {"NANOS_PER_TICK"}, {})
  /\ Effect(LoongInitRtc, {"NANOS_PER_TICK"}, {}, {}, {})
  /\ Effect(LoongTimeInitPercpu, {}, {}, {}, {"timer"})
  /\ Effect(LoongEnableIpi, {}, {}, {}, {"irqs"})
  /\ Effect(LoongWriteBytes, {"trap"}, {}, {}, {})
  /\ Effect(LoongTicksToNanos, {"NANOS_PER_TICK"}, {}, {}, {})
  /\ Effect(LoongHandleIrq, {"trap", "timer", "irqs"}, {}, {}, {})
<1>1. /\ Effect(LoongTimeInitEarly, {}, {"NANOS_PER_TICK"}, {"NANOS_PER_TICK"}, {})
      /\ Effect(LoongInitRtc, {"NANOS_PER_TICK"}, {}, {}, {})
      /\ Effect(LoongTimeInitPercpu, {}, {}, {}, {"timer"})
  BY DEF Effect, Fills, Owns, Plain, LoongTimeInitEarly, LoongInitRtc, LoongTimeInitPercpu
<1>2. /\ Effect(LoongEnableIpi, {}, {}, {}, {"irqs"})
      /\ Effect(LoongWriteBytes, {"trap"}, {}, {}, {})
      /\ Effect(LoongTicksToNanos, {"NANOS_PER_TICK"}, {}, {}, {})
  BY DEF Effect, Fills, Owns, Plain, LoongEnableIpi, LoongWriteBytes, LoongTicksToNanos
<1>3. /\ Effect(LoongHandleIrq, {"trap", "timer", "irqs"}, {}, {}, {})
  BY DEF Effect, Fills, Owns, Plain, LoongHandleIrq
<1> QED
  BY <1>1, <1>2, <1>3

\* What the functions of riscv64 need, fill and set up.
LEMMA RiscvEffects ==
  /\ Effect(RiscvTimeInitEarly, {}, {}, {}, {})
  /\ Effect(RiscvIrqInitPercpu, {}, {}, {}, {"irqs"})
  /\ Effect(RiscvTimeInitPercpu, {}, {}, {}, {"timer"})
  /\ Effect(RiscvHandleIrq, {"trap", "timer", "irqs"}, {}, {}, {})
<1>1. /\ Effect(RiscvTimeInitEarly, {}, {}, {}, {})
      /\ Effect(RiscvIrqInitPercpu, {}, {}, {}, {"irqs"})
      /\ Effect(RiscvTimeInitPercpu, {}, {}, {}, {"timer"})
  BY DEF Effect, Fills, Owns, Plain, RiscvTimeInitEarly, RiscvIrqInitPercpu, RiscvTimeInitPercpu
<1>2. /\ Effect(RiscvHandleIrq, {"trap", "timer", "irqs"}, {}, {}, {})
  BY DEF Effect, Fills, Owns, Plain, RiscvHandleIrq
<1> QED
  BY <1>1, <1>2

\* What the functions of x86-pc need, fill and set up.
LEMMA X86Effects ==
  /\ Effect(X86ConsoleInit, {}, {}, {"COM1"}, {})
  /\ Effect(X86TimeInitEarly, {"COM1"}, {}, {"INIT_TICK"}, {})
  /\ Effect(X86MemInit, {}, {"RAM_REGIONS"}, {"RAM_REGIONS"}, {})
  /\ Effect(X86ApicInitPrimary, {}, {"IO_APIC"}, {"IO_APIC", "LOCAL_APIC"}, {"irqs"})
  /\ Effect(X86TimeInitPrimary, {"LOCAL_APIC"}, {}, {"LAPIC_RATIO"}, {"timer"})
  /\ Effect(X86ApicInitSecondary, {"LOCAL_APIC"}, {}, {}, {"irqs"})
  /\ Effect(X86TimeInitSecondary, {"LOCAL_APIC", "irqs"}, {}, {}, {"timer"})
  /\ Effect(X86WriteBytes, {"COM1", "trap"}, {}, {}, {})
  /\ Effect(X86CurrentTicks, {"INIT_TICK"}, {}, {}, {})
  /\ Effect(X86SetOneshotTimer, {"trap", "irqs", "timer", "LOCAL_APIC", "LAPIC_RATIO"}, {}, {}, {})
  /\ Effect(X86SetEnable, {"IO_APIC"}, {}, {}, {})
<1>1. /\ Effect(X86ConsoleInit, {}, {}, {"COM1"}, {})
      /\ Effect(X86TimeInitEarly, {"COM1"}, {}, {"INIT_TICK"}, {})
      /\ Effect(X86MemInit, {}, {"RAM_REGIONS"}, {"RAM_REGIONS"}, {})
  BY DEF Effect, Fills, Owns, Plain, X86ConsoleInit, X86TimeInitEarly, X86MemInit
<1>2. /\ Effect(X86ApicInitPrimary, {}, {"IO_APIC"}, {"IO_APIC", "LOCAL_APIC"}, {"irqs"})
      /\ Effect(X86TimeInitPrimary, {"LOCAL_APIC"}, {}, {"LAPIC_RATIO"}, {"timer"})
      /\ Effect(X86ApicInitSecondary, {"LOCAL_APIC"}, {}, {}, {"irqs"})
  BY DEF Effect, Fills, Owns, Plain, X86ApicInitPrimary, X86TimeInitPrimary, X86ApicInitSecondary
<1>3. /\ Effect(X86TimeInitSecondary, {"LOCAL_APIC", "irqs"}, {}, {}, {"timer"})
      /\ Effect(X86WriteBytes, {"COM1", "trap"}, {}, {}, {})
      /\ Effect(X86CurrentTicks, {"INIT_TICK"}, {}, {}, {})
  BY DEF Effect, Fills, Owns, Plain, X86TimeInitSecondary, X86WriteBytes, X86CurrentTicks
<1>4. /\ Effect(X86SetOneshotTimer, {"trap", "irqs", "timer", "LOCAL_APIC", "LAPIC_RATIO"}, {}, {}, {})
      /\ Effect(X86SetEnable, {"IO_APIC"}, {}, {}, {})
  BY DEF Effect, Fills, Owns, Plain, X86SetOneshotTimer, X86SetEnable
<1> QED
  BY <1>1, <1>2, <1>3, <1>4

\* The order of a platform's code, where init_early fills the cells E and init_later
\* the cells L.
Order(code, E, L) ==
    /\ Orderly(code.start, {}, {}, {}, {})
    /\ Orderly(code.early, {}, {}, E, {"trap"})
    /\ Orderly(code.early_use, E, {"trap"}, {}, {})
    /\ Orderly(code.later, E, {"trap"}, L, {"irqs", "timer"})
    /\ Orderly(code.later_use, E \cup L, {"trap", "irqs", "timer"}, {}, {})
    /\ Orderly(code.secondary, E \cup L, {}, {}, {})
    /\ Orderly(code.later_secondary, E \cup L, {"trap"}, {}, {"irqs", "timer"})
    /\ Orderly(code.cpu_boot, E \cup L, {}, {}, {})
    /\ code.system_off.uses \subseteq E \cup L /\ code.system_off.once = {}

\* The steps of the entry code and of cpu_boot that use and fill nothing.
LEMMA CodeIsBlank ==
  /\ Blank(SetStack)
  /\ Blank(Op("sp_virt"))
  /\ Blank(InitMmu)
  /\ Blank(JumpHigh)
  /\ Blank(StackHigh)
  /\ Blank(CallMain)
  /\ Blank(PassStack)
  /\ Blank(CleanStack)
  /\ Blank(Release)
  /\ Blank(RaspiSystemOff)
  /\ Blank(Op("off"))
  /\ Blank(VirtPageTable)
  /\ Blank(BstaPageTable)
  /\ Blank(PhytiumPageTable)
  /\ Blank(RaspiPageTable)
  /\ Blank(ArmPageTable)
  /\ Blank(ArmPageTableAfterMmu)
  /\ Blank(LoongPageTable)
  /\ Blank(RiscvPageTable)
BY OpIsBlank, TableIsBlank
   DEF SetStack, InitMmu, JumpHigh, StackHigh, CallMain, PassStack, CleanStack, Release,
       RaspiSystemOff, VirtPageTable, BstaPageTable, PhytiumPageTable, RaspiPageTable, ArmPageTable,
       ArmPageTableAfterMmu, LoongPageTable, RiscvPageTable

\* The steps of cpu_boot and system_off that use something.
LEMMA BootEffects ==
  /\ Effect(psci_cpu_on, {"PSCI_METHOD"}, {}, {}, {})
  /\ psci_system_off.uses = {"PSCI_METHOD"} /\ psci_system_off.once = {}
  /\ LoongSystemOff.uses = {} /\ LoongSystemOff.once = {}
  /\ Blank([Release EXCEPT !.ram = {0}])
  /\ Blank([PassStack EXCEPT !.ram = {6}])
  /\ Effect([Release EXCEPT !.uses = {"LOCAL_APIC", "INIT_TICK"}, !.dev = {"lapic"}],
            {"LOCAL_APIC", "INIT_TICK"}, {}, {}, {})
<1>1. Effect(psci_cpu_on, {"PSCI_METHOD"}, {}, {}, {})
  BY DEF Effect, Fills, Owns, psci_cpu_on, Release, Op, Plain
<1>2. /\ psci_system_off.uses = {"PSCI_METHOD"} /\ psci_system_off.once = {}
      /\ LoongSystemOff.uses = {} /\ LoongSystemOff.once = {}
  BY DEF psci_system_off, LoongSystemOff, Op, Plain
<1>3. Blank([Release EXCEPT !.ram = {0}]) /\ Blank([PassStack EXCEPT !.ram = {6}])
  BY DEF Blank, Effect, Fills, Owns, Release, PassStack, Op, Plain
<1>4. Effect([Release EXCEPT !.uses = {"LOCAL_APIC", "INIT_TICK"}, !.dev = {"lapic"}],
             {"LOCAL_APIC", "INIT_TICK"}, {}, {}, {})
  BY DEF Effect, Fills, Owns, Release, Op, Plain
<1> QED
  BY <1>1, <1>2, <1>3, <1>4

\* A program that uses and fills nothing.
LEMMA BlankIsOrderly ==
  ASSUME NEW s \in Seq(StepType), NEW full,
         \A k \in 1 .. Len(s) : s[k].uses = {} /\ s[k].once = {} /\ Fills(s[k]) = {}
  PROVE  Orderly(s, full, {}, {}, {})
BY DEF Orderly

\* The parts of a platform's code are programs.
LEMMA PartsAreSteps ==
  ASSUME NEW p, NEW code, Fit(p, code)
  PROVE  /\ code.start \in Seq(StepType) /\ code.secondary \in Seq(StepType)
         /\ code.early \in Seq(StepType) /\ code.early_use \in Seq(StepType)
         /\ code.later \in Seq(StepType) /\ code.later_use \in Seq(StepType)
         /\ code.later_secondary \in Seq(StepType) /\ code.cpu_boot \in Seq(StepType)
<1>1. /\ code.start \in Seq(StepOf(EntryOps)) /\ code.secondary \in Seq(StepOf(EntryOps \ {"table"}))
      /\ code.early \in Seq(StepOf({"call"})) /\ code.early_use \in Seq(StepOf({"call"}))
      /\ code.later \in Seq(StepOf({"call"})) /\ code.later_use \in Seq(StepOf({"call"}))
      /\ code.later_secondary \in Seq(StepOf({"call"}))
      /\ code.cpu_boot \in Seq(StepOf({"stack", "clean", "release"}))
  BY DEF Fit, Calls, Passes
<1> QED
  BY <1>1, StepsOf

\* aarch64-qemu-virt, with the cells that init_early and init_later fill.
LEMMA VirtOrder ==
  Order(Virt, {"UART", "PSCI_METHOD", "RATIO"}, {"GIC", "TRAP_OP", "uart_handler"})
<1>0. /\ Virt.start = VirtStart /\ Virt.early = VirtInitEarly
      /\ Virt.early_use = GicEarlyUse(pl011_write_bytes) /\ Virt.later = VirtInitLater
      /\ Virt.later_use = GicLaterUse /\ Virt.secondary = VirtStartSecondary
      /\ Virt.later_secondary = GicLaterSecondary /\ Virt.cpu_boot = VirtCpuBoot
      /\ Virt.system_off = psci_system_off
  BY DEF Virt
<1>1. Orderly(Virt.start, {}, {}, {}, {})
  <2>1. /\ Len(Virt.start) = 7 /\ Virt.start[1] = SetStack /\ Virt.start[2] = switch_to_el1
        /\ Virt.start[3] = enable_fp /\ Virt.start[4] = VirtPageTable /\ Virt.start[5] = InitMmu
        /\ Virt.start[6] = StackHigh /\ Virt.start[7] = CallMain
    BY <1>0 DEF VirtStart
  <2>2. /\ Blank(Virt.start[1]) /\ Effect(Virt.start[2], {}, {}, {}, {"kernel_mode"})
        /\ Effect(Virt.start[3], {}, {}, {}, {"fp"}) /\ Blank(Virt.start[4]) /\ Blank(Virt.start[5])
        /\ Blank(Virt.start[6]) /\ Blank(Virt.start[7])
    BY <2>1, DriverEffects, CodeIsBlank
  <2>3. Len(Virt.start) = 7 /\ Virt.start \in Seq(StepType)
    BY <2>1, PartsAreSteps, VirtFit
  <2>4. \A k \in 1 .. Len(Virt.start) :
          /\ Virt.start[k].uses = {} /\ Virt.start[k].once = {}
          /\ Fills(Virt.start[k]) = {}
    BY <2>2, <2>3 DEF Effect, Blank
  <2> QED
    BY <2>3, <2>4, BlankIsOrderly
<1>2. Orderly(Virt.early, {}, {}, {"UART", "PSCI_METHOD", "RATIO"}, {"trap"})
  <2>1. /\ Len(Virt.early) = 5 /\ Virt.early[1] = init_trap /\ Virt.early[2] = pl011_init_early
        /\ Virt.early[3] = psci_init /\ Virt.early[4] = generic_timer_init_early
        /\ Virt.early[5] = pl031_init_early
    BY <1>0 DEF VirtInitEarly
  <2>2. /\ Effect(Virt.early[1], {}, {}, {}, {"trap"})
        /\ Effect(Virt.early[2], {}, {"UART"}, {"UART"}, {})
        /\ Effect(Virt.early[3], {}, {}, {"PSCI_METHOD"}, {})
        /\ Effect(Virt.early[4], {}, {}, {"RATIO"}, {})
        /\ Effect(Virt.early[5], {"RATIO"}, {}, {}, {})
    BY <2>1, DriverEffects
  <2>3. Len(Virt.early) = 5 /\ Virt.early \in Seq(StepType)
    BY <2>1, PartsAreSteps, VirtFit
  <2> QED
    BY <2>2, <2>3 DEF Orderly, Effect
<1>3. Orderly(Virt.early_use, {"UART", "PSCI_METHOD", "RATIO"}, {"trap"}, {}, {})
  <2>1. /\ Len(Virt.early_use) = 2 /\ Virt.early_use[1] = pl011_write_bytes
        /\ Virt.early_use[2] = generic_timer_ticks_to_nanos
    BY <1>0 DEF GicEarlyUse
  <2>2. /\ Effect(Virt.early_use[1], {"UART", "trap"}, {}, {}, {})
        /\ Effect(Virt.early_use[2], {"RATIO"}, {}, {}, {})
    BY <2>1, DriverEffects
  <2>3. Len(Virt.early_use) = 2 /\ Virt.early_use \in Seq(StepType)
    BY <2>1, PartsAreSteps, VirtFit
  <2> QED
    BY <2>2, <2>3 DEF Orderly, Effect
<1>4. Orderly(Virt.later, {"UART", "PSCI_METHOD", "RATIO"}, {"trap"},
              {"GIC", "TRAP_OP", "uart_handler"}, {"irqs", "timer"})
  <2>1. /\ Len(Virt.later) = 4 /\ Virt.later[1] = init_gic /\ Virt.later[2] = init_gicc
        /\ Virt.later[3] = enable_irqs /\ Virt.later[4] = register_handler
    BY <1>0 DEF VirtInitLater
  <2>2. /\ Effect(Virt.later[1], {}, {"GIC", "TRAP_OP"}, {"GIC", "TRAP_OP"}, {})
        /\ Effect(Virt.later[2], {"GIC"}, {}, {}, {"irqs"})
        /\ Effect(Virt.later[3], {"GIC", "irqs"}, {}, {}, {"timer"})
        /\ Effect(Virt.later[4], {"GIC"}, {}, {"uart_handler"}, {})
    BY <2>1, DriverEffects
  <2>3. Len(Virt.later) = 4 /\ Virt.later \in Seq(StepType)
    BY <2>1, PartsAreSteps, VirtFit
  <2> QED
    BY <2>2, <2>3 DEF Orderly, Effect
<1>5. Orderly(Virt.later_use,
              {"UART", "PSCI_METHOD", "RATIO", "GIC", "TRAP_OP", "uart_handler"},
              {"trap", "irqs", "timer"}, {}, {})
  <2>1. /\ Len(Virt.later_use) = 2 /\ Virt.later_use[1] = gic_handle_irq
        /\ Virt.later_use[2] = gic_send_ipi
    BY <1>0 DEF GicLaterUse
  <2>2. /\ Effect(Virt.later_use[1], {"TRAP_OP", "trap", "irqs", "timer"}, {}, {}, {})
        /\ Effect(Virt.later_use[2], {"GIC", "irqs"}, {}, {}, {})
    BY <2>1, DriverEffects
  <2>3. Len(Virt.later_use) = 2 /\ Virt.later_use \in Seq(StepType)
    BY <2>1, PartsAreSteps, VirtFit
  <2> QED
    BY <2>2, <2>3 DEF Orderly, Effect
<1>6. Orderly(Virt.secondary,
              {"UART", "PSCI_METHOD", "RATIO", "GIC", "TRAP_OP", "uart_handler"}, {}, {},
              {})
  <2>1. /\ Len(Virt.secondary) = 6 /\ Virt.secondary[1] = SetStack
        /\ Virt.secondary[2] = switch_to_el1 /\ Virt.secondary[3] = enable_fp
        /\ Virt.secondary[4] = InitMmu /\ Virt.secondary[5] = StackHigh
        /\ Virt.secondary[6] = CallMain
    BY <1>0 DEF VirtStartSecondary
  <2>2. /\ Blank(Virt.secondary[1]) /\ Effect(Virt.secondary[2], {}, {}, {}, {"kernel_mode"})
        /\ Effect(Virt.secondary[3], {}, {}, {}, {"fp"}) /\ Blank(Virt.secondary[4])
        /\ Blank(Virt.secondary[5]) /\ Blank(Virt.secondary[6])
    BY <2>1, DriverEffects, CodeIsBlank
  <2>3. Len(Virt.secondary) = 6 /\ Virt.secondary \in Seq(StepType)
    BY <2>1, PartsAreSteps, VirtFit
  <2>4. \A k \in 1 .. Len(Virt.secondary) :
          /\ Virt.secondary[k].uses = {} /\ Virt.secondary[k].once = {}
          /\ Fills(Virt.secondary[k]) = {}
    BY <2>2, <2>3 DEF Effect, Blank
  <2> QED
    BY <2>3, <2>4, BlankIsOrderly
<1>7. Orderly(Virt.later_secondary,
              {"UART", "PSCI_METHOD", "RATIO", "GIC", "TRAP_OP", "uart_handler"}, {"trap"},
              {}, {"irqs", "timer"})
  <2>1. /\ Len(Virt.later_secondary) = 2 /\ Virt.later_secondary[1] = init_gicc
        /\ Virt.later_secondary[2] = enable_irqs
    BY <1>0 DEF GicLaterSecondary
  <2>2. /\ Effect(Virt.later_secondary[1], {"GIC"}, {}, {}, {"irqs"})
        /\ Effect(Virt.later_secondary[2], {"GIC", "irqs"}, {}, {}, {"timer"})
    BY <2>1, DriverEffects
  <2>3. Len(Virt.later_secondary) = 2 /\ Virt.later_secondary \in Seq(StepType)
    BY <2>1, PartsAreSteps, VirtFit
  <2> QED
    BY <2>2, <2>3 DEF Orderly, Effect
<1>8. Orderly(Virt.cpu_boot,
              {"UART", "PSCI_METHOD", "RATIO", "GIC", "TRAP_OP", "uart_handler"}, {}, {},
              {})
  <2>1. /\ Len(Virt.cpu_boot) = 1 /\ Virt.cpu_boot[1] = psci_cpu_on
    BY <1>0 DEF VirtCpuBoot
  <2>2. /\ Effect(Virt.cpu_boot[1], {"PSCI_METHOD"}, {}, {}, {})
    BY <2>1, BootEffects
  <2>3. Len(Virt.cpu_boot) = 1 /\ Virt.cpu_boot \in Seq(StepType)
    BY <2>1, PartsAreSteps, VirtFit
  <2> QED
    BY <2>2, <2>3 DEF Orderly, Effect
<1>9. /\ Virt.system_off.uses \subseteq {"UART", "PSCI_METHOD", "RATIO", "GIC", "TRAP_OP", "uart_handler"}
      /\ Virt.system_off.once = {}
  BY <1>0, BootEffects
<1>10. {"UART", "PSCI_METHOD", "RATIO"} \cup {"GIC", "TRAP_OP", "uart_handler"}
       = {"UART", "PSCI_METHOD", "RATIO", "GIC", "TRAP_OP", "uart_handler"}
  OBVIOUS
<1> QED
  BY <1>1, <1>2, <1>3, <1>4, <1>5, <1>6, <1>7, <1>8, <1>9, <1>10 DEF Order

\* aarch64-bsta1000b, with the cells that init_early and init_later fill.
LEMMA BstaOrder ==
  Order(Bsta, {"PSCI_METHOD", "UART", "RATIO"}, {"GIC", "TRAP_OP", "uart_handler"})
<1>0. /\ Bsta.start = BstaStart /\ Bsta.early = BstaInitEarly
      /\ Bsta.early_use = GicEarlyUse(dw_uart_write_bytes) \o <<get_bootmode, reset_qspi>>
      /\ Bsta.later = BstaInitLater /\ Bsta.later_use = GicLaterUse
      /\ Bsta.secondary = BstaStartSecondary /\ Bsta.later_secondary = GicLaterSecondary
      /\ Bsta.cpu_boot = BstaCpuBoot /\ Bsta.system_off = psci_system_off
  BY DEF Bsta, Virt
<1>1. Orderly(Bsta.start, {}, {}, {}, {})
  <2>1. /\ Len(Bsta.start) = 7 /\ Bsta.start[1] = SetStack /\ Bsta.start[2] = switch_to_el1
        /\ Bsta.start[3] = enable_fp /\ Bsta.start[4] = BstaPageTable /\ Bsta.start[5] = InitMmu
        /\ Bsta.start[6] = StackHigh /\ Bsta.start[7] = CallMain
    BY <1>0 DEF BstaStart
  <2>2. /\ Blank(Bsta.start[1]) /\ Effect(Bsta.start[2], {}, {}, {}, {"kernel_mode"})
        /\ Effect(Bsta.start[3], {}, {}, {}, {"fp"}) /\ Blank(Bsta.start[4]) /\ Blank(Bsta.start[5])
        /\ Blank(Bsta.start[6]) /\ Blank(Bsta.start[7])
    BY <2>1, DriverEffects, CodeIsBlank
  <2>3. Len(Bsta.start) = 7 /\ Bsta.start \in Seq(StepType)
    BY <2>1, PartsAreSteps, BstaFit
  <2>4. \A k \in 1 .. Len(Bsta.start) :
          /\ Bsta.start[k].uses = {} /\ Bsta.start[k].once = {}
          /\ Fills(Bsta.start[k]) = {}
    BY <2>2, <2>3 DEF Effect, Blank
  <2> QED
    BY <2>3, <2>4, BlankIsOrderly
<1>2. Orderly(Bsta.early, {}, {}, {"PSCI_METHOD", "UART", "RATIO"}, {"trap"})
  <2>1. /\ Len(Bsta.early) = 4 /\ Bsta.early[1] = init_trap /\ Bsta.early[2] = psci_init
        /\ Bsta.early[3] = dw_uart_init_early /\ Bsta.early[4] = generic_timer_init_early
    BY <1>0 DEF BstaInitEarly
  <2>2. /\ Effect(Bsta.early[1], {}, {}, {}, {"trap"})
        /\ Effect(Bsta.early[2], {}, {}, {"PSCI_METHOD"}, {})
        /\ Effect(Bsta.early[3], {}, {}, {"UART"}, {})
        /\ Effect(Bsta.early[4], {}, {}, {"RATIO"}, {})
    BY <2>1, DriverEffects, BstaEffects
  <2>3. Len(Bsta.early) = 4 /\ Bsta.early \in Seq(StepType)
    BY <2>1, PartsAreSteps, BstaFit
  <2> QED
    BY <2>2, <2>3 DEF Orderly, Effect
<1>3. Orderly(Bsta.early_use, {"PSCI_METHOD", "UART", "RATIO"}, {"trap"}, {}, {})
  <2>1. /\ Len(Bsta.early_use) = 4 /\ Bsta.early_use[1] = dw_uart_write_bytes
        /\ Bsta.early_use[2] = generic_timer_ticks_to_nanos /\ Bsta.early_use[3] = get_bootmode
        /\ Bsta.early_use[4] = reset_qspi
    BY <1>0 DEF GicEarlyUse
  <2>2. /\ Effect(Bsta.early_use[1], {"UART", "trap"}, {}, {}, {})
        /\ Effect(Bsta.early_use[2], {"RATIO"}, {}, {}, {})
        /\ Effect(Bsta.early_use[3], {}, {}, {}, {})
        /\ Effect(Bsta.early_use[4], {"RATIO"}, {}, {}, {})
    BY <2>1, DriverEffects, BstaEffects
  <2>3. Len(Bsta.early_use) = 4 /\ Bsta.early_use \in Seq(StepType)
    BY <2>1, PartsAreSteps, BstaFit
  <2> QED
    BY <2>2, <2>3 DEF Orderly, Effect
<1>4. Orderly(Bsta.later, {"PSCI_METHOD", "UART", "RATIO"}, {"trap"},
              {"GIC", "TRAP_OP", "uart_handler"}, {"irqs", "timer"})
  <2>1. /\ Len(Bsta.later) = 4 /\ Bsta.later[1] = init_gic /\ Bsta.later[2] = init_gicc
        /\ Bsta.later[3] = enable_irqs /\ Bsta.later[4] = dw_uart_init_irq
    BY <1>0 DEF BstaInitLater
  <2>2. /\ Effect(Bsta.later[1], {}, {"GIC", "TRAP_OP"}, {"GIC", "TRAP_OP"}, {})
        /\ Effect(Bsta.later[2], {"GIC"}, {}, {}, {"irqs"})
        /\ Effect(Bsta.later[3], {"GIC", "irqs"}, {}, {}, {"timer"})
        /\ Effect(Bsta.later[4], {"UART", "GIC"}, {}, {"uart_handler"}, {})
    BY <2>1, DriverEffects, BstaEffects
  <2>3. Len(Bsta.later) = 4 /\ Bsta.later \in Seq(StepType)
    BY <2>1, PartsAreSteps, BstaFit
  <2> QED
    BY <2>2, <2>3 DEF Orderly, Effect
<1>5. Orderly(Bsta.later_use,
              {"PSCI_METHOD", "UART", "RATIO", "GIC", "TRAP_OP", "uart_handler"},
              {"trap", "irqs", "timer"}, {}, {})
  <2>1. /\ Len(Bsta.later_use) = 2 /\ Bsta.later_use[1] = gic_handle_irq
        /\ Bsta.later_use[2] = gic_send_ipi
    BY <1>0 DEF GicLaterUse
  <2>2. /\ Effect(Bsta.later_use[1], {"TRAP_OP", "trap", "irqs", "timer"}, {}, {}, {})
        /\ Effect(Bsta.later_use[2], {"GIC", "irqs"}, {}, {}, {})
    BY <2>1, DriverEffects
  <2>3. Len(Bsta.later_use) = 2 /\ Bsta.later_use \in Seq(StepType)
    BY <2>1, PartsAreSteps, BstaFit
  <2> QED
    BY <2>2, <2>3 DEF Orderly, Effect
<1>6. Orderly(Bsta.secondary,
              {"PSCI_METHOD", "UART", "RATIO", "GIC", "TRAP_OP", "uart_handler"}, {}, {},
              {})
  <2>1. /\ Len(Bsta.secondary) = 6 /\ Bsta.secondary[1] = SetStack
        /\ Bsta.secondary[2] = switch_to_el1 /\ Bsta.secondary[3] = InitMmu
        /\ Bsta.secondary[4] = enable_fp /\ Bsta.secondary[5] = StackHigh
        /\ Bsta.secondary[6] = CallMain
    BY <1>0 DEF BstaStartSecondary
  <2>2. /\ Blank(Bsta.secondary[1]) /\ Effect(Bsta.secondary[2], {}, {}, {}, {"kernel_mode"})
        /\ Blank(Bsta.secondary[3]) /\ Effect(Bsta.secondary[4], {}, {}, {}, {"fp"})
        /\ Blank(Bsta.secondary[5]) /\ Blank(Bsta.secondary[6])
    BY <2>1, DriverEffects, CodeIsBlank
  <2>3. Len(Bsta.secondary) = 6 /\ Bsta.secondary \in Seq(StepType)
    BY <2>1, PartsAreSteps, BstaFit
  <2>4. \A k \in 1 .. Len(Bsta.secondary) :
          /\ Bsta.secondary[k].uses = {} /\ Bsta.secondary[k].once = {}
          /\ Fills(Bsta.secondary[k]) = {}
    BY <2>2, <2>3 DEF Effect, Blank
  <2> QED
    BY <2>3, <2>4, BlankIsOrderly
<1>7. Orderly(Bsta.later_secondary,
              {"PSCI_METHOD", "UART", "RATIO", "GIC", "TRAP_OP", "uart_handler"}, {"trap"},
              {}, {"irqs", "timer"})
  <2>1. /\ Len(Bsta.later_secondary) = 2 /\ Bsta.later_secondary[1] = init_gicc
        /\ Bsta.later_secondary[2] = enable_irqs
    BY <1>0 DEF GicLaterSecondary
  <2>2. /\ Effect(Bsta.later_secondary[1], {"GIC"}, {}, {}, {"irqs"})
        /\ Effect(Bsta.later_secondary[2], {"GIC", "irqs"}, {}, {}, {"timer"})
    BY <2>1, DriverEffects
  <2>3. Len(Bsta.later_secondary) = 2 /\ Bsta.later_secondary \in Seq(StepType)
    BY <2>1, PartsAreSteps, BstaFit
  <2> QED
    BY <2>2, <2>3 DEF Orderly, Effect
<1>8. Orderly(Bsta.cpu_boot,
              {"PSCI_METHOD", "UART", "RATIO", "GIC", "TRAP_OP", "uart_handler"}, {}, {},
              {})
  <2>1. /\ Len(Bsta.cpu_boot) = 1 /\ Bsta.cpu_boot[1] = psci_cpu_on
    BY <1>0 DEF BstaCpuBoot
  <2>2. /\ Effect(Bsta.cpu_boot[1], {"PSCI_METHOD"}, {}, {}, {})
    BY <2>1, BootEffects
  <2>3. Len(Bsta.cpu_boot) = 1 /\ Bsta.cpu_boot \in Seq(StepType)
    BY <2>1, PartsAreSteps, BstaFit
  <2> QED
    BY <2>2, <2>3 DEF Orderly, Effect
<1>9. /\ Bsta.system_off.uses \subseteq {"PSCI_METHOD", "UART", "RATIO", "GIC", "TRAP_OP", "uart_handler"}
      /\ Bsta.system_off.once = {}
  BY <1>0, BootEffects
<1>10. {"PSCI_METHOD", "UART", "RATIO"} \cup {"GIC", "TRAP_OP", "uart_handler"}
       = {"PSCI_METHOD", "UART", "RATIO", "GIC", "TRAP_OP", "uart_handler"}
  OBVIOUS
<1> QED
  BY <1>1, <1>2, <1>3, <1>4, <1>5, <1>6, <1>7, <1>8, <1>9, <1>10 DEF Order

\* aarch64-phytium-pi, with the cells that init_early and init_later fill.
LEMMA PhytiumOrder ==
  Order(Phytium, {"UART", "PSCI_METHOD", "RATIO"}, {"GIC", "TRAP_OP", "uart_handler"})
<1>0. /\ Phytium.start = PhytiumStart /\ Phytium.early = PhytiumInitEarly
      /\ Phytium.early_use = GicEarlyUse(pl011_write_bytes) /\ Phytium.later = PhytiumInitLater
      /\ Phytium.later_use = GicLaterUse /\ Phytium.secondary = PhytiumStartSecondary
      /\ Phytium.later_secondary = GicLaterSecondary /\ Phytium.cpu_boot = PhytiumCpuBoot
      /\ Phytium.system_off = psci_system_off
  BY DEF Phytium, Virt
<1>1. Orderly(Phytium.start, {}, {}, {}, {})
  <2>1. /\ Len(Phytium.start) = 7 /\ Phytium.start[1] = SetStack /\ Phytium.start[2] = switch_to_el1
        /\ Phytium.start[3] = enable_fp /\ Phytium.start[4] = PhytiumPageTable
        /\ Phytium.start[5] = InitMmu /\ Phytium.start[6] = StackHigh /\ Phytium.start[7] = CallMain
    BY <1>0 DEF PhytiumStart
  <2>2. /\ Blank(Phytium.start[1]) /\ Effect(Phytium.start[2], {}, {}, {}, {"kernel_mode"})
        /\ Effect(Phytium.start[3], {}, {}, {}, {"fp"}) /\ Blank(Phytium.start[4])
        /\ Blank(Phytium.start[5]) /\ Blank(Phytium.start[6]) /\ Blank(Phytium.start[7])
    BY <2>1, DriverEffects, CodeIsBlank
  <2>3. Len(Phytium.start) = 7 /\ Phytium.start \in Seq(StepType)
    BY <2>1, PartsAreSteps, PhytiumFit
  <2>4. \A k \in 1 .. Len(Phytium.start) :
          /\ Phytium.start[k].uses = {} /\ Phytium.start[k].once = {}
          /\ Fills(Phytium.start[k]) = {}
    BY <2>2, <2>3 DEF Effect, Blank
  <2> QED
    BY <2>3, <2>4, BlankIsOrderly
<1>2. Orderly(Phytium.early, {}, {}, {"UART", "PSCI_METHOD", "RATIO"}, {"trap"})
  <2>1. /\ Len(Phytium.early) = 4 /\ Phytium.early[1] = init_trap
        /\ Phytium.early[2] = pl011_init_early /\ Phytium.early[3] = psci_init
        /\ Phytium.early[4] = generic_timer_init_early
    BY <1>0 DEF PhytiumInitEarly
  <2>2. /\ Effect(Phytium.early[1], {}, {}, {}, {"trap"})
        /\ Effect(Phytium.early[2], {}, {"UART"}, {"UART"}, {})
        /\ Effect(Phytium.early[3], {}, {}, {"PSCI_METHOD"}, {})
        /\ Effect(Phytium.early[4], {}, {}, {"RATIO"}, {})
    BY <2>1, DriverEffects
  <2>3. Len(Phytium.early) = 4 /\ Phytium.early \in Seq(StepType)
    BY <2>1, PartsAreSteps, PhytiumFit
  <2> QED
    BY <2>2, <2>3 DEF Orderly, Effect
<1>3. Orderly(Phytium.early_use, {"UART", "PSCI_METHOD", "RATIO"}, {"trap"}, {}, {})
  <2>1. /\ Len(Phytium.early_use) = 2 /\ Phytium.early_use[1] = pl011_write_bytes
        /\ Phytium.early_use[2] = generic_timer_ticks_to_nanos
    BY <1>0 DEF GicEarlyUse
  <2>2. /\ Effect(Phytium.early_use[1], {"UART", "trap"}, {}, {}, {})
        /\ Effect(Phytium.early_use[2], {"RATIO"}, {}, {}, {})
    BY <2>1, DriverEffects
  <2>3. Len(Phytium.early_use) = 2 /\ Phytium.early_use \in Seq(StepType)
    BY <2>1, PartsAreSteps, PhytiumFit
  <2> QED
    BY <2>2, <2>3 DEF Orderly, Effect
<1>4. Orderly(Phytium.later, {"UART", "PSCI_METHOD", "RATIO"}, {"trap"},
              {"GIC", "TRAP_OP", "uart_handler"}, {"irqs", "timer"})
  <2>1. /\ Len(Phytium.later) = 4 /\ Phytium.later[1] = init_gic /\ Phytium.later[2] = init_gicc
        /\ Phytium.later[3] = enable_irqs /\ Phytium.later[4] = register_handler
    BY <1>0 DEF PhytiumInitLater
  <2>2. /\ Effect(Phytium.later[1], {}, {"GIC", "TRAP_OP"}, {"GIC", "TRAP_OP"}, {})
        /\ Effect(Phytium.later[2], {"GIC"}, {}, {}, {"irqs"})
        /\ Effect(Phytium.later[3], {"GIC", "irqs"}, {}, {}, {"timer"})
        /\ Effect(Phytium.later[4], {"GIC"}, {}, {"uart_handler"}, {})
    BY <2>1, DriverEffects
  <2>3. Len(Phytium.later) = 4 /\ Phytium.later \in Seq(StepType)
    BY <2>1, PartsAreSteps, PhytiumFit
  <2> QED
    BY <2>2, <2>3 DEF Orderly, Effect
<1>5. Orderly(Phytium.later_use,
              {"UART", "PSCI_METHOD", "RATIO", "GIC", "TRAP_OP", "uart_handler"},
              {"trap", "irqs", "timer"}, {}, {})
  <2>1. /\ Len(Phytium.later_use) = 2 /\ Phytium.later_use[1] = gic_handle_irq
        /\ Phytium.later_use[2] = gic_send_ipi
    BY <1>0 DEF GicLaterUse
  <2>2. /\ Effect(Phytium.later_use[1], {"TRAP_OP", "trap", "irqs", "timer"}, {}, {}, {})
        /\ Effect(Phytium.later_use[2], {"GIC", "irqs"}, {}, {}, {})
    BY <2>1, DriverEffects
  <2>3. Len(Phytium.later_use) = 2 /\ Phytium.later_use \in Seq(StepType)
    BY <2>1, PartsAreSteps, PhytiumFit
  <2> QED
    BY <2>2, <2>3 DEF Orderly, Effect
<1>6. Orderly(Phytium.secondary,
              {"UART", "PSCI_METHOD", "RATIO", "GIC", "TRAP_OP", "uart_handler"}, {}, {},
              {})
  <2>1. /\ Len(Phytium.secondary) = 6 /\ Phytium.secondary[1] = SetStack
        /\ Phytium.secondary[2] = switch_to_el1 /\ Phytium.secondary[3] = InitMmu
        /\ Phytium.secondary[4] = enable_fp /\ Phytium.secondary[5] = StackHigh
        /\ Phytium.secondary[6] = CallMain
    BY <1>0 DEF PhytiumStartSecondary
  <2>2. /\ Blank(Phytium.secondary[1]) /\ Effect(Phytium.secondary[2], {}, {}, {}, {"kernel_mode"})
        /\ Blank(Phytium.secondary[3]) /\ Effect(Phytium.secondary[4], {}, {}, {}, {"fp"})
        /\ Blank(Phytium.secondary[5]) /\ Blank(Phytium.secondary[6])
    BY <2>1, DriverEffects, CodeIsBlank
  <2>3. Len(Phytium.secondary) = 6 /\ Phytium.secondary \in Seq(StepType)
    BY <2>1, PartsAreSteps, PhytiumFit
  <2>4. \A k \in 1 .. Len(Phytium.secondary) :
          /\ Phytium.secondary[k].uses = {} /\ Phytium.secondary[k].once = {}
          /\ Fills(Phytium.secondary[k]) = {}
    BY <2>2, <2>3 DEF Effect, Blank
  <2> QED
    BY <2>3, <2>4, BlankIsOrderly
<1>7. Orderly(Phytium.later_secondary,
              {"UART", "PSCI_METHOD", "RATIO", "GIC", "TRAP_OP", "uart_handler"}, {"trap"},
              {}, {"irqs", "timer"})
  <2>1. /\ Len(Phytium.later_secondary) = 2 /\ Phytium.later_secondary[1] = init_gicc
        /\ Phytium.later_secondary[2] = enable_irqs
    BY <1>0 DEF GicLaterSecondary
  <2>2. /\ Effect(Phytium.later_secondary[1], {"GIC"}, {}, {}, {"irqs"})
        /\ Effect(Phytium.later_secondary[2], {"GIC", "irqs"}, {}, {}, {"timer"})
    BY <2>1, DriverEffects
  <2>3. Len(Phytium.later_secondary) = 2 /\ Phytium.later_secondary \in Seq(StepType)
    BY <2>1, PartsAreSteps, PhytiumFit
  <2> QED
    BY <2>2, <2>3 DEF Orderly, Effect
<1>8. Orderly(Phytium.cpu_boot,
              {"UART", "PSCI_METHOD", "RATIO", "GIC", "TRAP_OP", "uart_handler"}, {}, {},
              {})
  <2>1. /\ Len(Phytium.cpu_boot) = 1 /\ Phytium.cpu_boot[1] = psci_cpu_on
    BY <1>0 DEF PhytiumCpuBoot
  <2>2. /\ Effect(Phytium.cpu_boot[1], {"PSCI_METHOD"}, {}, {}, {})
    BY <2>1, BootEffects
  <2>3. Len(Phytium.cpu_boot) = 1 /\ Phytium.cpu_boot \in Seq(StepType)
    BY <2>1, PartsAreSteps, PhytiumFit
  <2> QED
    BY <2>2, <2>3 DEF Orderly, Effect
<1>9. /\ Phytium.system_off.uses \subseteq {"UART", "PSCI_METHOD", "RATIO", "GIC", "TRAP_OP", "uart_handler"}
      /\ Phytium.system_off.once = {}
  BY <1>0, BootEffects
<1>10. {"UART", "PSCI_METHOD", "RATIO"} \cup {"GIC", "TRAP_OP", "uart_handler"}
       = {"UART", "PSCI_METHOD", "RATIO", "GIC", "TRAP_OP", "uart_handler"}
  OBVIOUS
<1> QED
  BY <1>1, <1>2, <1>3, <1>4, <1>5, <1>6, <1>7, <1>8, <1>9, <1>10 DEF Order

\* aarch64-raspi, with the cells that init_early and init_later fill.
LEMMA RaspiOrder ==
  Order(Raspi, {"UART", "RATIO"}, {"GIC", "TRAP_OP", "uart_handler"})
<1>0. /\ Raspi.start = RaspiStart /\ Raspi.early = RaspiInitEarly
      /\ Raspi.early_use = GicEarlyUse(pl011_write_bytes) /\ Raspi.later = RaspiInitLater
      /\ Raspi.later_use = GicLaterUse /\ Raspi.secondary = RaspiStartSecondary
      /\ Raspi.later_secondary = GicLaterSecondary /\ Raspi.cpu_boot = RaspiCpuBoot
      /\ Raspi.system_off = RaspiSystemOff
  BY DEF Raspi, Virt
<1>1. Orderly(Raspi.start, {}, {}, {}, {})
  <2>1. /\ Len(Raspi.start) = 7 /\ Raspi.start[1] = SetStack /\ Raspi.start[2] = switch_to_el1
        /\ Raspi.start[3] = enable_fp /\ Raspi.start[4] = RaspiPageTable /\ Raspi.start[5] = InitMmu
        /\ Raspi.start[6] = StackHigh /\ Raspi.start[7] = CallMain
    BY <1>0 DEF RaspiStart
  <2>2. /\ Blank(Raspi.start[1]) /\ Effect(Raspi.start[2], {}, {}, {}, {"kernel_mode"})
        /\ Effect(Raspi.start[3], {}, {}, {}, {"fp"}) /\ Blank(Raspi.start[4])
        /\ Blank(Raspi.start[5]) /\ Blank(Raspi.start[6]) /\ Blank(Raspi.start[7])
    BY <2>1, DriverEffects, CodeIsBlank
  <2>3. Len(Raspi.start) = 7 /\ Raspi.start \in Seq(StepType)
    BY <2>1, PartsAreSteps, RaspiFit
  <2>4. \A k \in 1 .. Len(Raspi.start) :
          /\ Raspi.start[k].uses = {} /\ Raspi.start[k].once = {}
          /\ Fills(Raspi.start[k]) = {}
    BY <2>2, <2>3 DEF Effect, Blank
  <2> QED
    BY <2>3, <2>4, BlankIsOrderly
<1>2. Orderly(Raspi.early, {}, {}, {"UART", "RATIO"}, {"trap"})
  <2>1. /\ Len(Raspi.early) = 3 /\ Raspi.early[1] = init_trap /\ Raspi.early[2] = pl011_init_early
        /\ Raspi.early[3] = generic_timer_init_early
    BY <1>0 DEF RaspiInitEarly
  <2>2. /\ Effect(Raspi.early[1], {}, {}, {}, {"trap"})
        /\ Effect(Raspi.early[2], {}, {"UART"}, {"UART"}, {})
        /\ Effect(Raspi.early[3], {}, {}, {"RATIO"}, {})
    BY <2>1, DriverEffects
  <2>3. Len(Raspi.early) = 3 /\ Raspi.early \in Seq(StepType)
    BY <2>1, PartsAreSteps, RaspiFit
  <2> QED
    BY <2>2, <2>3 DEF Orderly, Effect
<1>3. Orderly(Raspi.early_use, {"UART", "RATIO"}, {"trap"}, {}, {})
  <2>1. /\ Len(Raspi.early_use) = 2 /\ Raspi.early_use[1] = pl011_write_bytes
        /\ Raspi.early_use[2] = generic_timer_ticks_to_nanos
    BY <1>0 DEF GicEarlyUse
  <2>2. /\ Effect(Raspi.early_use[1], {"UART", "trap"}, {}, {}, {})
        /\ Effect(Raspi.early_use[2], {"RATIO"}, {}, {}, {})
    BY <2>1, DriverEffects
  <2>3. Len(Raspi.early_use) = 2 /\ Raspi.early_use \in Seq(StepType)
    BY <2>1, PartsAreSteps, RaspiFit
  <2> QED
    BY <2>2, <2>3 DEF Orderly, Effect
<1>4. Orderly(Raspi.later, {"UART", "RATIO"}, {"trap"},
              {"GIC", "TRAP_OP", "uart_handler"}, {"irqs", "timer"})
  <2>1. /\ Len(Raspi.later) = 4 /\ Raspi.later[1] = init_gic /\ Raspi.later[2] = init_gicc
        /\ Raspi.later[3] = enable_irqs /\ Raspi.later[4] = register_handler
    BY <1>0 DEF RaspiInitLater
  <2>2. /\ Effect(Raspi.later[1], {}, {"GIC", "TRAP_OP"}, {"GIC", "TRAP_OP"}, {})
        /\ Effect(Raspi.later[2], {"GIC"}, {}, {}, {"irqs"})
        /\ Effect(Raspi.later[3], {"GIC", "irqs"}, {}, {}, {"timer"})
        /\ Effect(Raspi.later[4], {"GIC"}, {}, {"uart_handler"}, {})
    BY <2>1, DriverEffects
  <2>3. Len(Raspi.later) = 4 /\ Raspi.later \in Seq(StepType)
    BY <2>1, PartsAreSteps, RaspiFit
  <2> QED
    BY <2>2, <2>3 DEF Orderly, Effect
<1>5. Orderly(Raspi.later_use, {"UART", "RATIO", "GIC", "TRAP_OP", "uart_handler"},
              {"trap", "irqs", "timer"}, {}, {})
  <2>1. /\ Len(Raspi.later_use) = 2 /\ Raspi.later_use[1] = gic_handle_irq
        /\ Raspi.later_use[2] = gic_send_ipi
    BY <1>0 DEF GicLaterUse
  <2>2. /\ Effect(Raspi.later_use[1], {"TRAP_OP", "trap", "irqs", "timer"}, {}, {}, {})
        /\ Effect(Raspi.later_use[2], {"GIC", "irqs"}, {}, {}, {})
    BY <2>1, DriverEffects
  <2>3. Len(Raspi.later_use) = 2 /\ Raspi.later_use \in Seq(StepType)
    BY <2>1, PartsAreSteps, RaspiFit
  <2> QED
    BY <2>2, <2>3 DEF Orderly, Effect
<1>6. Orderly(Raspi.secondary, {"UART", "RATIO", "GIC", "TRAP_OP", "uart_handler"},
              {}, {}, {})
  <2>1. /\ Len(Raspi.secondary) = 6 /\ Raspi.secondary[1] = SetStack
        /\ Raspi.secondary[2] = switch_to_el1 /\ Raspi.secondary[3] = enable_fp
        /\ Raspi.secondary[4] = InitMmu /\ Raspi.secondary[5] = StackHigh
        /\ Raspi.secondary[6] = CallMain
    BY <1>0 DEF RaspiStartSecondary
  <2>2. /\ Blank(Raspi.secondary[1]) /\ Effect(Raspi.secondary[2], {}, {}, {}, {"kernel_mode"})
        /\ Effect(Raspi.secondary[3], {}, {}, {}, {"fp"}) /\ Blank(Raspi.secondary[4])
        /\ Blank(Raspi.secondary[5]) /\ Blank(Raspi.secondary[6])
    BY <2>1, DriverEffects, CodeIsBlank
  <2>3. Len(Raspi.secondary) = 6 /\ Raspi.secondary \in Seq(StepType)
    BY <2>1, PartsAreSteps, RaspiFit
  <2>4. \A k \in 1 .. Len(Raspi.secondary) :
          /\ Raspi.secondary[k].uses = {} /\ Raspi.secondary[k].once = {}
          /\ Fills(Raspi.secondary[k]) = {}
    BY <2>2, <2>3 DEF Effect, Blank
  <2> QED
    BY <2>3, <2>4, BlankIsOrderly
<1>7. Orderly(Raspi.later_secondary,
              {"UART", "RATIO", "GIC", "TRAP_OP", "uart_handler"}, {"trap"}, {},
              {"irqs", "timer"})
  <2>1. /\ Len(Raspi.later_secondary) = 2 /\ Raspi.later_secondary[1] = init_gicc
        /\ Raspi.later_secondary[2] = enable_irqs
    BY <1>0 DEF GicLaterSecondary
  <2>2. /\ Effect(Raspi.later_secondary[1], {"GIC"}, {}, {}, {"irqs"})
        /\ Effect(Raspi.later_secondary[2], {"GIC", "irqs"}, {}, {}, {"timer"})
    BY <2>1, DriverEffects
  <2>3. Len(Raspi.later_secondary) = 2 /\ Raspi.later_secondary \in Seq(StepType)
    BY <2>1, PartsAreSteps, RaspiFit
  <2> QED
    BY <2>2, <2>3 DEF Orderly, Effect
<1>8. Orderly(Raspi.cpu_boot, {"UART", "RATIO", "GIC", "TRAP_OP", "uart_handler"},
              {}, {}, {})
  <2>1. /\ Len(Raspi.cpu_boot) = 3 /\ Raspi.cpu_boot[1] = PassStack
        /\ Raspi.cpu_boot[2] = CleanStack /\ Raspi.cpu_boot[3] = [Release EXCEPT !.ram = {0}]
    BY <1>0 DEF RaspiCpuBoot
  <2>2. /\ Blank(Raspi.cpu_boot[1]) /\ Blank(Raspi.cpu_boot[2]) /\ Blank(Raspi.cpu_boot[3])
    BY <2>1, CodeIsBlank, BootEffects
  <2>3. Len(Raspi.cpu_boot) = 3 /\ Raspi.cpu_boot \in Seq(StepType)
    BY <2>1, PartsAreSteps, RaspiFit
  <2> QED
    BY <2>2, <2>3 DEF Orderly, Effect, Blank
<1>9. /\ Raspi.system_off.uses \subseteq {"UART", "RATIO", "GIC", "TRAP_OP", "uart_handler"}
      /\ Raspi.system_off.once = {}
  BY <1>0, CodeIsBlank DEF Blank, Effect
<1>10. {"UART", "RATIO"} \cup {"GIC", "TRAP_OP", "uart_handler"}
       = {"UART", "RATIO", "GIC", "TRAP_OP", "uart_handler"}
  OBVIOUS
<1> QED
  BY <1>1, <1>2, <1>3, <1>4, <1>5, <1>6, <1>7, <1>8, <1>9, <1>10 DEF Order

\* arm-qemu-virt, with the cells that init_early and init_later fill.
LEMMA ArmOrder ==
  Order(Arm, {"UART", "PSCI_METHOD", "RATIO"}, {"GIC", "TRAP_OP"})
<1>0. /\ Arm.start = ArmStart /\ Arm.early = ArmInitEarly
      /\ Arm.early_use = GicEarlyUse(pl011_write_bytes) /\ Arm.later = ArmInitLater
      /\ Arm.later_use = GicLaterUse /\ Arm.secondary = ArmStartSecondary
      /\ Arm.later_secondary = GicLaterSecondary /\ Arm.cpu_boot = ArmCpuBoot
      /\ Arm.system_off = psci_system_off
  BY DEF Arm, Virt
<1>1. Orderly(Arm.start, {}, {}, {}, {})
  <2>1. /\ Len(Arm.start) = 8 /\ Arm.start[1] = SetStack /\ Arm.start[2] = enable_fp
        /\ Arm.start[3] = ArmPageTable /\ Arm.start[4] = InitMmu /\ Arm.start[5] = JumpHigh
        /\ Arm.start[6] = StackHigh /\ Arm.start[7] = ArmPageTableAfterMmu
        /\ Arm.start[8] = CallMain
    BY <1>0 DEF ArmStart
  <2>2. /\ Blank(Arm.start[1]) /\ Effect(Arm.start[2], {}, {}, {}, {"fp"}) /\ Blank(Arm.start[3])
        /\ Blank(Arm.start[4]) /\ Blank(Arm.start[5]) /\ Blank(Arm.start[6]) /\ Blank(Arm.start[7])
        /\ Blank(Arm.start[8])
    BY <2>1, DriverEffects, CodeIsBlank
  <2>3. Len(Arm.start) = 8 /\ Arm.start \in Seq(StepType)
    BY <2>1, PartsAreSteps, ArmFit
  <2>4. \A k \in 1 .. Len(Arm.start) :
          /\ Arm.start[k].uses = {} /\ Arm.start[k].once = {}
          /\ Fills(Arm.start[k]) = {}
    <3>1. \A x : Blank(x) \/ Effect(x, {}, {}, {}, {"fp"}) =>
            x.uses = {} /\ x.once = {} /\ Fills(x) = {}
      BY DEF Effect, Blank
    <3>2. \A k \in 1 .. 8 : Blank(Arm.start[k]) \/ Effect(Arm.start[k], {}, {}, {}, {"fp"})
      BY <2>2, SMT
    <3> QED
      BY <2>3, <3>1, <3>2
  <2> QED
    BY <2>3, <2>4, BlankIsOrderly
<1>2. Orderly(Arm.early, {}, {}, {"UART", "PSCI_METHOD", "RATIO"}, {"trap"})
  <2>1. /\ Len(Arm.early) = 6 /\ Arm.early[1] = init_trap /\ Arm.early[2] = pl011_init_early
        /\ Arm.early[3] = psci_init /\ Arm.early[4] = generic_timer_init_early
        /\ Arm.early[5] = pl011_write_bytes /\ Arm.early[6] = pl031_init_early
    BY <1>0 DEF ArmInitEarly
  <2>2. /\ Effect(Arm.early[1], {}, {}, {}, {"trap"})
        /\ Effect(Arm.early[2], {}, {"UART"}, {"UART"}, {})
        /\ Effect(Arm.early[3], {}, {}, {"PSCI_METHOD"}, {})
        /\ Effect(Arm.early[4], {}, {}, {"RATIO"}, {})
        /\ Effect(Arm.early[5], {"UART", "trap"}, {}, {}, {})
        /\ Effect(Arm.early[6], {"RATIO"}, {}, {}, {})
    BY <2>1, DriverEffects
  <2>3. Len(Arm.early) = 6 /\ Arm.early \in Seq(StepType)
    BY <2>1, PartsAreSteps, ArmFit
  <2> QED
    BY <2>2, <2>3 DEF Orderly, Effect
<1>3. Orderly(Arm.early_use, {"UART", "PSCI_METHOD", "RATIO"}, {"trap"}, {}, {})
  <2>1. /\ Len(Arm.early_use) = 2 /\ Arm.early_use[1] = pl011_write_bytes
        /\ Arm.early_use[2] = generic_timer_ticks_to_nanos
    BY <1>0 DEF GicEarlyUse
  <2>2. /\ Effect(Arm.early_use[1], {"UART", "trap"}, {}, {}, {})
        /\ Effect(Arm.early_use[2], {"RATIO"}, {}, {}, {})
    BY <2>1, DriverEffects
  <2>3. Len(Arm.early_use) = 2 /\ Arm.early_use \in Seq(StepType)
    BY <2>1, PartsAreSteps, ArmFit
  <2> QED
    BY <2>2, <2>3 DEF Orderly, Effect
<1>4. Orderly(Arm.later, {"UART", "PSCI_METHOD", "RATIO"}, {"trap"},
              {"GIC", "TRAP_OP"}, {"irqs", "timer"})
  <2>1. /\ Len(Arm.later) = 3 /\ Arm.later[1] = init_gic /\ Arm.later[2] = init_gicc
        /\ Arm.later[3] = enable_irqs
    BY <1>0 DEF ArmInitLater
  <2>2. /\ Effect(Arm.later[1], {}, {"GIC", "TRAP_OP"}, {"GIC", "TRAP_OP"}, {})
        /\ Effect(Arm.later[2], {"GIC"}, {}, {}, {"irqs"})
        /\ Effect(Arm.later[3], {"GIC", "irqs"}, {}, {}, {"timer"})
    BY <2>1, DriverEffects
  <2>3. Len(Arm.later) = 3 /\ Arm.later \in Seq(StepType)
    BY <2>1, PartsAreSteps, ArmFit
  <2> QED
    BY <2>2, <2>3 DEF Orderly, Effect
<1>5. Orderly(Arm.later_use, {"UART", "PSCI_METHOD", "RATIO", "GIC", "TRAP_OP"},
              {"trap", "irqs", "timer"}, {}, {})
  <2>1. /\ Len(Arm.later_use) = 2 /\ Arm.later_use[1] = gic_handle_irq
        /\ Arm.later_use[2] = gic_send_ipi
    BY <1>0 DEF GicLaterUse
  <2>2. /\ Effect(Arm.later_use[1], {"TRAP_OP", "trap", "irqs", "timer"}, {}, {}, {})
        /\ Effect(Arm.later_use[2], {"GIC", "irqs"}, {}, {}, {})
    BY <2>1, DriverEffects
  <2>3. Len(Arm.later_use) = 2 /\ Arm.later_use \in Seq(StepType)
    BY <2>1, PartsAreSteps, ArmFit
  <2> QED
    BY <2>2, <2>3 DEF Orderly, Effect
<1>6. Orderly(Arm.secondary, {"UART", "PSCI_METHOD", "RATIO", "GIC", "TRAP_OP"}, {},
              {}, {})
  <2>1. /\ Len(Arm.secondary) = 6 /\ Arm.secondary[1] = SetStack /\ Arm.secondary[2] = enable_fp
        /\ Arm.secondary[3] = InitMmu /\ Arm.secondary[4] = JumpHigh /\ Arm.secondary[5] = StackHigh
        /\ Arm.secondary[6] = CallMain
    BY <1>0 DEF ArmStartSecondary
  <2>2. /\ Blank(Arm.secondary[1]) /\ Effect(Arm.secondary[2], {}, {}, {}, {"fp"})
        /\ Blank(Arm.secondary[3]) /\ Blank(Arm.secondary[4]) /\ Blank(Arm.secondary[5])
        /\ Blank(Arm.secondary[6])
    BY <2>1, DriverEffects, CodeIsBlank
  <2>3. Len(Arm.secondary) = 6 /\ Arm.secondary \in Seq(StepType)
    BY <2>1, PartsAreSteps, ArmFit
  <2>4. \A k \in 1 .. Len(Arm.secondary) :
          /\ Arm.secondary[k].uses = {} /\ Arm.secondary[k].once = {}
          /\ Fills(Arm.secondary[k]) = {}
    BY <2>2, <2>3 DEF Effect, Blank
  <2> QED
    BY <2>3, <2>4, BlankIsOrderly
<1>7. Orderly(Arm.later_secondary,
              {"UART", "PSCI_METHOD", "RATIO", "GIC", "TRAP_OP"}, {"trap"}, {},
              {"irqs", "timer"})
  <2>1. /\ Len(Arm.later_secondary) = 2 /\ Arm.later_secondary[1] = init_gicc
        /\ Arm.later_secondary[2] = enable_irqs
    BY <1>0 DEF GicLaterSecondary
  <2>2. /\ Effect(Arm.later_secondary[1], {"GIC"}, {}, {}, {"irqs"})
        /\ Effect(Arm.later_secondary[2], {"GIC", "irqs"}, {}, {}, {"timer"})
    BY <2>1, DriverEffects
  <2>3. Len(Arm.later_secondary) = 2 /\ Arm.later_secondary \in Seq(StepType)
    BY <2>1, PartsAreSteps, ArmFit
  <2> QED
    BY <2>2, <2>3 DEF Orderly, Effect
<1>8. Orderly(Arm.cpu_boot, {"UART", "PSCI_METHOD", "RATIO", "GIC", "TRAP_OP"}, {},
              {}, {})
  <2>1. /\ Len(Arm.cpu_boot) = 1 /\ Arm.cpu_boot[1] = psci_cpu_on
    BY <1>0 DEF ArmCpuBoot
  <2>2. /\ Effect(Arm.cpu_boot[1], {"PSCI_METHOD"}, {}, {}, {})
    BY <2>1, BootEffects
  <2>3. Len(Arm.cpu_boot) = 1 /\ Arm.cpu_boot \in Seq(StepType)
    BY <2>1, PartsAreSteps, ArmFit
  <2> QED
    BY <2>2, <2>3 DEF Orderly, Effect
<1>9. /\ Arm.system_off.uses \subseteq {"UART", "PSCI_METHOD", "RATIO", "GIC", "TRAP_OP"}
      /\ Arm.system_off.once = {}
  BY <1>0, BootEffects
<1>10. {"UART", "PSCI_METHOD", "RATIO"} \cup {"GIC", "TRAP_OP"}
       = {"UART", "PSCI_METHOD", "RATIO", "GIC", "TRAP_OP"}
  OBVIOUS
<1> QED
  BY <1>1, <1>2, <1>3, <1>4, <1>5, <1>6, <1>7, <1>8, <1>9, <1>10 DEF Order

\* loongarch64-qemu-virt, with the cells that init_early and init_later fill.
LEMMA LoongOrder ==
  Order(Loong, {"NANOS_PER_TICK"}, {})
<1>0. /\ Loong.start = LoongStart /\ Loong.early = LoongInitEarly
      /\ Loong.early_use = <<LoongWriteBytes, LoongTicksToNanos>> /\ Loong.later = LoongInitLater
      /\ Loong.later_use = <<LoongHandleIrq>> /\ Loong.secondary = LoongStartSecondary
      /\ Loong.later_secondary = LoongInitLaterSecondary /\ Loong.cpu_boot = LoongCpuBoot
      /\ Loong.system_off = LoongSystemOff
  BY DEF Loong
<1>1. Orderly(Loong.start, {}, {}, {}, {})
  <2>1. /\ Len(Loong.start) = 5 /\ Loong.start[1] = Op("sp_virt") /\ Loong.start[2] = enable_fp
        /\ Loong.start[3] = LoongPageTable /\ Loong.start[4] = InitMmu /\ Loong.start[5] = CallMain
    BY <1>0 DEF LoongStart
  <2>2. /\ Blank(Loong.start[1]) /\ Effect(Loong.start[2], {}, {}, {}, {"fp"})
        /\ Blank(Loong.start[3]) /\ Blank(Loong.start[4]) /\ Blank(Loong.start[5])
    BY <2>1, DriverEffects, CodeIsBlank
  <2>3. Len(Loong.start) = 5 /\ Loong.start \in Seq(StepType)
    BY <2>1, PartsAreSteps, LoongFit
  <2>4. \A k \in 1 .. Len(Loong.start) :
          /\ Loong.start[k].uses = {} /\ Loong.start[k].once = {}
          /\ Fills(Loong.start[k]) = {}
    BY <2>2, <2>3 DEF Effect, Blank
  <2> QED
    BY <2>3, <2>4, BlankIsOrderly
<1>2. Orderly(Loong.early, {}, {}, {"NANOS_PER_TICK"}, {"trap"})
  <2>1. /\ Len(Loong.early) = 3 /\ Loong.early[1] = init_trap /\ Loong.early[2] = LoongTimeInitEarly
        /\ Loong.early[3] = LoongInitRtc
    BY <1>0 DEF LoongInitEarly
  <2>2. /\ Effect(Loong.early[1], {}, {}, {}, {"trap"})
        /\ Effect(Loong.early[2], {}, {"NANOS_PER_TICK"}, {"NANOS_PER_TICK"}, {})
        /\ Effect(Loong.early[3], {"NANOS_PER_TICK"}, {}, {}, {})
    BY <2>1, DriverEffects, LoongEffects
  <2>3. Len(Loong.early) = 3 /\ Loong.early \in Seq(StepType)
    BY <2>1, PartsAreSteps, LoongFit
  <2> QED
    BY <2>2, <2>3 DEF Orderly, Effect
<1>3. Orderly(Loong.early_use, {"NANOS_PER_TICK"}, {"trap"}, {}, {})
  <2>1. /\ Len(Loong.early_use) = 2 /\ Loong.early_use[1] = LoongWriteBytes
        /\ Loong.early_use[2] = LoongTicksToNanos
    BY <1>0
  <2>2. /\ Effect(Loong.early_use[1], {"trap"}, {}, {}, {})
        /\ Effect(Loong.early_use[2], {"NANOS_PER_TICK"}, {}, {}, {})
    BY <2>1, LoongEffects
  <2>3. Len(Loong.early_use) = 2 /\ Loong.early_use \in Seq(StepType)
    BY <2>1, PartsAreSteps, LoongFit
  <2> QED
    BY <2>2, <2>3 DEF Orderly, Effect
<1>4. Orderly(Loong.later, {"NANOS_PER_TICK"}, {"trap"}, {}, {"irqs", "timer"})
  <2>1. /\ Len(Loong.later) = 2 /\ Loong.later[1] = LoongTimeInitPercpu
        /\ Loong.later[2] = LoongEnableIpi
    BY <1>0 DEF LoongInitLater
  <2>2. /\ Effect(Loong.later[1], {}, {}, {}, {"timer"})
        /\ Effect(Loong.later[2], {}, {}, {}, {"irqs"})
    BY <2>1, LoongEffects
  <2>3. Len(Loong.later) = 2 /\ Loong.later \in Seq(StepType)
    BY <2>1, PartsAreSteps, LoongFit
  <2> QED
    BY <2>2, <2>3 DEF Orderly, Effect
<1>5. Orderly(Loong.later_use, {"NANOS_PER_TICK"}, {"trap", "irqs", "timer"}, {},
              {})
  <2>1. /\ Len(Loong.later_use) = 1 /\ Loong.later_use[1] = LoongHandleIrq
    BY <1>0
  <2>2. /\ Effect(Loong.later_use[1], {"trap", "timer", "irqs"}, {}, {}, {})
    BY <2>1, LoongEffects
  <2>3. Len(Loong.later_use) = 1 /\ Loong.later_use \in Seq(StepType)
    BY <2>1, PartsAreSteps, LoongFit
  <2> QED
    BY <2>2, <2>3 DEF Orderly, Effect
<1>6. Orderly(Loong.secondary, {"NANOS_PER_TICK"}, {}, {}, {})
  <2>1. /\ Len(Loong.secondary) = 4 /\ Loong.secondary[1] = Op("sp_virt")
        /\ Loong.secondary[2] = enable_fp /\ Loong.secondary[3] = InitMmu
        /\ Loong.secondary[4] = CallMain
    BY <1>0 DEF LoongStartSecondary
  <2>2. /\ Blank(Loong.secondary[1]) /\ Effect(Loong.secondary[2], {}, {}, {}, {"fp"})
        /\ Blank(Loong.secondary[3]) /\ Blank(Loong.secondary[4])
    BY <2>1, DriverEffects, CodeIsBlank
  <2>3. Len(Loong.secondary) = 4 /\ Loong.secondary \in Seq(StepType)
    BY <2>1, PartsAreSteps, LoongFit
  <2>4. \A k \in 1 .. Len(Loong.secondary) :
          /\ Loong.secondary[k].uses = {} /\ Loong.secondary[k].once = {}
          /\ Fills(Loong.secondary[k]) = {}
    BY <2>2, <2>3 DEF Effect, Blank
  <2> QED
    BY <2>3, <2>4, BlankIsOrderly
<1>7. Orderly(Loong.later_secondary, {"NANOS_PER_TICK"}, {"trap"}, {},
              {"irqs", "timer"})
  <2>1. /\ Len(Loong.later_secondary) = 2 /\ Loong.later_secondary[1] = LoongTimeInitPercpu
        /\ Loong.later_secondary[2] = LoongEnableIpi
    BY <1>0 DEF LoongInitLaterSecondary
  <2>2. /\ Effect(Loong.later_secondary[1], {}, {}, {}, {"timer"})
        /\ Effect(Loong.later_secondary[2], {}, {}, {}, {"irqs"})
    BY <2>1, LoongEffects
  <2>3. Len(Loong.later_secondary) = 2 /\ Loong.later_secondary \in Seq(StepType)
    BY <2>1, PartsAreSteps, LoongFit
  <2> QED
    BY <2>2, <2>3 DEF Orderly, Effect
<1>8. Orderly(Loong.cpu_boot, {"NANOS_PER_TICK"}, {}, {}, {})
  <2>1. /\ Len(Loong.cpu_boot) = 2 /\ Loong.cpu_boot[1] = PassStack /\ Loong.cpu_boot[2] = Release
    BY <1>0 DEF LoongCpuBoot
  <2>2. /\ Blank(Loong.cpu_boot[1]) /\ Blank(Loong.cpu_boot[2])
    BY <2>1, CodeIsBlank
  <2>3. Len(Loong.cpu_boot) = 2 /\ Loong.cpu_boot \in Seq(StepType)
    BY <2>1, PartsAreSteps, LoongFit
  <2> QED
    BY <2>2, <2>3 DEF Orderly, Effect, Blank
<1>9. /\ Loong.system_off.uses \subseteq {"NANOS_PER_TICK"}
      /\ Loong.system_off.once = {}
  BY <1>0, BootEffects
<1>10. {"NANOS_PER_TICK"} \cup {} = {"NANOS_PER_TICK"}
  OBVIOUS
<1> QED
  BY <1>1, <1>2, <1>3, <1>4, <1>5, <1>6, <1>7, <1>8, <1>9, <1>10 DEF Order

\* riscv64-qemu-virt, with the cells that init_early and init_later fill.
LEMMA RiscvOrder ==
  Order(Riscv, {}, {})
<1>0. /\ Riscv.start = RiscvStart /\ Riscv.early = RiscvInitEarly /\ Riscv.early_use = <<>>
      /\ Riscv.later = RiscvInitLater /\ Riscv.later_use = <<RiscvHandleIrq>>
      /\ Riscv.secondary = RiscvStartSecondary /\ Riscv.later_secondary = RiscvInitLaterSecondary
      /\ Riscv.cpu_boot = RiscvCpuBoot /\ Riscv.system_off = Op("off")
  BY DEF Riscv, Loong
<1>1. Orderly(Riscv.start, {}, {}, {}, {})
  <2>1. /\ Len(Riscv.start) = 5 /\ Riscv.start[1] = SetStack /\ Riscv.start[2] = RiscvPageTable
        /\ Riscv.start[3] = InitMmu /\ Riscv.start[4] = StackHigh /\ Riscv.start[5] = CallMain
    BY <1>0 DEF RiscvStart
  <2>2. /\ Blank(Riscv.start[1]) /\ Blank(Riscv.start[2]) /\ Blank(Riscv.start[3])
        /\ Blank(Riscv.start[4]) /\ Blank(Riscv.start[5])
    BY <2>1, CodeIsBlank
  <2>3. Len(Riscv.start) = 5 /\ Riscv.start \in Seq(StepType)
    BY <2>1, PartsAreSteps, RiscvFit
  <2>4. \A k \in 1 .. Len(Riscv.start) :
          /\ Riscv.start[k].uses = {} /\ Riscv.start[k].once = {}
          /\ Fills(Riscv.start[k]) = {}
    BY <2>2, <2>3 DEF Effect, Blank
  <2> QED
    BY <2>3, <2>4, BlankIsOrderly
<1>2. Orderly(Riscv.early, {}, {}, {}, {"trap"})
  <2>1. /\ Len(Riscv.early) = 2 /\ Riscv.early[1] = init_trap /\ Riscv.early[2] = RiscvTimeInitEarly
    BY <1>0 DEF RiscvInitEarly
  <2>2. /\ Effect(Riscv.early[1], {}, {}, {}, {"trap"}) /\ Effect(Riscv.early[2], {}, {}, {}, {})
    BY <2>1, DriverEffects, RiscvEffects
  <2>3. Len(Riscv.early) = 2 /\ Riscv.early \in Seq(StepType)
    BY <2>1, PartsAreSteps, RiscvFit
  <2> QED
    BY <2>2, <2>3 DEF Orderly, Effect
<1>3. Orderly(Riscv.early_use, {}, {"trap"}, {}, {})
  BY <1>0, PartsAreSteps, RiscvFit DEF Orderly
<1>4. Orderly(Riscv.later, {}, {"trap"}, {}, {"irqs", "timer"})
  <2>1. /\ Len(Riscv.later) = 2 /\ Riscv.later[1] = RiscvIrqInitPercpu
        /\ Riscv.later[2] = RiscvTimeInitPercpu
    BY <1>0 DEF RiscvInitLater
  <2>2. /\ Effect(Riscv.later[1], {}, {}, {}, {"irqs"})
        /\ Effect(Riscv.later[2], {}, {}, {}, {"timer"})
    BY <2>1, RiscvEffects
  <2>3. Len(Riscv.later) = 2 /\ Riscv.later \in Seq(StepType)
    BY <2>1, PartsAreSteps, RiscvFit
  <2> QED
    BY <2>2, <2>3 DEF Orderly, Effect
<1>5. Orderly(Riscv.later_use, {}, {"trap", "irqs", "timer"}, {}, {})
  <2>1. /\ Len(Riscv.later_use) = 1 /\ Riscv.later_use[1] = RiscvHandleIrq
    BY <1>0
  <2>2. /\ Effect(Riscv.later_use[1], {"trap", "timer", "irqs"}, {}, {}, {})
    BY <2>1, RiscvEffects
  <2>3. Len(Riscv.later_use) = 1 /\ Riscv.later_use \in Seq(StepType)
    BY <2>1, PartsAreSteps, RiscvFit
  <2> QED
    BY <2>2, <2>3 DEF Orderly, Effect
<1>6. Orderly(Riscv.secondary, {}, {}, {}, {})
  <2>1. /\ Len(Riscv.secondary) = 4 /\ Riscv.secondary[1] = SetStack /\ Riscv.secondary[2] = InitMmu
        /\ Riscv.secondary[3] = StackHigh /\ Riscv.secondary[4] = CallMain
    BY <1>0 DEF RiscvStartSecondary
  <2>2. /\ Blank(Riscv.secondary[1]) /\ Blank(Riscv.secondary[2]) /\ Blank(Riscv.secondary[3])
        /\ Blank(Riscv.secondary[4])
    BY <2>1, CodeIsBlank
  <2>3. Len(Riscv.secondary) = 4 /\ Riscv.secondary \in Seq(StepType)
    BY <2>1, PartsAreSteps, RiscvFit
  <2>4. \A k \in 1 .. Len(Riscv.secondary) :
          /\ Riscv.secondary[k].uses = {} /\ Riscv.secondary[k].once = {}
          /\ Fills(Riscv.secondary[k]) = {}
    BY <2>2, <2>3 DEF Effect, Blank
  <2> QED
    BY <2>3, <2>4, BlankIsOrderly
<1>7. Orderly(Riscv.later_secondary, {}, {"trap"}, {}, {"irqs", "timer"})
  <2>1. /\ Len(Riscv.later_secondary) = 2 /\ Riscv.later_secondary[1] = RiscvIrqInitPercpu
        /\ Riscv.later_secondary[2] = RiscvTimeInitPercpu
    BY <1>0 DEF RiscvInitLaterSecondary
  <2>2. /\ Effect(Riscv.later_secondary[1], {}, {}, {}, {"irqs"})
        /\ Effect(Riscv.later_secondary[2], {}, {}, {}, {"timer"})
    BY <2>1, RiscvEffects
  <2>3. Len(Riscv.later_secondary) = 2 /\ Riscv.later_secondary \in Seq(StepType)
    BY <2>1, PartsAreSteps, RiscvFit
  <2> QED
    BY <2>2, <2>3 DEF Orderly, Effect
<1>8. Orderly(Riscv.cpu_boot, {}, {}, {}, {})
  <2>1. /\ Len(Riscv.cpu_boot) = 1 /\ Riscv.cpu_boot[1] = Release
    BY <1>0 DEF RiscvCpuBoot
  <2>2. /\ Blank(Riscv.cpu_boot[1])
    BY <2>1, CodeIsBlank
  <2>3. Len(Riscv.cpu_boot) = 1 /\ Riscv.cpu_boot \in Seq(StepType)
    BY <2>1, PartsAreSteps, RiscvFit
  <2> QED
    BY <2>2, <2>3 DEF Orderly, Effect, Blank
<1>9. /\ Riscv.system_off.uses \subseteq {}
      /\ Riscv.system_off.once = {}
  BY <1>0, CodeIsBlank DEF Blank, Effect
<1>10. {} \cup {} = {}
  OBVIOUS
<1> QED
  BY <1>1, <1>2, <1>3, <1>4, <1>5, <1>6, <1>7, <1>8, <1>9, <1>10 DEF Order

\* x86-pc, with the cells that init_early and init_later fill.
LEMMA X86Order ==
  Order(X86, {"COM1", "INIT_TICK", "RAM_REGIONS"}, {"IO_APIC", "LOCAL_APIC", "LAPIC_RATIO"})
<1>0. /\ X86.start = X86Start /\ X86.early = X86InitEarly
      /\ X86.early_use = <<X86WriteBytes, X86CurrentTicks>> /\ X86.later = X86InitLater
      /\ X86.later_use = <<X86SetOneshotTimer, X86SetEnable>> /\ X86.secondary = X86StartSecondary
      /\ X86.later_secondary = X86InitLaterSecondary /\ X86.cpu_boot = X86CpuBoot
      /\ X86.system_off = Op("off")
  BY DEF X86, Loong
<1>1. Orderly(X86.start, {}, {}, {}, {})
  <2>1. /\ Len(X86.start) = 4 /\ X86.start[1] = enable_fp /\ X86.start[2] = InitMmu
        /\ X86.start[3] = Op("sp_virt") /\ X86.start[4] = CallMain
    BY <1>0 DEF X86Start, X86Cr4, X86Cr0, rust_entry
  <2>2. /\ Effect(X86.start[1], {}, {}, {}, {"fp"}) /\ Blank(X86.start[2]) /\ Blank(X86.start[3])
        /\ Blank(X86.start[4])
    BY <2>1, DriverEffects, CodeIsBlank
  <2>3. Len(X86.start) = 4 /\ X86.start \in Seq(StepType)
    BY <2>1, PartsAreSteps, X86Fit
  <2>4. \A k \in 1 .. Len(X86.start) :
          /\ X86.start[k].uses = {} /\ X86.start[k].once = {}
          /\ Fills(X86.start[k]) = {}
    BY <2>2, <2>3 DEF Effect, Blank
  <2> QED
    BY <2>3, <2>4, BlankIsOrderly
<1>2. Orderly(X86.early, {}, {}, {"COM1", "INIT_TICK", "RAM_REGIONS"}, {"trap"})
  <2>1. /\ Len(X86.early) = 4 /\ X86.early[1] = init_trap /\ X86.early[2] = X86ConsoleInit
        /\ X86.early[3] = X86TimeInitEarly /\ X86.early[4] = X86MemInit
    BY <1>0 DEF X86InitEarly
  <2>2. /\ Effect(X86.early[1], {}, {}, {}, {"trap"}) /\ Effect(X86.early[2], {}, {}, {"COM1"}, {})
        /\ Effect(X86.early[3], {"COM1"}, {}, {"INIT_TICK"}, {})
        /\ Effect(X86.early[4], {}, {"RAM_REGIONS"}, {"RAM_REGIONS"}, {})
    BY <2>1, DriverEffects, X86Effects
  <2>3. Len(X86.early) = 4 /\ X86.early \in Seq(StepType)
    BY <2>1, PartsAreSteps, X86Fit
  <2> QED
    BY <2>2, <2>3 DEF Orderly, Effect
<1>3. Orderly(X86.early_use, {"COM1", "INIT_TICK", "RAM_REGIONS"}, {"trap"}, {}, {})
  <2>1. /\ Len(X86.early_use) = 2 /\ X86.early_use[1] = X86WriteBytes
        /\ X86.early_use[2] = X86CurrentTicks
    BY <1>0
  <2>2. /\ Effect(X86.early_use[1], {"COM1", "trap"}, {}, {}, {})
        /\ Effect(X86.early_use[2], {"INIT_TICK"}, {}, {}, {})
    BY <2>1, X86Effects
  <2>3. Len(X86.early_use) = 2 /\ X86.early_use \in Seq(StepType)
    BY <2>1, PartsAreSteps, X86Fit
  <2> QED
    BY <2>2, <2>3 DEF Orderly, Effect
<1>4. Orderly(X86.later, {"COM1", "INIT_TICK", "RAM_REGIONS"}, {"trap"},
              {"IO_APIC", "LOCAL_APIC", "LAPIC_RATIO"}, {"irqs", "timer"})
  <2>1. /\ Len(X86.later) = 2 /\ X86.later[1] = X86ApicInitPrimary
        /\ X86.later[2] = X86TimeInitPrimary
    BY <1>0 DEF X86InitLater
  <2>2. /\ Effect(X86.later[1], {}, {"IO_APIC"}, {"IO_APIC", "LOCAL_APIC"}, {"irqs"})
        /\ Effect(X86.later[2], {"LOCAL_APIC"}, {}, {"LAPIC_RATIO"}, {"timer"})
    BY <2>1, X86Effects
  <2>3. Len(X86.later) = 2 /\ X86.later \in Seq(StepType)
    BY <2>1, PartsAreSteps, X86Fit
  <2> QED
    BY <2>2, <2>3 DEF Orderly, Effect
<1>5. Orderly(X86.later_use,
              {"COM1", "INIT_TICK", "RAM_REGIONS", "IO_APIC", "LOCAL_APIC", "LAPIC_RATIO"},
              {"trap", "irqs", "timer"}, {}, {})
  <2>1. /\ Len(X86.later_use) = 2 /\ X86.later_use[1] = X86SetOneshotTimer
        /\ X86.later_use[2] = X86SetEnable
    BY <1>0
  <2>2. /\ Effect(X86.later_use[1], {"trap", "irqs", "timer", "LOCAL_APIC", "LAPIC_RATIO"}, {}, {}, {})
        /\ Effect(X86.later_use[2], {"IO_APIC"}, {}, {}, {})
    BY <2>1, X86Effects
  <2>3. Len(X86.later_use) = 2 /\ X86.later_use \in Seq(StepType)
    BY <2>1, PartsAreSteps, X86Fit
  <2> QED
    BY <2>2, <2>3 DEF Orderly, Effect
<1>6. Orderly(X86.secondary,
              {"COM1", "INIT_TICK", "RAM_REGIONS", "IO_APIC", "LOCAL_APIC", "LAPIC_RATIO"},
              {}, {}, {})
  <2>1. /\ Len(X86.secondary) = 5 /\ X86.secondary[1] = SetStack /\ X86.secondary[2] = enable_fp
        /\ X86.secondary[3] = InitMmu /\ X86.secondary[4] = StackHigh /\ X86.secondary[5] = CallMain
    BY <1>0 DEF X86StartSecondary, X86Cr4, X86Cr0, rust_entry_secondary
  <2>2. /\ Blank(X86.secondary[1]) /\ Effect(X86.secondary[2], {}, {}, {}, {"fp"})
        /\ Blank(X86.secondary[3]) /\ Blank(X86.secondary[4]) /\ Blank(X86.secondary[5])
    BY <2>1, DriverEffects, CodeIsBlank
  <2>3. Len(X86.secondary) = 5 /\ X86.secondary \in Seq(StepType)
    BY <2>1, PartsAreSteps, X86Fit
  <2>4. \A k \in 1 .. Len(X86.secondary) :
          /\ X86.secondary[k].uses = {} /\ X86.secondary[k].once = {}
          /\ Fills(X86.secondary[k]) = {}
    BY <2>2, <2>3 DEF Effect, Blank
  <2> QED
    BY <2>3, <2>4, BlankIsOrderly
<1>7. Orderly(X86.later_secondary,
              {"COM1", "INIT_TICK", "RAM_REGIONS", "IO_APIC", "LOCAL_APIC", "LAPIC_RATIO"},
              {"trap"}, {}, {"irqs", "timer"})
  <2>1. /\ Len(X86.later_secondary) = 2 /\ X86.later_secondary[1] = X86ApicInitSecondary
        /\ X86.later_secondary[2] = X86TimeInitSecondary
    BY <1>0 DEF X86InitLaterSecondary
  <2>2. /\ Effect(X86.later_secondary[1], {"LOCAL_APIC"}, {}, {}, {"irqs"})
        /\ Effect(X86.later_secondary[2], {"LOCAL_APIC", "irqs"}, {}, {}, {"timer"})
    BY <2>1, X86Effects
  <2>3. Len(X86.later_secondary) = 2 /\ X86.later_secondary \in Seq(StepType)
    BY <2>1, PartsAreSteps, X86Fit
  <2> QED
    BY <2>2, <2>3 DEF Orderly, Effect
<1>8. Orderly(X86.cpu_boot,
              {"COM1", "INIT_TICK", "RAM_REGIONS", "IO_APIC", "LOCAL_APIC", "LAPIC_RATIO"},
              {}, {}, {})
  <2>1. /\ Len(X86.cpu_boot) = 2 /\ X86.cpu_boot[1] = [PassStack EXCEPT !.ram = {6}]
        /\ X86.cpu_boot[2] = [Release EXCEPT !.uses = {"LOCAL_APIC", "INIT_TICK"}, !.dev = {"lapic"}]
    BY <1>0 DEF X86CpuBoot
  <2>2. /\ Blank(X86.cpu_boot[1])
        /\ Effect(X86.cpu_boot[2], {"LOCAL_APIC", "INIT_TICK"}, {}, {}, {})
    BY <2>1, BootEffects
  <2>3. Len(X86.cpu_boot) = 2 /\ X86.cpu_boot \in Seq(StepType)
    BY <2>1, PartsAreSteps, X86Fit
  <2> QED
    BY <2>2, <2>3 DEF Orderly, Effect, Blank
<1>9. /\ X86.system_off.uses \subseteq {"COM1", "INIT_TICK", "RAM_REGIONS", "IO_APIC", "LOCAL_APIC", "LAPIC_RATIO"}
      /\ X86.system_off.once = {}
  BY <1>0, CodeIsBlank DEF Blank, Effect
<1>10. {"COM1", "INIT_TICK", "RAM_REGIONS"} \cup {"IO_APIC", "LOCAL_APIC", "LAPIC_RATIO"}
       = {"COM1", "INIT_TICK", "RAM_REGIONS", "IO_APIC", "LOCAL_APIC", "LAPIC_RATIO"}
  OBVIOUS
<1> QED
  BY <1>1, <1>2, <1>3, <1>4, <1>5, <1>6, <1>7, <1>8, <1>9, <1>10 DEF Order

\* Every platform is in order, and on x86-pc init_early fills RAM_REGIONS.
LEMMA CodeInOrder ==
  ASSUME NEW p \in DOMAIN Code
  PROVE  \E E, L : Order(Code[p], E, L) /\ (p = "x86" => "RAM_REGIONS" \in E)
<1>1. p \in {"virt", "bsta", "phytium", "raspi", "arm", "loong", "riscv", "x86"}
  BY DEF Code
<1>2. /\ Code["virt"] = Virt /\ Code["bsta"] = Bsta /\ Code["phytium"] = Phytium
      /\ Code["raspi"] = Raspi /\ Code["arm"] = Arm /\ Code["loong"] = Loong
      /\ Code["riscv"] = Riscv /\ Code["x86"] = X86
  BY DEF Code
<1>3. \E E, L : Order(X86, E, L) /\ "RAM_REGIONS" \in E
  <2>1. "RAM_REGIONS" \in {"COM1", "INIT_TICK", "RAM_REGIONS"}
    OBVIOUS
  <2> QED
    BY <2>1, X86Order
<1>4. ASSUME NEW code, NEW E, NEW L, Order(code, E, L), Code[p] = code, p # "x86"
      PROVE  \E F, M : Order(Code[p], F, M) /\ (p = "x86" => "RAM_REGIONS" \in F)
  BY <1>4
<1>5. CASE p = "x86"
  BY <1>2, <1>3, <1>5
<1>6. CASE p = "virt"
  BY <1>2, <1>4, <1>6, VirtOrder
<1>7. CASE p = "bsta"
  BY <1>2, <1>4, <1>7, BstaOrder
<1>8. CASE p = "phytium"
  BY <1>2, <1>4, <1>8, PhytiumOrder
<1>9. CASE p = "raspi"
  BY <1>2, <1>4, <1>9, RaspiOrder
<1>10. CASE p = "arm"
  BY <1>2, <1>4, <1>10, ArmOrder
<1>11. CASE p = "loong"
  BY <1>2, <1>4, <1>11, LoongOrder
<1>12. CASE p = "riscv"
  BY <1>2, <1>4, <1>12, RiscvOrder
<1> QED
  BY <1>1, <1>5, <1>6, <1>7, <1>8, <1>9, <1>10, <1>11, <1>12

\* One program after another.
LEMMA InOrder ==
  ASSUME NEW a, NEW b, NEW full, NEW full2, NEW mine, NEW mine2, NEW f, NEW g, NEW h,
         NEW o, NEW p, NEW q,
         Orderly(a, full, mine, f, o), Orderly(b, full2, mine2, g, p),
         \A x : x \in full2 <=> x \in full \/ x \in f,
         \A x \in mine2 : x \in mine \/ x \in o,
         \A x : x \in h <=> x \in f \/ x \in g,
         \A x \in q : x \in o \/ x \in p
  PROVE  Orderly(a \o b, full, mine, h, q)
<1> DEFINE c == a \o b
           m == Len(a)
           n == Len(b)
<1>1. a \in Seq(StepType) /\ b \in Seq(StepType)
  BY DEF Orderly
<1>2. JoinOf(a, b, c) /\ c \in Seq(StepType)
  BY <1>1, Joined
<1> HIDE DEF c
<1>3. m \in Nat /\ n \in Nat /\ Len(c) = m + n
  BY <1>2 DEF JoinOf
<1>4. \A k \in 1 .. m : k \in 1 .. m + n /\ c[k] = a[k]
  BY <1>2, <1>3 DEF JoinOf
<1>5. \A k \in 1 .. n : m + k \in 1 .. m + n /\ c[m + k] = b[k]
  BY <1>2, <1>3 DEF JoinOf
<1>6. ASSUME NEW x \in f PROVE \E k \in 1 .. m : x \in Fills(c[k])
  BY <1>4, <1>6 DEF Orderly
<1>7. ASSUME NEW x \in o PROVE \E k \in 1 .. m : x \in Owns(c[k])
  BY <1>4, <1>7 DEF Orderly
<1>8. ASSUME NEW k \in 1 .. m + n
      PROVE  /\ \A x \in c[k].uses : \/ x \in full \/ x \in mine
                                     \/ \E j \in 1 .. k - 1 : x \in Fills(c[j]) \/ x \in Owns(c[j])
             /\ \A x \in c[k].once : x \notin full /\ \A j \in 1 .. k - 1 : x \notin Fills(c[j])
             /\ \A x \in Fills(c[k]) : x \in h
  <2>1. CASE k <= m
    <3>1. k \in 1 .. m /\ c[k] = a[k]
      BY <1>3, <1>4, <2>1
    <3>2. \A j \in 1 .. k - 1 : c[j] = a[j]
      BY <1>3, <1>4, <3>1
    <3> QED
      BY <3>1, <3>2 DEF Orderly
  <2>2. CASE ~(k <= m)
    <3>1. PICK l \in 1 .. n : k = m + l
      <4>1. k - m \in 1 .. n /\ k = m + (k - m)
        BY <1>3, <2>2
      <4> QED
        BY <4>1
    <3>2. c[k] = b[l]
      BY <1>5, <3>1
    <3>3. \A j \in 1 .. l - 1 : m + j \in 1 .. k - 1 /\ c[m + j] = b[j]
      BY <1>3, <1>5, <3>1
    <3>4. \A j \in 1 .. m : j \in 1 .. k - 1
      BY <1>3, <3>1
    <3>5. ASSUME NEW x \in c[k].uses
          PROVE  \/ x \in full \/ x \in mine
                 \/ \E j \in 1 .. k - 1 : x \in Fills(c[j]) \/ x \in Owns(c[j])
      <4>1. x \in full2 \/ x \in mine2 \/ \E j \in 1 .. l - 1 : x \in Fills(b[j]) \/ x \in Owns(b[j])
        BY <3>2, <3>5 DEF Orderly
      <4>2. CASE x \in full2 \/ x \in mine2
        BY <1>6, <1>7, <3>4, <4>2
      <4>3. CASE \E j \in 1 .. l - 1 : x \in Fills(b[j]) \/ x \in Owns(b[j])
        BY <3>3, <4>3
      <4> QED
        BY <4>1, <4>2, <4>3
    <3>6. ASSUME NEW x \in c[k].once
          PROVE  x \notin full /\ \A j \in 1 .. k - 1 : x \notin Fills(c[j])
      <4>1. x \notin full2 /\ \A j \in 1 .. l - 1 : x \notin Fills(b[j])
        BY <3>2, <3>6 DEF Orderly
      <4>2. ASSUME NEW j \in 1 .. k - 1 PROVE x \notin Fills(c[j])
        <5>1. CASE j <= m
          <6>1. j \in 1 .. m /\ c[j] = a[j]
            BY <1>3, <1>4, <3>1, <5>1
          <6> QED
            BY <4>1, <6>1 DEF Orderly
        <5>2. CASE ~(j <= m)
          <6>1. j - m \in 1 .. l - 1 /\ j = m + (j - m)
            BY <1>3, <3>1, <5>2
          <6> QED
            BY <3>3, <4>1, <6>1
        <5> QED
          BY <5>1, <5>2
      <4> QED
        BY <4>1, <4>2
    <3>7. \A x \in Fills(c[k]) : x \in h
      BY <3>1, <3>2 DEF Orderly
    <3> QED
      BY <3>5, <3>6, <3>7
  <2> QED
    BY <2>1, <2>2
<1>9. \A x \in h : \E k \in 1 .. m + n : x \in Fills(c[k])
  <2>1. ASSUME NEW x \in g PROVE \E k \in 1 .. m + n : x \in Fills(c[k])
    BY <1>5, <2>1 DEF Orderly
  <2> QED
    BY <1>4, <1>6, <2>1
<1>10. \A x \in q : \E k \in 1 .. m + n : x \in Owns(c[k])
  <2>1. ASSUME NEW x \in p PROVE \E k \in 1 .. m + n : x \in Owns(c[k])
    BY <1>5, <2>1 DEF Orderly
  <2> QED
    BY <1>4, <1>7, <2>1
<1> QED
  BY <1>2, <1>3, <1>8, <1>9, <1>10 DEF Orderly, c

\* Calls that fill nothing may run where more is filled.
LEMMA MoreIsFilled ==
  ASSUME NEW s \in Seq(Calls), NEW full, NEW more, NEW mine, full \subseteq more,
         Orderly(s, full, mine, {}, {})
  PROVE  Orderly(s, more, mine, {}, {})
<1>1. ASSUME NEW k \in 1 .. Len(s) PROVE s[k].once = {}
  <2>1. s[k].op = "call"
    BY StepsOf DEF Calls
  <2>2. Fills(s[k]) = {}
    BY DEF Orderly
  <2> QED
    BY <2>1, <2>2 DEF Fills
<1> QED
  BY <1>1 DEF Orderly

\* The switch to the kernel's page table.
LEMMA RemapInOrder ==
  ASSUME ConfInv, NEW full, NEW mine, conf.platform = "x86" => "RAM_REGIONS" \in full
  PROVE  Orderly(MayRemap, full, mine, {}, {})
<1>1. MayRemap \in Seq(StepType)
  BY RemapSteps, StepsOf
<1>2. CASE conf.fine
  <2>1. Len(MayRemap) = 1 /\ MayRemap[1] = Remap
    BY <1>2 DEF MayRemap
  <2>2. /\ Remap.uses = IF conf.platform = "x86" THEN {"RAM_REGIONS"} ELSE {}
        /\ Remap.once = {} /\ Remap.op = "remap"
    BY DEF Remap, Op, Plain
  <2>3. Fills(Remap) = {} /\ Owns(Remap) = {}
    BY <2>2 DEF Fills, Owns
  <2>4. \A x \in Remap.uses : x \in full
    BY <2>2
  <2> QED
    BY <1>1, <2>1, <2>2, <2>3, <2>4 DEF Orderly
<1>3. CASE ~conf.fine
  <2>1. Len(MayRemap) = 0
    BY <1>3 DEF MayRemap
  <2> QED
    BY <1>1, <2>1 DEF Orderly
<1> QED
  BY <1>2, <1>3

\* init_trap, the first call of rust_main_secondary.
LEMMA TrapInOrder ==
  ASSUME NEW full, NEW mine
  PROVE  Orderly(<<init_trap>>, full, mine, {}, {"trap"})
<1>1. /\ <<init_trap>> \in Seq(StepType) /\ Len(<<init_trap>>) = 1
      /\ <<init_trap>>[1] = init_trap
  BY DriverCalls DEF Calls, StepOf
<1>2. Effect(init_trap, {}, {}, {}, {"trap"})
  BY DriverEffects
<1> QED
  BY <1>1, <1>2 DEF Orderly, Effect

\* The programs of all CPUs are in order: the cells are those the first CPU
\* fills before it starts another CPU.
LEMMA ProgramsInOrder ==
  ASSUME ConfInv
  PROVE  \E cells : /\ Orderly(BeforeLoop, {}, {}, cells, {})
                    /\ Orderly(SecondaryProgram, cells, {}, {}, {})
                    /\ Orderly(Here.cpu_boot, cells, {}, {}, {})
                    /\ Here.system_off.uses \subseteq cells /\ Here.system_off.once = {}
<1>1. PICK E, L : Order(Here, E, L) /\ (conf.platform = "x86" => "RAM_REGIONS" \in E)
  BY CodeInOrder, PlatformsAssumption DEF ConfInv, Here
<1> DEFINE C == E \cup L
           T == {"trap"}
           I == {"irqs", "timer"}
           A == {"trap", "irqs", "timer"}
<1>2. /\ Orderly(Here.start, {}, {}, {}, {})
      /\ Orderly(Here.early, {}, {}, E, T)
      /\ Orderly(Here.early_use, E, T, {}, {})
      /\ Orderly(Here.later, E, T, L, I)
      /\ Orderly(Here.later_use, C, A, {}, {})
      /\ Orderly(Here.secondary, C, {}, {}, {})
      /\ Orderly(Here.later_secondary, C, T, {}, I)
      /\ Orderly(Here.cpu_boot, C, {}, {}, {})
      /\ Here.system_off.uses \subseteq C /\ Here.system_off.once = {}
  BY <1>1, Zenon DEF Order
<1>3. /\ E \subseteq C /\ \A x : x \in C <=> x \in E \/ x \in L
      /\ \A x : x \in A <=> x \in T \/ x \in I
  OBVIOUS
<1>4. Orderly(Here.early_use, C, T, {}, {})
  <2>1. Here.early_use \in Seq(Calls)
    BY HereIsFit DEF Fit
  <2> QED
    BY <1>2, <1>3, <2>1, MoreIsFilled
<1>5. Orderly(MayRemap, E, T, {}, {}) /\ Orderly(MayRemap, C, T, {}, {})
  BY <1>1, RemapInOrder
<1>6. Orderly(<<init_trap>>, C, {}, {}, T)
  BY TrapInOrder
<1> HIDE DEF C, T, I, A
<1>7. Orderly(BeforeLoop, {}, {}, C, {})
  <2>1. Orderly(Here.start \o Here.early, {}, {}, E, T)
    BY <1>2, InOrder
  <2>2. Orderly(Here.start \o Here.early \o Here.early_use, {}, {}, E, T)
    BY <1>2, <2>1, InOrder
  <2>3. Orderly(Here.start \o Here.early \o Here.early_use \o MayRemap, {}, {}, E, T)
    BY <1>5, <2>2, InOrder
  <2>4. Orderly(Here.start \o Here.early \o Here.early_use \o MayRemap \o Here.later, {}, {}, C, A)
    BY <1>2, <1>3, <2>3, InOrder
  <2>5. Orderly(Here.start \o Here.early \o Here.early_use \o MayRemap \o Here.later
                \o Here.later_use, {}, {}, C, {})
    BY <1>2, <2>4, InOrder
  <2> QED
    BY <2>5 DEF BeforeLoop
<1>8. Orderly(SecondaryProgram, C, {}, {}, {})
  <2>1. Orderly(Here.secondary \o <<init_trap>>, C, {}, {}, T)
    BY <1>2, <1>6, InOrder
  <2>2. Orderly(Here.secondary \o <<init_trap>> \o Here.early_use, C, {}, {}, T)
    BY <1>4, <2>1, InOrder
  <2>3. Orderly(Here.secondary \o <<init_trap>> \o Here.early_use \o MayRemap, C, {}, {}, T)
    BY <1>5, <2>2, InOrder
  <2>4. Orderly(Here.secondary \o <<init_trap>> \o Here.early_use \o MayRemap
                \o Here.later_secondary, C, {}, {}, A)
    BY <1>2, <1>3, <2>3, InOrder
  <2>5. Orderly(Here.secondary \o <<init_trap>> \o Here.early_use \o MayRemap
                \o Here.later_secondary \o Here.later_use, C, {}, {}, {})
    BY <1>2, <2>4, InOrder
  <2> QED
    BY <2>5 DEF SecondaryProgram
<1> QED
  BY <1>2, <1>7, <1>8

-----------------------------------------------------------------------------
(* The order of initialization on all CPUs together.                       *)

\* What a CPU executes straight through: the first one up to its loop.
Straight == [c \in CPU |-> IF c = Primary THEN BeforeLoop ELSE SecondaryProgram]

\* What the steps that a CPU has taken have filled and set up is still there.
DoneInv ==
    \A c \in CPU : \A k \in 1 .. Len(Straight[c]) : k < pc[c] =>
        Fills(Straight[c][k]) \subseteq shared /\ Owns(Straight[c][k]) \subseteq own[c]

\* Only steps that the first CPU has taken have filled a shared cell.
SharedInv ==
    \A x \in shared : \E k \in 1 .. Len(Straight[Primary]) :
        k < pc[Primary] /\ x \in Fills(Straight[Primary][k])

OrderInv == IInv /\ DoneInv /\ SharedInv

\* The machine does not change.
LEMMA StraightStays ==
  ASSUME conf' = conf
  PROVE  Straight' = Straight
<1>1. Here' = Here /\ Primary' = Primary
  BY DEF Here, Primary
<1>2. MayRemap' = MayRemap
  BY DEF MayRemap, Remap
<1>3. BeforeLoop' = BeforeLoop /\ SecondaryProgram' = SecondaryProgram
  BY <1>1, <1>2 DEF BeforeLoop, SecondaryProgram
<1> QED
  BY <1>1, <1>3 DEF Straight

\* What the first CPU, and what another one, executes straight through.
LEMMA StraightCode ==
  ASSUME ConfInv
  PROVE  /\ Straight[Primary] = BeforeLoop /\ Len(Straight[Primary]) = LoopHead - 1
         /\ \A c \in Secondary : Straight[c] = SecondaryProgram
         /\ \A c \in CPU : Straight[c] \in Seq(StepType) /\ Len(Straight[c]) \in Nat
<1>1. BeforeLoop \in Seq(StepType) /\ SecondaryProgram \in Seq(StepType)
  BY EntryComesFirst DEF Continues
<1>2. /\ Straight[Primary] = BeforeLoop
      /\ \A c \in Secondary : Straight[c] = SecondaryProgram
      /\ \A c \in CPU : Straight[c] \in Seq(StepType)
  BY <1>1, CpuNumbers DEF Straight
<1>3. Len(BeforeLoop) \in Nat /\ LoopHead - 1 = Len(BeforeLoop)
  BY <1>1, LenProperties DEF LoopHead
<1> QED
  BY <1>2, <1>3, LenProperties

\* Outside the loop, the step of a CPU is one of these.
LEMMA StraightStep ==
  ASSUME ConfInv, NEW c \in CPU, pc[c] \in DOMAIN Program(c), c = Primary => pc[c] < LoopHead
  PROVE  pc[c] \in 1 .. Len(Straight[c]) /\ Step(c) = Straight[c][pc[c]]
<1>1. pc[c] \in 1 .. Length[c]
  BY TheStep
<1>2. CASE c = Primary
  <2>1. pc[c] \in 1 .. LoopHead - 1
    BY <1>1, <1>2, Numbers
  <2>2. PrimaryProgram[pc[c]] = BeforeLoop[pc[c]]
    BY <2>1, PrimaryLayout
  <2> QED
    BY <1>2, <2>1, <2>2, StraightCode DEF Step, Program
<1>3. CASE c # Primary
  <2>1. Straight[c] = SecondaryProgram /\ Program(c) = SecondaryProgram
    BY <1>3, StraightCode DEF Secondary, Program
  <2> QED
    BY <1>1, <2>1 DEF Step, Length
<1> QED
  BY <1>2, <1>3

\* What the steps outside the loop do to the cells.
LEMMA EntryFills ==
  ASSUME ConfInv, TypeInv, NEW c \in CPU, EntryStep(c)
  PROVE  /\ shared' = shared \cup Fills(Step(c))
         /\ \A d \in CPU : own'[d] = IF d = c THEN own[d] \cup Owns(Step(c)) ELSE own[d]
<1>1. CASE Call(c)
  <2>1. Step(c).op = "call"
    BY <1>1 DEF Call, Does
  <2>2. Fills(Step(c)) = Step(c).once \cup Step(c).sets /\ Owns(Step(c)) = Step(c).own
    BY <2>1 DEF Fills, Owns
  <2>3. /\ shared' = shared \cup Step(c).once \cup Step(c).sets
        /\ own' = [own EXCEPT ![c] = own[c] \cup Step(c).own]
    BY <1>1 DEF Call
  <2>4. \A d \in CPU : own'[d] = IF d = c THEN own[d] \cup Step(c).own ELSE own[d]
    BY <2>3 DEF TypeInv
  <2> QED
    BY <2>2, <2>3, <2>4
<1>2. CASE ~Call(c)
  <2>1. shared' = shared /\ own' = own /\ Step(c).op # "call"
    BY <1>2 DEF EntryStep, LoadStack, RaiseStack, InitPageTable, init_mmu, Jump, EnterMain,
                RemapKernel, Does
  <2>2. Fills(Step(c)) = {} /\ Owns(Step(c)) = {}
    BY <2>1 DEF Fills, Owns
  <2> QED
    BY <2>1, <2>2
<1> QED
  BY <1>1, <1>2

\* The other CPUs fill nothing.
LEMMA SecondaryFillsNothing ==
  ASSUME ConfInv, NEW k \in 1 .. Len(SecondaryProgram)
  PROVE  Fills(SecondaryProgram[k]) = {}
BY ProgramsInOrder DEF Orderly

\* A step outside the loop keeps the two invariants: it fills what it says.
LEMMA EntryKeepsOrder ==
  ASSUME OrderInv, NEW c \in CPU, EntryStep(c)
  PROVE  DoneInv' /\ SharedInv'
<1> USE DEF OrderInv, IInv
<1>1. /\ Moved(c) /\ pc \in [CPU -> Nat] /\ conf' = conf
      /\ Straight' = Straight /\ Primary' = Primary /\ Primary \in CPU
      /\ \A d \in CPU : Len(Straight[d]) \in Nat
  BY EntryMoves, StraightStays, Stays, StraightCode, CpuNumbers DEF Moved, TypeInv
<1>2. /\ pc[c] \in 1 .. Len(Straight[c]) /\ Step(c) = Straight[c][pc[c]]
      /\ \A d \in CPU : pc'[d] = IF d = c THEN pc[c] + 1 ELSE pc[d]
  <2>1. pc[c] \in DOMAIN Program(c)
    BY <1>1, Numbers DEF Moved
  <2> QED
    BY <1>1, <2>1, StraightStep DEF Moved
<1>3. /\ shared' = shared \cup Fills(Step(c))
      /\ \A d \in CPU : own'[d] = IF d = c THEN own[d] \cup Owns(Step(c)) ELSE own[d]
  BY EntryFills
<1>4. DoneInv'
  <2>1. SUFFICES ASSUME NEW d \in CPU, NEW k \in 1 .. Len(Straight[d]), k < pc'[d]
                 PROVE  /\ Fills(Straight[d][k]) \subseteq shared'
                        /\ Owns(Straight[d][k]) \subseteq own'[d]
    BY <1>1 DEF DoneInv
  <2>2. CASE d = c /\ k = pc[c]
    BY <1>2, <1>3, <2>2
  <2>3. CASE ~(d = c /\ k = pc[c])
    <3>1. k < pc[d]
      BY <1>1, <1>2, <2>1, <2>3
    <3>2. Fills(Straight[d][k]) \subseteq shared /\ Owns(Straight[d][k]) \subseteq own[d]
      BY <3>1 DEF DoneInv
    <3> QED
      BY <1>3, <3>2
  <2> QED
    BY <2>2, <2>3
<1>5. SharedInv'
  <2>1. SUFFICES ASSUME NEW x \in shared'
                 PROVE  \E k \in 1 .. Len(Straight[Primary]) :
                          k < pc'[Primary] /\ x \in Fills(Straight[Primary][k])
    BY <1>1 DEF SharedInv
  <2>2. CASE x \in shared
    <3>1. PICK k \in 1 .. Len(Straight[Primary]) :
                 k < pc[Primary] /\ x \in Fills(Straight[Primary][k])
      BY <2>2 DEF SharedInv
    <3>2. k < pc'[Primary]
      BY <1>1, <1>2, <3>1
    <3> QED
      BY <3>1, <3>2
  <2>3. CASE x \in Fills(Step(c))
    <3>1. c = Primary
      <4>1. SUFFICES ASSUME c # Primary PROVE FALSE
        OBVIOUS
      <4>2. Straight[c] = SecondaryProgram
        BY <4>1, StraightCode DEF Secondary
      <4> QED
        BY <1>2, <2>3, <4>2, SecondaryFillsNothing
    <3> QED
      BY <1>1, <1>2, <2>3, <3>1
  <2> QED
    BY <1>3, <2>1, <2>2, <2>3
<1> QED
  BY <1>4, <1>5

\* A step of the loop keeps them: it fills nothing.
LEMMA LoopKeepsOrder ==
  ASSUME OrderInv, NEW c \in CPU, LoopOrEnd(c)
  PROVE  DoneInv' /\ SharedInv'
<1> USE DEF OrderInv, IInv
<1>1. /\ conf' = conf /\ own' = own
      /\ \A d \in CPU : \/ pc'[d] = pc[d]
                        \/ pc[d] = 0 /\ pc'[d] = 1 /\ d # Primary
                        \/ d = Primary /\ pc[d] >= LoopHead /\ pc'[d] >= LoopHead
  BY LoopMoves
<1>2. shared' = shared
  BY DEF LoopOrEnd, StoreStack, flush_dcache_line, StartCpu, Wait, For, NextCpu, system_off
<1>3. /\ Straight' = Straight /\ Primary' = Primary /\ Primary \in CPU
      /\ Len(Straight[Primary]) = LoopHead - 1 /\ LoopHead \in Nat
      /\ \A d \in CPU : Len(Straight[d]) \in Nat
  BY <1>1, StraightStays, Stays, StraightCode, CpuNumbers, Numbers
<1>4. pc \in [CPU -> Nat] /\ pc' \in [CPU -> Nat]
  BY LoopTypes DEF TypeInv
<1>5. ASSUME NEW d \in CPU, NEW k \in 1 .. Len(Straight[d])
      PROVE  k < pc'[d] <=> k < pc[d]
  BY <1>1, <1>3, <1>4, <1>5
<1>6. DoneInv'
  BY <1>1, <1>2, <1>3, <1>5 DEF DoneInv
<1>7. SharedInv'
  BY <1>1, <1>2, <1>3, <1>5 DEF SharedInv
<1> QED
  BY <1>6, <1>7

\* They hold in every reachable state.
LEMMA OrderInvariance ==
  Spec => []OrderInv
<1>1. Init => OrderInv
  <2>1. ASSUME Init PROVE DoneInv /\ SharedInv
    <3>1. \A c \in CPU : pc[c] \in {0, 1}
      BY <2>1 DEF Init
    <3>2. shared = {}
      BY <2>1 DEF Init
    <3>3. \A c \in CPU : Len(Straight[c]) \in Nat
      BY <2>1, InitConf, StraightCode
    <3> QED
      BY <3>1, <3>2, <3>3 DEF DoneInv, SharedInv
  <2> QED
    BY <2>1, InitInv DEF OrderInv
<1>2. OrderInv /\ [Next]_vars => OrderInv'
  <2>1. ASSUME OrderInv, Next PROVE DoneInv' /\ SharedInv'
    <3>1. PICK c \in CPU : EntryStep(c) \/ LoopOrEnd(c)
      BY <2>1 DEF Next, CpuStep, EntryStep, LoopOrEnd
    <3> QED
      BY <2>1, <3>1, EntryKeepsOrder, LoopKeepsOrder
  <2>2. ASSUME OrderInv, vars' = vars PROVE DoneInv' /\ SharedInv'
    <3>1. Straight' = Straight /\ Primary' = Primary
      BY <2>2, StraightStays, Stays DEF vars
    <3>2. pc' = pc /\ shared' = shared /\ own' = own
      BY <2>2 DEF vars
    <3> QED
      BY <2>2, <3>1, <3>2 DEF OrderInv, DoneInv, SharedInv
  <2> QED
    BY <2>1, <2>2, NextKeepsInv DEF OrderInv
<1> QED
  BY <1>1, <1>2, PTL DEF Spec

\* The other CPUs run when the first one is in its loop or behind it.
LEMMA SecondaryRunsLater ==
  ASSUME IInv, NEW c \in Secondary, pc[c] # 0
  PROVE  pc[Primary] >= LoopHead
<1> USE DEF IInv
<1>1. /\ c \in Nat /\ Primary \in CPU /\ LoopHead \in Nat /\ Started \in Nat /\ Started >= LoopHead
      /\ pc[Primary] \in Nat /\ i \in Nat /\ Latch \in Nat
  <2>1. /\ LoopHead \in Nat \ {0} /\ Started \in Nat /\ Latch \in Nat /\ LoopHead + 2 <= Started
        /\ pc[Primary] \in Nat /\ Primary \in CPU /\ i \in Nat
    <3>1. /\ LoopHead \in Nat /\ Len(EntryCode[Primary]) < LoopHead /\ Primary \in CPU
          /\ Len(EntryCode[Primary]) \in Nat
          /\ Started = LoopHead + (IF Uncached THEN 4 ELSE IF SharesSlot THEN 3 ELSE 2)
          /\ Latch = IF conf.waits THEN Started + 1 ELSE Started
      BY Numbers
    <3>2. pc \in [CPU -> Nat] /\ i \in Nat
      BY CpuNumAssumption DEF TypeInv
    <3> QED
      BY <3>1, <3>2
  <2>2. c \in Nat
    BY CpuNumbers DEF Secondary
  <2> QED
    BY <2>1, <2>2
<1>2. c < i \/ pc[Primary] \in Started .. Latch
  BY DEF OnInv
<1>3. i # 0 => ~(pc[Primary] < LoopHead)
  BY DEF LoopInv
<1> QED
  BY <1>1, <1>2, <1>3

\* The steps of the loop and behind it are in order, too.
LEMMA LoopUses ==
  ASSUME ConfInv, pc[Primary] \in DOMAIN Program(Primary), ~(pc[Primary] < LoopHead), NEW cells,
         Orderly(Here.cpu_boot, cells, {}, {}, {}), Here.system_off.uses \subseteq cells,
         Here.system_off.once = {}
  PROVE  /\ Step(Primary).uses \subseteq cells
         /\ \A x \in Step(Primary).once : x \notin cells
<1> DEFINE q == pc[Primary]
           n == Len(LoopBody)
           s == PrimaryProgram[q]
<1>1. /\ LoopHead \in Nat /\ BootLen \in Nat /\ n = IF conf.waits THEN BootLen + 1 ELSE BootLen
      /\ Len(PrimaryProgram) = LoopHead + n + 3 /\ Primary \in CPU
  BY Lengths, PrimaryLayout, CpuNumbers
<1>2. q \in 1 .. Len(PrimaryProgram) /\ Step(Primary) = s
  BY <1>1, TheStep DEF Step, Program, Length
<1>3. \A m : Op(m).uses = {} /\ Op(m).once = {}
  BY OpIsBlank DEF Blank, Effect
<1>4. CASE q = LoopHead
  BY <1>2, <1>3, <1>4, PrimaryLayout
<1>5. CASE q \in LoopHead + 1 .. LoopHead + BootLen
  <2>1. PICK k \in 1 .. BootLen : q = LoopHead + k
    <3>1. q - LoopHead \in 1 .. BootLen /\ q = LoopHead + (q - LoopHead)
      <4>1. LoopHead \in Nat /\ BootLen \in Nat
        BY <1>1
      <4>2. q \in Int
        BY <1>5, <4>1
      <4> HIDE DEF q
      <4> QED
        BY <1>5, <4>1, <4>2
    <3> QED
      BY <3>1
  <2>2. k \in 1 .. n /\ k \in 1 .. Len(Here.cpu_boot)
    BY <1>1 DEF BootLen
  <2>3. s = Here.cpu_boot[k]
    BY <2>1, <2>2, PrimaryLayout, Lengths
  <2>4. /\ \A j \in 1 .. k - 1 : j \in 1 .. Len(Here.cpu_boot)
        /\ \A j \in 1 .. Len(Here.cpu_boot) : Here.cpu_boot[j].op # "call"
    <3>1. BootLen = Len(Here.cpu_boot) /\ BootLen \in Nat
      BY <1>1 DEF BootLen
    <3>2. Here.cpu_boot \in Seq(StepOf({"stack", "clean", "release"}))
      BY HereIsFit DEF Fit, Passes
    <3>3. \A j \in 1 .. Len(Here.cpu_boot) : Here.cpu_boot[j].op \in {"stack", "clean", "release"}
      BY <3>2, StepsOf
    <3>4. \A j \in 1 .. k - 1 : j \in 1 .. BootLen
      BY <3>1
    <3> QED
      BY <3>1, <3>3, <3>4
  <2>5. \A j \in 1 .. k - 1 : Fills(Here.cpu_boot[j]) = {} /\ Owns(Here.cpu_boot[j]) = {}
    BY <2>4 DEF Fills, Owns
  <2> QED
    BY <1>2, <2>2, <2>3, <2>5 DEF Orderly
<1>6. CASE conf.waits /\ q = LoopHead + BootLen + 1
  <2>1. BootLen + 1 \in 1 .. n /\ LoopHead + (BootLen + 1) = q
    BY <1>1, <1>6
  <2>2. s = Op("wait")
    BY <1>6, <2>1, PrimaryLayout, Lengths
  <2> QED
    BY <1>2, <1>3, <2>2
<1>7. CASE q \in {LoopHead + n + 1, LoopHead + n + 2}
  BY <1>2, <1>3, <1>7, PrimaryLayout
<1>8. CASE q = LoopHead + n + 3
  BY <1>2, <1>8, PrimaryLayout
<1>9. \/ q = LoopHead \/ q \in LoopHead + 1 .. LoopHead + BootLen
      \/ conf.waits /\ q = LoopHead + BootLen + 1
      \/ q \in {LoopHead + n + 1, LoopHead + n + 2} \/ q = LoopHead + n + 3
  <2>1. q \in Int /\ q <= LoopHead + n + 3 /\ ~(q < LoopHead)
    BY <1>1, <1>2
  <2> HIDE DEF q, n
  <2> QED
    BY <1>1, <2>1
<1> QED
  BY <1>4, <1>5, <1>6, <1>7, <1>8, <1>9

\* A step finds what it uses: what the CPU has set up before, and what the first CPU
\* has filled before it started this one.
LEMMA OrderInvImpliesInitOrder ==
  ASSUME OrderInv
  PROVE  InitOrder
<1> USE DEF OrderInv, IInv
<1>1. SUFFICES ASSUME NEW c \in CPU, pc[c] \in DOMAIN Program(c)
               PROVE  /\ \A x \in Step(c).uses : x \in shared \/ x \in own[c]
                      /\ Step(c).once \cap shared = {}
  BY DEF InitOrder
<1>2. PICK cells : /\ Orderly(BeforeLoop, {}, {}, cells, {})
                   /\ Orderly(SecondaryProgram, cells, {}, {}, {})
                   /\ Orderly(Here.cpu_boot, cells, {}, {}, {})
                   /\ Here.system_off.uses \subseteq cells /\ Here.system_off.once = {}
  BY ProgramsInOrder, Zenon
<1>3. pc[c] \in Nat /\ pc[Primary] \in Nat /\ Primary \in CPU /\ LoopHead \in Nat
  BY CpuNumbers, Numbers DEF TypeInv
<1>4. ASSUME pc[Primary] >= LoopHead PROVE cells \subseteq shared
  <2>1. SUFFICES ASSUME NEW x \in cells PROVE x \in shared
    OBVIOUS
  <2>2. PICK k \in 1 .. Len(BeforeLoop) : x \in Fills(BeforeLoop[k])
    BY <1>2, Zenon DEF Orderly
  <2>3. k \in 1 .. Len(Straight[Primary]) /\ k < pc[Primary] /\ Straight[Primary] = BeforeLoop
    BY <1>3, <1>4, StraightCode
  <2> QED
    BY <1>3, <2>2, <2>3 DEF DoneInv
<1>5. shared \subseteq cells
  <2>1. SUFFICES ASSUME NEW x \in shared PROVE x \in cells
    OBVIOUS
  <2>2. PICK k \in 1 .. Len(BeforeLoop) : x \in Fills(BeforeLoop[k])
    BY StraightCode DEF SharedInv
  <2> QED
    BY <1>2, <2>2 DEF Orderly
<1>6. CASE c = Primary /\ pc[c] < LoopHead
  <2>1. /\ pc[c] \in 1 .. Len(BeforeLoop) /\ Step(c) = BeforeLoop[pc[c]]
        /\ Straight[c] = BeforeLoop /\ Len(BeforeLoop) \in Nat
    BY <1>1, <1>6, StraightStep, StraightCode
  <2>2. \A j \in 1 .. pc[c] - 1 : j \in 1 .. Len(BeforeLoop) /\ j < pc[c]
    BY <1>3, <2>1
  <2>3. ASSUME NEW x \in Step(c).uses PROVE x \in shared \/ x \in own[c]
    <3>1. PICK j \in 1 .. pc[c] - 1 : x \in Fills(BeforeLoop[j]) \/ x \in Owns(BeforeLoop[j])
      BY <1>2, <2>1, <2>3 DEF Orderly
    <3> QED
      BY <2>1, <2>2, <3>1 DEF DoneInv
  <2>4. ASSUME NEW x \in Step(c).once PROVE x \notin shared
    <3>1. \A j \in 1 .. pc[c] - 1 : x \notin Fills(BeforeLoop[j])
      BY <1>2, <2>1, <2>4 DEF Orderly
    <3>2. \A k \in 1 .. Len(BeforeLoop) : k < pc[c] => k \in 1 .. pc[c] - 1
      BY <1>3, <2>1
    <3> QED
      BY <1>6, <2>1, <3>1, <3>2 DEF SharedInv
  <2> QED
    BY <2>3, <2>4
<1>7. CASE c = Primary /\ ~(pc[c] < LoopHead)
  <2>1. cells \subseteq shared
    BY <1>3, <1>4, <1>7
  <2>2. Step(c).uses \subseteq cells /\ \A x \in Step(c).once : x \notin cells
    BY <1>1, <1>2, <1>7, LoopUses, Zenon
  <2> QED
    BY <1>5, <2>1, <2>2
<1>8. CASE c # Primary
  <2>1. /\ pc[c] \in 1 .. Len(SecondaryProgram) /\ Step(c) = SecondaryProgram[pc[c]]
        /\ Straight[c] = SecondaryProgram /\ Len(SecondaryProgram) \in Nat
    BY <1>1, <1>8, StraightStep, StraightCode DEF Secondary
  <2>2. cells \subseteq shared
    <3>1. c \in Secondary /\ pc[c] # 0
      BY <1>8, <2>1 DEF Secondary
    <3> QED
      BY <1>4, <3>1, SecondaryRunsLater
  <2>3. \A j \in 1 .. pc[c] - 1 : j \in 1 .. Len(SecondaryProgram) /\ j < pc[c]
    BY <1>3, <2>1
  <2>4. ASSUME NEW x \in Step(c).uses PROVE x \in shared \/ x \in own[c]
    <3>1. \/ x \in cells
          \/ \E j \in 1 .. pc[c] - 1 : x \in Fills(SecondaryProgram[j]) \/ x \in Owns(SecondaryProgram[j])
      BY <1>2, <2>1, <2>4 DEF Orderly
    <3> QED
      BY <2>1, <2>2, <2>3, <3>1 DEF DoneInv
  <2>5. \A x \in Step(c).once : x \notin cells
    BY <1>2, <2>1 DEF Orderly
  <2> QED
    BY <1>5, <2>4, <2>5
<1> QED
  BY <1>6, <1>7, <1>8

\* Nothing is used before it has been set up, and no LazyInit cell is filled twice
\* (gic.rs:88, apic.rs:44), on any platform, with one to four CPUs, however
\* the kernel waits and the CPUs interleave.
THEOREM NothingUsedEarly ==
  Spec => []InitOrder
<1>1. OrderInv => InitOrder
  BY OrderInvImpliesInitOrder
<1> QED
  BY <1>1, OrderInvariance, PTL

-----------------------------------------------------------------------------
(* What the steps access, and what the page tables map.                    *)

\* The pages, from the first one of the kernel image on, that the boot table and the
\* memory map have room for: to the end of the block of the table or of the region
\* of RAM, on arm-qemu-virt to the end of the sections of the first table.
Room == [virt |-> \h7E00, bsta |-> \h3F000, phytium |-> \h30000, raspi |-> \h3FF80,
         arm |-> \h3F0, loong |-> \h8000, riscv |-> \h7E00, x86 |-> \h7E00]

\* A step accesses no devices but D and no RAM but the pages R.
Touches(x, D, R) == x.dev \subseteq D /\ x.ram \subseteq R

\* No step of s does.
Reaches(s, D, R) == s \in Seq(StepType) /\ \A k \in 1 .. Len(s) : Touches(s[k], D, R)

\* The entry e maps `size` pages from `first`, as the given kind of memory.
Holds(e, half, first, size, attr) ==
    /\ e.half = half
    /\ e.first <= first /\ first + size <= e.first + e.size
    /\ e.attr \in {attr, "any"}

\* e is an entry of the page tables that a CPU has written before step k of s.
Wrote(p, s, k, e) ==
    \/ p = "x86" /\ e \in X86PageTable
    \/ \E j \in 1 .. Len(s) : j < k /\ s[j].op = "table" /\ e \in s[j].map

\* High addresses are used when translation is on; loongarch64 ignores the upper
\* bits without it.
HighAfterMmu(p, s) ==
    p # "loong" => \A k \in 1 .. Len(s) :
        s[k].op \in {"jump", "main", "sp_virt", "sp_high"} =>
            \E j \in 1 .. Len(s) : j < k /\ s[j].op = "mmu"

\* One table is written, but on x86-pc, where it is data, and on arm-qemu-virt.
OneTable(p, s) ==
    p # "arm" => \A k \in 1 .. Len(s) : s[k].op = "table" =>
        p # "x86" /\ \A j \in 1 .. Len(s) : s[j].op = "table" => j = k

\* The kernel image is in the table, in both halves, when translation is turned on.
ImageMapped(p, s, kernel) ==
    \A h \in Half : \E e \in TableEntry :
        /\ Holds(e, h, kernel, Room[p], "normal")
        /\ \A k \in 1 .. Len(s) : s[k].op = "mmu" => Wrote(p, s, k, e)

\* A page is in the table, at its high address, when main is called.
PageMapped(p, s, page, attr) ==
    /\ page \in Nat
    /\ \E e \in TableEntry : Holds(e, "high", page, 1, attr) /\ Wrote(p, s, Len(s), e)

\* A list of ranges contains `size` pages from `first`.
Listed(ranges, first, size) ==
    \E r \in ranges : /\ r[1] \in Nat /\ r[2] \in Nat
                      /\ r[1] <= first /\ first + size <= r[1] + r[2]

\* The devices D and the pages R that the code of a platform accesses are mapped
\* by its boot table; E are the devices it accesses behind init_early, which are in
\* its list of MMIO ranges.
Layout(p, code, D, E, R) ==
    /\ E \subseteq D
    /\ Reaches(code.start, {}, {}) /\ Reaches(code.secondary, {}, {})
    /\ Reaches(code.early, D, R) /\ Reaches(code.early_use, E, R)
    /\ Reaches(code.later, E, R) /\ Reaches(code.later_use, E, R)
    /\ Reaches(code.later_secondary, E, R) /\ Reaches(code.cpu_boot, E, R)
    /\ Touches(code.system_off, E, R)
    /\ HighAfterMmu(p, code.start) /\ HighAfterMmu(p, code.secondary)
    /\ OneTable(p, code.start)
    /\ ImageMapped(p, code.start, code.kernel)
    /\ \A d \in D : PageMapped(p, code.start, code.dev[d], "device")
    /\ \A r \in R : PageMapped(p, code.start, r, "normal")
    /\ \A d \in E : Listed(code.memory.mmio, code.dev[d], 1)
    /\ \A r \in R : Listed(code.memory.ram \cup code.memory.reserved, r, 1)
    /\ Listed(code.memory.ram \cup code.memory.reserved, code.kernel, Room[p])

\* What the shared drivers access, where D has their devices.
LEMMA DriverTouches ==
  ASSUME NEW D, NEW R
  PROVE  /\ Touches(switch_to_el1, D, R) /\ Touches(enable_fp, D, R) /\ Touches(init_trap, D, R)
            /\ Touches(psci_init, D, R) /\ Touches(generic_timer_init_early, D, R)
            /\ Touches(generic_timer_ticks_to_nanos, D, R)
         /\ "uart" \in D =>
              Touches(pl011_init_early, D, R) /\ Touches(pl011_write_bytes, D, R)
         /\ "rtc" \in D =>
              Touches(pl031_init_early, D, R)
         /\ "gicd" \in D /\ "gicc" \in D =>
              Touches(init_gic, D, R) /\ Touches(init_gicc, D, R)
         /\ "gicd" \in D =>
              Touches(enable_irqs, D, R) /\ Touches(register_handler, D, R)
              /\ Touches(gic_send_ipi, D, R)
         /\ "gicc" \in D =>
              Touches(gic_handle_irq, D, R)
<1>1. Touches(switch_to_el1, D, R) /\ Touches(enable_fp, D, R) /\ Touches(init_trap, D, R)
       /\ Touches(psci_init, D, R) /\ Touches(generic_timer_init_early, D, R)
       /\ Touches(generic_timer_ticks_to_nanos, D, R)
  BY DEF Touches, Plain, switch_to_el1, enable_fp, init_trap, psci_init,
         generic_timer_init_early, generic_timer_ticks_to_nanos
<1>2. ASSUME "uart" \in D
     PROVE  Touches(pl011_init_early, D, R) /\ Touches(pl011_write_bytes, D, R)
  BY <1>2 DEF Touches, Plain, pl011_init_early, pl011_write_bytes
<1>3. ASSUME "rtc" \in D
     PROVE  Touches(pl031_init_early, D, R)
  BY <1>3 DEF Touches, Plain, pl031_init_early
<1>4. ASSUME "gicd" \in D, "gicc" \in D
     PROVE  Touches(init_gic, D, R) /\ Touches(init_gicc, D, R)
  BY <1>4 DEF Touches, Plain, init_gic, init_gicc
<1>5. ASSUME "gicd" \in D
     PROVE  Touches(enable_irqs, D, R) /\ Touches(register_handler, D, R)
       /\ Touches(gic_send_ipi, D, R)
  BY <1>5 DEF Touches, Plain, enable_irqs, register_handler, gic_send_ipi
<1>6. ASSUME "gicc" \in D
     PROVE  Touches(gic_handle_irq, D, R)
  BY <1>6 DEF Touches, Plain, gic_handle_irq
<1> QED
  BY <1>1, <1>2, <1>3, <1>4, <1>5, <1>6

\* What the code of aarch64-bsta1000b accesses.
LEMMA BstaTouches ==
  ASSUME NEW D, NEW R
  PROVE  /\ "uart" \in D =>
              Touches(dw_uart_init_early, D, R) /\ Touches(dw_uart_write_bytes, D, R)
         /\ "uart" \in D /\ "gicd" \in D =>
              Touches(dw_uart_init_irq, D, R)
         /\ "topcrm" \in D =>
              Touches(get_bootmode, D, R)
         /\ "safetycrm" \in D =>
              Touches(reset_qspi, D, R)
<1>1. ASSUME "uart" \in D
     PROVE  Touches(dw_uart_init_early, D, R) /\ Touches(dw_uart_write_bytes, D, R)
  BY <1>1 DEF Touches, Plain, dw_uart_init_early, dw_uart_write_bytes
<1>2. ASSUME "uart" \in D, "gicd" \in D
     PROVE  Touches(dw_uart_init_irq, D, R)
  BY <1>2 DEF Touches, Plain, dw_uart_init_irq
<1>3. ASSUME "topcrm" \in D
     PROVE  Touches(get_bootmode, D, R)
  BY <1>3 DEF Touches, Plain, get_bootmode
<1>4. ASSUME "safetycrm" \in D
     PROVE  Touches(reset_qspi, D, R)
  BY <1>4 DEF Touches, Plain, reset_qspi
<1> QED
  BY <1>1, <1>2, <1>3, <1>4

\* What the code of loongarch64-qemu-virt accesses.
LEMMA LoongTouches ==
  ASSUME NEW D, NEW R
  PROVE  /\ Touches(LoongTimeInitEarly, D, R) /\ Touches(LoongTimeInitPercpu, D, R)
            /\ Touches(LoongEnableIpi, D, R) /\ Touches(LoongTicksToNanos, D, R)
            /\ Touches(LoongHandleIrq, D, R)
         /\ "rtc" \in D =>
              Touches(LoongInitRtc, D, R)
         /\ "uart" \in D =>
              Touches(LoongWriteBytes, D, R)
<1>1. Touches(LoongTimeInitEarly, D, R) /\ Touches(LoongTimeInitPercpu, D, R)
       /\ Touches(LoongEnableIpi, D, R) /\ Touches(LoongTicksToNanos, D, R)
       /\ Touches(LoongHandleIrq, D, R)
  BY DEF Touches, Plain, LoongTimeInitEarly, LoongTimeInitPercpu, LoongEnableIpi,
         LoongTicksToNanos, LoongHandleIrq
<1>2. ASSUME "rtc" \in D
     PROVE  Touches(LoongInitRtc, D, R)
  BY <1>2 DEF Touches, Plain, LoongInitRtc
<1>3. ASSUME "uart" \in D
     PROVE  Touches(LoongWriteBytes, D, R)
  BY <1>3 DEF Touches, Plain, LoongWriteBytes
<1> QED
  BY <1>1, <1>2, <1>3

\* What the code of riscv64-qemu-virt accesses.
LEMMA RiscvTouches ==
  ASSUME NEW D, NEW R
  PROVE  /\ "rtc" \in D =>
              Touches(RiscvTimeInitEarly, D, R)
         /\ Touches(RiscvIrqInitPercpu, D, R) /\ Touches(RiscvTimeInitPercpu, D, R)
            /\ Touches(RiscvHandleIrq, D, R)
<1>1. ASSUME "rtc" \in D
     PROVE  Touches(RiscvTimeInitEarly, D, R)
  BY <1>1 DEF Touches, Plain, RiscvTimeInitEarly
<1>2. Touches(RiscvIrqInitPercpu, D, R) /\ Touches(RiscvTimeInitPercpu, D, R)
       /\ Touches(RiscvHandleIrq, D, R)
  BY DEF Touches, Plain, RiscvIrqInitPercpu, RiscvTimeInitPercpu, RiscvHandleIrq
<1> QED
  BY <1>1, <1>2

\* What the code of x86-pc accesses.
LEMMA X86Touches ==
  ASSUME NEW D, NEW R
  PROVE  /\ Touches(X86ConsoleInit, D, R) /\ Touches(X86TimeInitEarly, D, R)
            /\ Touches(X86WriteBytes, D, R) /\ Touches(X86CurrentTicks, D, R)
         /\ \h9 \in R =>
              Touches(X86MemInit, D, R)
         /\ "lapic" \in D /\ "ioapic" \in D =>
              Touches(X86ApicInitPrimary, D, R)
         /\ "lapic" \in D =>
              Touches(X86TimeInitPrimary, D, R) /\ Touches(X86ApicInitSecondary, D, R)
              /\ Touches(X86TimeInitSecondary, D, R) /\ Touches(X86SetOneshotTimer, D, R)
         /\ "ioapic" \in D =>
              Touches(X86SetEnable, D, R)
<1>1. Touches(X86ConsoleInit, D, R) /\ Touches(X86TimeInitEarly, D, R)
       /\ Touches(X86WriteBytes, D, R) /\ Touches(X86CurrentTicks, D, R)
  BY DEF Touches, Plain, X86ConsoleInit, X86TimeInitEarly, X86WriteBytes, X86CurrentTicks
<1>2. ASSUME \h9 \in R
     PROVE  Touches(X86MemInit, D, R)
  BY <1>2 DEF Touches, Plain, X86MemInit
<1>3. ASSUME "lapic" \in D, "ioapic" \in D
     PROVE  Touches(X86ApicInitPrimary, D, R)
  BY <1>3 DEF Touches, Plain, X86ApicInitPrimary
<1>4. ASSUME "lapic" \in D
     PROVE  Touches(X86TimeInitPrimary, D, R) /\ Touches(X86ApicInitSecondary, D, R)
       /\ Touches(X86TimeInitSecondary, D, R) /\ Touches(X86SetOneshotTimer, D, R)
  BY <1>4 DEF Touches, Plain, X86TimeInitPrimary, X86ApicInitSecondary, X86TimeInitSecondary,
         X86SetOneshotTimer
<1>5. ASSUME "ioapic" \in D
     PROVE  Touches(X86SetEnable, D, R)
  BY <1>5 DEF Touches, Plain, X86SetEnable
<1> QED
  BY <1>1, <1>2, <1>3, <1>4, <1>5

\* Assembly code and the writing of page tables touch nothing.
LEMMA OpTouches ==
  ASSUME NEW n, NEW D, NEW R
  PROVE  Touches(Op(n), D, R)
BY DEF Touches, Op, Plain

LEMMA TableTouches ==
  ASSUME NEW entries, NEW D, NEW R
  PROVE  Touches(WriteTable(entries), D, R)
BY DEF Touches, WriteTable, Op, Plain

LEMMA CodeTouches ==
  ASSUME NEW D, NEW R
  PROVE  /\ Touches(SetStack, D, R) /\ Touches(InitMmu, D, R) /\ Touches(JumpHigh, D, R)
         /\ Touches(StackHigh, D, R) /\ Touches(CallMain, D, R)
         /\ Touches(PassStack, D, R) /\ Touches(CleanStack, D, R) /\ Touches(Release, D, R)
         /\ Touches(RaspiSystemOff, D, R)
         /\ Touches(VirtPageTable, D, R) /\ Touches(BstaPageTable, D, R)
         /\ Touches(PhytiumPageTable, D, R) /\ Touches(RaspiPageTable, D, R)
         /\ Touches(ArmPageTable, D, R) /\ Touches(ArmPageTableAfterMmu, D, R)
         /\ Touches(LoongPageTable, D, R) /\ Touches(RiscvPageTable, D, R)
<1>1. /\ Touches(SetStack, D, R) /\ Touches(InitMmu, D, R) /\ Touches(JumpHigh, D, R)
      /\ Touches(StackHigh, D, R) /\ Touches(CallMain, D, R)
      /\ Touches(PassStack, D, R) /\ Touches(CleanStack, D, R) /\ Touches(Release, D, R)
      /\ Touches(RaspiSystemOff, D, R)
  BY OpTouches DEF SetStack, InitMmu, JumpHigh, StackHigh, CallMain, PassStack, CleanStack,
                   Release, RaspiSystemOff
<1>2. /\ Touches(VirtPageTable, D, R) /\ Touches(BstaPageTable, D, R)
      /\ Touches(PhytiumPageTable, D, R) /\ Touches(RaspiPageTable, D, R)
      /\ Touches(ArmPageTable, D, R) /\ Touches(ArmPageTableAfterMmu, D, R)
      /\ Touches(LoongPageTable, D, R) /\ Touches(RiscvPageTable, D, R)
  BY TableTouches DEF VirtPageTable, BstaPageTable, PhytiumPageTable, RaspiPageTable,
                      ArmPageTable, ArmPageTableAfterMmu, LoongPageTable, RiscvPageTable
<1> QED
  BY <1>1, <1>2

\* What cpu_boot and system_off access.
LEMMA BootTouches ==
  ASSUME NEW D, NEW R
  PROVE  /\ Touches(psci_cpu_on, D, R) /\ Touches(psci_system_off, D, R)
         /\ "ged" \in D => Touches(LoongSystemOff, D, R)
         /\ 0 \in R => Touches([Release EXCEPT !.ram = {0}], D, R)
         /\ 6 \in R => Touches([PassStack EXCEPT !.ram = {6}], D, R)
         /\ "lapic" \in D =>
              Touches([Release EXCEPT !.uses = {"LOCAL_APIC", "INIT_TICK"}, !.dev = {"lapic"}], D, R)
<1>1. Touches(psci_cpu_on, D, R) /\ Touches(psci_system_off, D, R)
  BY DEF Touches, psci_cpu_on, psci_system_off, Release, Op, Plain
<1>2. ASSUME "ged" \in D PROVE Touches(LoongSystemOff, D, R)
  BY <1>2 DEF Touches, LoongSystemOff, Op, Plain
<1>3. ASSUME 0 \in R PROVE Touches([Release EXCEPT !.ram = {0}], D, R)
  BY <1>3 DEF Touches, Release, Op, Plain
<1>4. ASSUME 6 \in R PROVE Touches([PassStack EXCEPT !.ram = {6}], D, R)
  BY <1>4 DEF Touches, PassStack, Op, Plain
<1>5. ASSUME "lapic" \in D
      PROVE  Touches([Release EXCEPT !.uses = {"LOCAL_APIC", "INIT_TICK"}, !.dev = {"lapic"}], D, R)
  BY <1>5 DEF Touches, Release, Op, Plain
<1> QED
  BY <1>1, <1>2, <1>3, <1>4, <1>5

\* The page table maps `size` pages from `first`, in both halves, before translation
\* is turned on and before main.
Written(p, s, first, size, attr) ==
    \A h \in Half : /\ Entry(h, first, size, attr) \in TableEntry
                    /\ \A k \in 1 .. Len(s) : s[k].op = "mmu" => Wrote(p, s, k, Entry(h, first, size, attr))
                    /\ Wrote(p, s, Len(s), Entry(h, first, size, attr))

\* The step t of s writes the table, before translation is turned on and before main.
TableAt(s, t) ==
    /\ Len(s) \in Nat /\ t \in 1 .. Len(s) /\ t < Len(s) /\ s[t].op = "table"
    /\ \A k \in 1 .. Len(s) : s[k].op = "mmu" => t < k

LEMMA TableWritten ==
  ASSUME NEW p, NEW s, NEW t, TableAt(s, t), NEW first \in Nat, NEW size \in Nat,
         NEW attr \in {"device", "normal", "any"},
         \A h \in Half : Entry(h, first, size, attr) \in s[t].map
  PROVE  Written(p, s, first, size, attr)
<1> SUFFICES ASSUME NEW h \in Half
             PROVE  /\ Entry(h, first, size, attr) \in TableEntry
                    /\ \A k \in 1 .. Len(s) : s[k].op = "mmu" => Wrote(p, s, k, Entry(h, first, size, attr))
                    /\ Wrote(p, s, Len(s), Entry(h, first, size, attr))
  BY DEF Written
<1>1. Entry(h, first, size, attr) \in TableEntry
  BY DEF Entry, TableEntry
<1>2. ASSUME NEW k \in 1 .. Len(s), t < k PROVE Wrote(p, s, k, Entry(h, first, size, attr))
  BY <1>2 DEF Wrote, TableAt
<1> QED
  BY <1>1, <1>2 DEF TableAt

\* The block n of 1 GB is written.
BlockWritten(p, s, n, attr) == Written(p, s, n * GB, GB, attr)

HasBlock(entries, n, attr) ==
    /\ n \in Nat /\ attr \in {"device", "normal", "any"}
    /\ \A h \in Half : Entry(h, n * GB, GB, attr) \in entries

LEMMA TableBlock ==
  ASSUME NEW p, NEW s, NEW t, TableAt(s, t), NEW n, NEW attr, HasBlock(s[t].map, n, attr)
  PROVE  BlockWritten(p, s, n, attr)
<1>1. n * GB \in Nat /\ GB \in Nat
  BY DEF GB, HasBlock
<1> QED
  BY <1>1, TableWritten DEF BlockWritten, HasBlock

\* What is written is mapped.
LEMMA ImageIn ==
  ASSUME NEW p, NEW s, NEW kernel \in Nat, NEW first \in Nat, NEW size \in Nat,
         NEW attr \in {"normal", "any"}, Written(p, s, first, size, attr),
         first <= kernel, kernel + Room[p] <= first + size
  PROVE  ImageMapped(p, s, kernel)
<1> SUFFICES ASSUME NEW h \in Half
             PROVE  \E e \in TableEntry :
                      /\ Holds(e, h, kernel, Room[p], "normal")
                      /\ \A k \in 1 .. Len(s) : s[k].op = "mmu" => Wrote(p, s, k, e)
  BY DEF ImageMapped
<1>1. Holds(Entry(h, first, size, attr), h, kernel, Room[p], "normal")
  BY DEF Holds, Entry
<1>2. /\ Entry(h, first, size, attr) \in TableEntry
      /\ \A k \in 1 .. Len(s) : s[k].op = "mmu" => Wrote(p, s, k, Entry(h, first, size, attr))
  BY DEF Written
<1> QED
  BY <1>1, <1>2

LEMMA PageIn ==
  ASSUME NEW p, NEW s, NEW page \in Nat, NEW first \in Nat, NEW size \in Nat,
         NEW attr \in {"device", "normal"}, NEW kind \in {attr, "any"},
         Entry("high", first, size, kind) \in TableEntry,
         Wrote(p, s, Len(s), Entry("high", first, size, kind)),
         first <= page, page + 1 <= first + size
  PROVE  PageMapped(p, s, page, attr)
<1>1. Holds(Entry("high", first, size, kind), "high", page, 1, attr)
  BY DEF Holds, Entry
<1> QED
  BY <1>1 DEF PageMapped

LEMMA WrittenPage ==
  ASSUME NEW p, NEW s, NEW page \in Nat, NEW first \in Nat, NEW size \in Nat,
         NEW attr \in {"device", "normal"}, NEW kind \in {attr, "any"},
         Written(p, s, first, size, kind), first <= page, page + 1 <= first + size
  PROVE  PageMapped(p, s, page, attr)
<1>1. /\ Entry("high", first, size, kind) \in TableEntry
      /\ Wrote(p, s, Len(s), Entry("high", first, size, kind))
  BY DEF Written, Half
<1> QED
  BY <1>1, PageIn

LEMMA BlockImage ==
  ASSUME NEW p, NEW s, NEW kernel \in Nat, NEW n \in Nat, NEW attr \in {"normal", "any"},
         BlockWritten(p, s, n, attr), n * GB <= kernel, kernel + Room[p] <= n * GB + GB
  PROVE  ImageMapped(p, s, kernel)
<1>1. n * GB \in Nat /\ GB \in Nat
  BY DEF GB
<1> QED
  BY <1>1, ImageIn DEF BlockWritten

LEMMA BlockPage ==
  ASSUME NEW p, NEW s, NEW page \in Nat, NEW n \in Nat, NEW attr \in {"device", "normal"},
         NEW kind \in {attr, "any"}, BlockWritten(p, s, n, kind),
         n * GB <= page, page + 1 <= n * GB + GB
  PROVE  PageMapped(p, s, page, attr)
<1>1. n * GB \in Nat /\ GB \in Nat
  BY DEF GB
<1> QED
  BY <1>1, WrittenPage DEF BlockWritten

LEMMA TableMap ==
  ASSUME NEW entries
  PROVE  WriteTable(entries).map = entries
BY DEF WriteTable, Op, Plain

\* aarch64-qemu-virt: its devices and its pages.
LEMMA VirtLayout ==
  Layout("virt", Virt, {"uart", "rtc", "gicd", "gicc"},
         {"uart", "gicd", "gicc"}, {})
<1> DEFINE D == {"uart", "rtc", "gicd", "gicc"}
           E == {"uart", "gicd", "gicc"}
           R == {}
<1>0. /\ Virt.start = VirtStart /\ Virt.early = VirtInitEarly
      /\ Virt.early_use = GicEarlyUse(pl011_write_bytes) /\ Virt.later = VirtInitLater
      /\ Virt.later_use = GicLaterUse /\ Virt.secondary = VirtStartSecondary
      /\ Virt.later_secondary = GicLaterSecondary /\ Virt.cpu_boot = VirtCpuBoot
      /\ Virt.system_off = psci_system_off
  BY DEF Virt
<1>m. /\ Virt.kernel = \h40200 /\ Virt.memory = VirtMemory /\ Virt.dev.uart = \h9000
      /\ Virt.dev.rtc = \h9010 /\ Virt.dev.gicd = \h8000 /\ Virt.dev.gicc = \h8010
  BY SMT DEF Virt
<1>d. /\ "uart" \in D /\ "rtc" \in D /\ "gicd" \in D /\ "gicc" \in D /\ "uart" \in E /\ "gicd" \in E
      /\ "gicc" \in E /\ E \subseteq D
  OBVIOUS
<1>e. /\ \A d \in D : d = "uart" \/ d = "rtc" \/ d = "gicd" \/ d = "gicc"
      /\ \A d \in E : d = "uart" \/ d = "gicd" \/ d = "gicc"
      /\ \A r \in R : FALSE
  OBVIOUS
<1> HIDE DEF D, E, R
<1>1. Reaches(Virt.start, {}, {})
  <2>1. /\ Len(Virt.start) = 7 /\ Virt.start[1] = SetStack /\ Virt.start[2] = switch_to_el1
        /\ Virt.start[3] = enable_fp /\ Virt.start[4] = VirtPageTable /\ Virt.start[5] = InitMmu
        /\ Virt.start[6] = StackHigh /\ Virt.start[7] = CallMain
    BY <1>0 DEF VirtStart
  <2>2. /\ Touches(Virt.start[1], {}, {}) /\ Touches(Virt.start[2], {}, {})
        /\ Touches(Virt.start[3], {}, {}) /\ Touches(Virt.start[4], {}, {})
        /\ Touches(Virt.start[5], {}, {}) /\ Touches(Virt.start[6], {}, {})
        /\ Touches(Virt.start[7], {}, {})
    BY <2>1, DriverTouches, CodeTouches
  <2>3. Len(Virt.start) = 7 /\ Virt.start \in Seq(StepType)
    BY <2>1, PartsAreSteps, VirtFit
  <2> QED
    BY <2>2, <2>3 DEF Reaches
<1>2. Reaches(Virt.secondary, {}, {})
  <2>1. /\ Len(Virt.secondary) = 6 /\ Virt.secondary[1] = SetStack
        /\ Virt.secondary[2] = switch_to_el1 /\ Virt.secondary[3] = enable_fp
        /\ Virt.secondary[4] = InitMmu /\ Virt.secondary[5] = StackHigh
        /\ Virt.secondary[6] = CallMain
    BY <1>0 DEF VirtStartSecondary
  <2>2. /\ Touches(Virt.secondary[1], {}, {}) /\ Touches(Virt.secondary[2], {}, {})
        /\ Touches(Virt.secondary[3], {}, {}) /\ Touches(Virt.secondary[4], {}, {})
        /\ Touches(Virt.secondary[5], {}, {}) /\ Touches(Virt.secondary[6], {}, {})
    BY <2>1, DriverTouches, CodeTouches
  <2>3. Len(Virt.secondary) = 6 /\ Virt.secondary \in Seq(StepType)
    BY <2>1, PartsAreSteps, VirtFit
  <2> QED
    BY <2>2, <2>3 DEF Reaches
<1>3. Reaches(Virt.early, D, R)
  <2>1. /\ Len(Virt.early) = 5 /\ Virt.early[1] = init_trap /\ Virt.early[2] = pl011_init_early
        /\ Virt.early[3] = psci_init /\ Virt.early[4] = generic_timer_init_early
        /\ Virt.early[5] = pl031_init_early
    BY <1>0 DEF VirtInitEarly
  <2>2. /\ Touches(Virt.early[1], D, R) /\ Touches(Virt.early[2], D, R)
        /\ Touches(Virt.early[3], D, R) /\ Touches(Virt.early[4], D, R)
        /\ Touches(Virt.early[5], D, R)
    BY <2>1, <1>d, DriverTouches
  <2>3. Len(Virt.early) = 5 /\ Virt.early \in Seq(StepType)
    BY <2>1, PartsAreSteps, VirtFit
  <2> QED
    BY <2>2, <2>3 DEF Reaches
<1>4. Reaches(Virt.early_use, E, R)
  <2>1. /\ Len(Virt.early_use) = 2 /\ Virt.early_use[1] = pl011_write_bytes
        /\ Virt.early_use[2] = generic_timer_ticks_to_nanos
    BY <1>0 DEF GicEarlyUse
  <2>2. /\ Touches(Virt.early_use[1], E, R) /\ Touches(Virt.early_use[2], E, R)
    BY <2>1, <1>d, DriverTouches
  <2>3. Len(Virt.early_use) = 2 /\ Virt.early_use \in Seq(StepType)
    BY <2>1, PartsAreSteps, VirtFit
  <2> QED
    BY <2>2, <2>3 DEF Reaches
<1>5. Reaches(Virt.later, E, R)
  <2>1. /\ Len(Virt.later) = 4 /\ Virt.later[1] = init_gic /\ Virt.later[2] = init_gicc
        /\ Virt.later[3] = enable_irqs /\ Virt.later[4] = register_handler
    BY <1>0 DEF VirtInitLater
  <2>2. /\ Touches(Virt.later[1], E, R) /\ Touches(Virt.later[2], E, R)
        /\ Touches(Virt.later[3], E, R) /\ Touches(Virt.later[4], E, R)
    BY <2>1, <1>d, DriverTouches
  <2>3. Len(Virt.later) = 4 /\ Virt.later \in Seq(StepType)
    BY <2>1, PartsAreSteps, VirtFit
  <2> QED
    BY <2>2, <2>3 DEF Reaches
<1>6. Reaches(Virt.later_use, E, R)
  <2>1. /\ Len(Virt.later_use) = 2 /\ Virt.later_use[1] = gic_handle_irq
        /\ Virt.later_use[2] = gic_send_ipi
    BY <1>0 DEF GicLaterUse
  <2>2. /\ Touches(Virt.later_use[1], E, R) /\ Touches(Virt.later_use[2], E, R)
    BY <2>1, <1>d, DriverTouches
  <2>3. Len(Virt.later_use) = 2 /\ Virt.later_use \in Seq(StepType)
    BY <2>1, PartsAreSteps, VirtFit
  <2> QED
    BY <2>2, <2>3 DEF Reaches
<1>7. Reaches(Virt.later_secondary, E, R)
  <2>1. /\ Len(Virt.later_secondary) = 2 /\ Virt.later_secondary[1] = init_gicc
        /\ Virt.later_secondary[2] = enable_irqs
    BY <1>0 DEF GicLaterSecondary
  <2>2. /\ Touches(Virt.later_secondary[1], E, R) /\ Touches(Virt.later_secondary[2], E, R)
    BY <2>1, <1>d, DriverTouches
  <2>3. Len(Virt.later_secondary) = 2 /\ Virt.later_secondary \in Seq(StepType)
    BY <2>1, PartsAreSteps, VirtFit
  <2> QED
    BY <2>2, <2>3 DEF Reaches
<1>8. Reaches(Virt.cpu_boot, E, R)
  <2>1. /\ Len(Virt.cpu_boot) = 1 /\ Virt.cpu_boot[1] = psci_cpu_on
    BY <1>0 DEF VirtCpuBoot
  <2>2. /\ Touches(Virt.cpu_boot[1], E, R)
    BY <2>1, <1>d, BootTouches
  <2>3. Len(Virt.cpu_boot) = 1 /\ Virt.cpu_boot \in Seq(StepType)
    BY <2>1, PartsAreSteps, VirtFit
  <2> QED
    BY <2>2, <2>3 DEF Reaches
<1>9. Touches(Virt.system_off, E, R)
  BY <1>0, <1>d, BootTouches
<1>10. /\ Len(Virt.start) = 7
      /\ Virt.start[4] = VirtPageTable
      /\ \A k \in 1 .. 7 : /\ Virt.start[k].op = "table" <=> k = 4
                           /\ Virt.start[k].op = "mmu" <=> k = 5
                           /\ Virt.start[k].op \in {"jump", "main", "sp_virt", "sp_high"} => k > 5
  <2>1. /\ Len(Virt.start) = 7 /\ Virt.start[1] = SetStack /\ Virt.start[2] = switch_to_el1
        /\ Virt.start[3] = enable_fp /\ Virt.start[4] = VirtPageTable /\ Virt.start[5] = InitMmu
        /\ Virt.start[6] = StackHigh /\ Virt.start[7] = CallMain
    BY <1>0 DEF VirtStart
  <2>2. /\ Virt.start[1].op = "sp" /\ Virt.start[2].op = "call" /\ Virt.start[3].op = "call"
        /\ Virt.start[4].op = "table" /\ Virt.start[5].op = "mmu" /\ Virt.start[6].op = "sp_high"
        /\ Virt.start[7].op = "main"
    BY <2>1, Kinds, TableKinds
  <2> QED
    BY <2>1, <2>2
<1>11. /\ Len(Virt.secondary) = 6
      /\ \A k \in 1 .. 6 : /\ Virt.secondary[k].op = "table" <=> FALSE
                           /\ Virt.secondary[k].op = "mmu" <=> k = 4
                           /\ Virt.secondary[k].op \in {"jump", "main", "sp_virt", "sp_high"} => k > 4
  <2>1. /\ Len(Virt.secondary) = 6 /\ Virt.secondary[1] = SetStack
        /\ Virt.secondary[2] = switch_to_el1 /\ Virt.secondary[3] = enable_fp
        /\ Virt.secondary[4] = InitMmu /\ Virt.secondary[5] = StackHigh
        /\ Virt.secondary[6] = CallMain
    BY <1>0 DEF VirtStartSecondary
  <2>2. /\ Virt.secondary[1].op = "sp" /\ Virt.secondary[2].op = "call"
        /\ Virt.secondary[3].op = "call" /\ Virt.secondary[4].op = "mmu"
        /\ Virt.secondary[5].op = "sp_high" /\ Virt.secondary[6].op = "main"
    BY <2>1, Kinds
  <2> QED
    BY <2>1, <2>2
<1>12. HighAfterMmu("virt", Virt.start) /\ HighAfterMmu("virt", Virt.secondary)
  BY <1>10, <1>11 DEF HighAfterMmu
<1>13. OneTable("virt", Virt.start)
  BY <1>10 DEF OneTable
<1>14. TableAt(Virt.start, 4)
  BY <1>10 DEF TableAt
<1>15. BlockWritten("virt", Virt.start, 0, "device")
  <2>1. HasBlock(Virt.start[4].map, 0, "device")
    BY <1>10, TableMap, SMT DEF VirtPageTable, Block, HasBlock, Half
  <2> QED
    BY <1>14, <2>1, TableBlock, SMT
<1>16. BlockWritten("virt", Virt.start, 1, "normal")
  <2>1. HasBlock(Virt.start[4].map, 1, "normal")
    BY <1>10, TableMap, SMT DEF VirtPageTable, Block, HasBlock, Half
  <2> QED
    BY <1>14, <2>1, TableBlock, SMT
<1>17. ImageMapped("virt", Virt.start, Virt.kernel)
  <2>1. /\ Virt.kernel \in Nat /\ 1 * GB <= Virt.kernel
        /\ Virt.kernel + Room["virt"] <= 1 * GB + GB
    BY <1>m, SMT DEF GB, Room
  <2> QED
    BY <1>16, <2>1, BlockImage, SMT
<1>18. PageMapped("virt", Virt.start, Virt.dev["uart"], "device")
  <2>1. /\ Virt.dev["uart"] \in Nat /\ 0 * GB <= Virt.dev["uart"]
        /\ Virt.dev["uart"] + 1 <= 0 * GB + GB
    BY <1>m, SMT DEF GB
  <2> QED
    BY <1>15, <2>1, BlockPage, SMT
<1>19. PageMapped("virt", Virt.start, Virt.dev["rtc"], "device")
  <2>1. /\ Virt.dev["rtc"] \in Nat /\ 0 * GB <= Virt.dev["rtc"]
        /\ Virt.dev["rtc"] + 1 <= 0 * GB + GB
    BY <1>m, SMT DEF GB
  <2> QED
    BY <1>15, <2>1, BlockPage, SMT
<1>20. PageMapped("virt", Virt.start, Virt.dev["gicd"], "device")
  <2>1. /\ Virt.dev["gicd"] \in Nat /\ 0 * GB <= Virt.dev["gicd"]
        /\ Virt.dev["gicd"] + 1 <= 0 * GB + GB
    BY <1>m, SMT DEF GB
  <2> QED
    BY <1>15, <2>1, BlockPage, SMT
<1>21. PageMapped("virt", Virt.start, Virt.dev["gicc"], "device")
  <2>1. /\ Virt.dev["gicc"] \in Nat /\ 0 * GB <= Virt.dev["gicc"]
        /\ Virt.dev["gicc"] + 1 <= 0 * GB + GB
    BY <1>m, SMT DEF GB
  <2> QED
    BY <1>15, <2>1, BlockPage, SMT
<1>22. Listed(Virt.memory.mmio, Virt.dev["uart"], 1)
  <2>1. <<\h9000, 1>> \in Virt.memory.mmio
    BY <1>m, SMT DEF VirtMemory
  <2>2. \h9000 <= Virt.dev["uart"] /\ Virt.dev["uart"] + 1 <= \h9000 + 1
    BY <1>m, SMT
  <2> QED
    BY <2>1, <2>2, SMT DEF Listed
<1>23. Listed(Virt.memory.mmio, Virt.dev["gicd"], 1)
  <2>1. <<\h8000, \h20>> \in Virt.memory.mmio
    BY <1>m, SMT DEF VirtMemory
  <2>2. \h8000 <= Virt.dev["gicd"] /\ Virt.dev["gicd"] + 1 <= \h8000 + \h20
    BY <1>m, SMT
  <2> QED
    BY <2>1, <2>2, SMT DEF Listed
<1>24. Listed(Virt.memory.mmio, Virt.dev["gicc"], 1)
  <2>1. <<\h8000, \h20>> \in Virt.memory.mmio
    BY <1>m, SMT DEF VirtMemory
  <2>2. \h8000 <= Virt.dev["gicc"] /\ Virt.dev["gicc"] + 1 <= \h8000 + \h20
    BY <1>m, SMT
  <2> QED
    BY <2>1, <2>2, SMT DEF Listed
<1>25. Listed(Virt.memory.ram \cup Virt.memory.reserved, Virt.kernel, Room["virt"])
  <2>1. <<\h40000, \h8000>> \in Virt.memory.ram \cup Virt.memory.reserved
    BY <1>m, SMT DEF VirtMemory
  <2>2. \h40000 <= Virt.kernel /\ Virt.kernel + Room["virt"] <= \h40000 + \h8000
    BY <1>m, SMT DEF Room
  <2> QED
    BY <2>1, <2>2, SMT DEF Listed
<1>26. /\ \A d \in D : PageMapped("virt", Virt.start, Virt.dev[d], "device")
       /\ \A r \in R : PageMapped("virt", Virt.start, r, "normal")
  BY <1>e, <1>18, <1>19, <1>20, <1>21
<1>27. /\ \A d \in E : Listed(Virt.memory.mmio, Virt.dev[d], 1)
       /\ \A r \in R : Listed(Virt.memory.ram \cup Virt.memory.reserved, r, 1)
  BY <1>e, <1>22, <1>23, <1>24
<1>28. Layout("virt", Virt, D, E, R)
  BY <1>d, <1>1, <1>2, <1>3, <1>4, <1>5, <1>6, <1>7, <1>8, <1>9, <1>12, <1>13, <1>17, <1>25,
     <1>26, <1>27 DEF Layout
<1> QED
  BY <1>28 DEF D, E, R

\* aarch64-bsta1000b: its devices and its pages.
LEMMA BstaLayout ==
  Layout("bsta", Bsta, {"uart", "gicd", "gicc", "topcrm", "safetycrm"},
         {"uart", "gicd", "gicc", "topcrm", "safetycrm"}, {})
<1> DEFINE D == {"uart", "gicd", "gicc", "topcrm", "safetycrm"}
           E == {"uart", "gicd", "gicc", "topcrm", "safetycrm"}
           R == {}
<1>0. /\ Bsta.start = BstaStart /\ Bsta.early = BstaInitEarly
      /\ Bsta.early_use = GicEarlyUse(dw_uart_write_bytes) \o <<get_bootmode, reset_qspi>>
      /\ Bsta.later = BstaInitLater /\ Bsta.later_use = GicLaterUse
      /\ Bsta.secondary = BstaStartSecondary /\ Bsta.later_secondary = GicLaterSecondary
      /\ Bsta.cpu_boot = BstaCpuBoot /\ Bsta.system_off = psci_system_off
  BY DEF Bsta, Virt
<1>m. /\ Bsta.kernel = \h81000 /\ Bsta.memory = BstaMemory /\ Bsta.dev.uart = \h20008
      /\ Bsta.dev.gicd = \h32001 /\ Bsta.dev.gicc = \h32002 /\ Bsta.dev.topcrm = \h33002
      /\ Bsta.dev.safetycrm = \h70035
  BY SMT DEF Bsta, Virt
<1>d. /\ "uart" \in D /\ "gicd" \in D /\ "gicc" \in D /\ "topcrm" \in D /\ "safetycrm" \in D
      /\ "uart" \in E /\ "gicd" \in E /\ "gicc" \in E /\ "topcrm" \in E /\ "safetycrm" \in E
      /\ E \subseteq D
  OBVIOUS
<1>e. /\ \A d \in D : d = "uart" \/ d = "gicd" \/ d = "gicc" \/ d = "topcrm" \/ d = "safetycrm"
      /\ \A d \in E : d = "uart" \/ d = "gicd" \/ d = "gicc" \/ d = "topcrm" \/ d = "safetycrm"
      /\ \A r \in R : FALSE
  OBVIOUS
<1> HIDE DEF D, E, R
<1>1. Reaches(Bsta.start, {}, {})
  <2>1. /\ Len(Bsta.start) = 7 /\ Bsta.start[1] = SetStack /\ Bsta.start[2] = switch_to_el1
        /\ Bsta.start[3] = enable_fp /\ Bsta.start[4] = BstaPageTable /\ Bsta.start[5] = InitMmu
        /\ Bsta.start[6] = StackHigh /\ Bsta.start[7] = CallMain
    BY <1>0 DEF BstaStart
  <2>2. /\ Touches(Bsta.start[1], {}, {}) /\ Touches(Bsta.start[2], {}, {})
        /\ Touches(Bsta.start[3], {}, {}) /\ Touches(Bsta.start[4], {}, {})
        /\ Touches(Bsta.start[5], {}, {}) /\ Touches(Bsta.start[6], {}, {})
        /\ Touches(Bsta.start[7], {}, {})
    BY <2>1, DriverTouches, CodeTouches
  <2>3. Len(Bsta.start) = 7 /\ Bsta.start \in Seq(StepType)
    BY <2>1, PartsAreSteps, BstaFit
  <2> QED
    BY <2>2, <2>3 DEF Reaches
<1>2. Reaches(Bsta.secondary, {}, {})
  <2>1. /\ Len(Bsta.secondary) = 6 /\ Bsta.secondary[1] = SetStack
        /\ Bsta.secondary[2] = switch_to_el1 /\ Bsta.secondary[3] = InitMmu
        /\ Bsta.secondary[4] = enable_fp /\ Bsta.secondary[5] = StackHigh
        /\ Bsta.secondary[6] = CallMain
    BY <1>0 DEF BstaStartSecondary
  <2>2. /\ Touches(Bsta.secondary[1], {}, {}) /\ Touches(Bsta.secondary[2], {}, {})
        /\ Touches(Bsta.secondary[3], {}, {}) /\ Touches(Bsta.secondary[4], {}, {})
        /\ Touches(Bsta.secondary[5], {}, {}) /\ Touches(Bsta.secondary[6], {}, {})
    BY <2>1, DriverTouches, CodeTouches
  <2>3. Len(Bsta.secondary) = 6 /\ Bsta.secondary \in Seq(StepType)
    BY <2>1, PartsAreSteps, BstaFit
  <2> QED
    BY <2>2, <2>3 DEF Reaches
<1>3. Reaches(Bsta.early, D, R)
  <2>1. /\ Len(Bsta.early) = 4 /\ Bsta.early[1] = init_trap /\ Bsta.early[2] = psci_init
        /\ Bsta.early[3] = dw_uart_init_early /\ Bsta.early[4] = generic_timer_init_early
    BY <1>0 DEF BstaInitEarly
  <2>2. /\ Touches(Bsta.early[1], D, R) /\ Touches(Bsta.early[2], D, R)
        /\ Touches(Bsta.early[3], D, R) /\ Touches(Bsta.early[4], D, R)
    BY <2>1, <1>d, DriverTouches, BstaTouches
  <2>3. Len(Bsta.early) = 4 /\ Bsta.early \in Seq(StepType)
    BY <2>1, PartsAreSteps, BstaFit
  <2> QED
    BY <2>2, <2>3 DEF Reaches
<1>4. Reaches(Bsta.early_use, E, R)
  <2>1. /\ Len(Bsta.early_use) = 4 /\ Bsta.early_use[1] = dw_uart_write_bytes
        /\ Bsta.early_use[2] = generic_timer_ticks_to_nanos /\ Bsta.early_use[3] = get_bootmode
        /\ Bsta.early_use[4] = reset_qspi
    BY <1>0 DEF GicEarlyUse
  <2>2. /\ Touches(Bsta.early_use[1], E, R) /\ Touches(Bsta.early_use[2], E, R)
        /\ Touches(Bsta.early_use[3], E, R) /\ Touches(Bsta.early_use[4], E, R)
    BY <2>1, <1>d, DriverTouches, BstaTouches
  <2>3. Len(Bsta.early_use) = 4 /\ Bsta.early_use \in Seq(StepType)
    BY <2>1, PartsAreSteps, BstaFit
  <2> QED
    BY <2>2, <2>3 DEF Reaches
<1>5. Reaches(Bsta.later, E, R)
  <2>1. /\ Len(Bsta.later) = 4 /\ Bsta.later[1] = init_gic /\ Bsta.later[2] = init_gicc
        /\ Bsta.later[3] = enable_irqs /\ Bsta.later[4] = dw_uart_init_irq
    BY <1>0 DEF BstaInitLater
  <2>2. /\ Touches(Bsta.later[1], E, R) /\ Touches(Bsta.later[2], E, R)
        /\ Touches(Bsta.later[3], E, R) /\ Touches(Bsta.later[4], E, R)
    BY <2>1, <1>d, DriverTouches, BstaTouches
  <2>3. Len(Bsta.later) = 4 /\ Bsta.later \in Seq(StepType)
    BY <2>1, PartsAreSteps, BstaFit
  <2> QED
    BY <2>2, <2>3 DEF Reaches
<1>6. Reaches(Bsta.later_use, E, R)
  <2>1. /\ Len(Bsta.later_use) = 2 /\ Bsta.later_use[1] = gic_handle_irq
        /\ Bsta.later_use[2] = gic_send_ipi
    BY <1>0 DEF GicLaterUse
  <2>2. /\ Touches(Bsta.later_use[1], E, R) /\ Touches(Bsta.later_use[2], E, R)
    BY <2>1, <1>d, DriverTouches
  <2>3. Len(Bsta.later_use) = 2 /\ Bsta.later_use \in Seq(StepType)
    BY <2>1, PartsAreSteps, BstaFit
  <2> QED
    BY <2>2, <2>3 DEF Reaches
<1>7. Reaches(Bsta.later_secondary, E, R)
  <2>1. /\ Len(Bsta.later_secondary) = 2 /\ Bsta.later_secondary[1] = init_gicc
        /\ Bsta.later_secondary[2] = enable_irqs
    BY <1>0 DEF GicLaterSecondary
  <2>2. /\ Touches(Bsta.later_secondary[1], E, R) /\ Touches(Bsta.later_secondary[2], E, R)
    BY <2>1, <1>d, DriverTouches
  <2>3. Len(Bsta.later_secondary) = 2 /\ Bsta.later_secondary \in Seq(StepType)
    BY <2>1, PartsAreSteps, BstaFit
  <2> QED
    BY <2>2, <2>3 DEF Reaches
<1>8. Reaches(Bsta.cpu_boot, E, R)
  <2>1. /\ Len(Bsta.cpu_boot) = 1 /\ Bsta.cpu_boot[1] = psci_cpu_on
    BY <1>0 DEF BstaCpuBoot
  <2>2. /\ Touches(Bsta.cpu_boot[1], E, R)
    BY <2>1, <1>d, BootTouches
  <2>3. Len(Bsta.cpu_boot) = 1 /\ Bsta.cpu_boot \in Seq(StepType)
    BY <2>1, PartsAreSteps, BstaFit
  <2> QED
    BY <2>2, <2>3 DEF Reaches
<1>9. Touches(Bsta.system_off, E, R)
  BY <1>0, <1>d, BootTouches
<1>10. /\ Len(Bsta.start) = 7
      /\ Bsta.start[4] = BstaPageTable
      /\ \A k \in 1 .. 7 : /\ Bsta.start[k].op = "table" <=> k = 4
                           /\ Bsta.start[k].op = "mmu" <=> k = 5
                           /\ Bsta.start[k].op \in {"jump", "main", "sp_virt", "sp_high"} => k > 5
  <2>1. /\ Len(Bsta.start) = 7 /\ Bsta.start[1] = SetStack /\ Bsta.start[2] = switch_to_el1
        /\ Bsta.start[3] = enable_fp /\ Bsta.start[4] = BstaPageTable /\ Bsta.start[5] = InitMmu
        /\ Bsta.start[6] = StackHigh /\ Bsta.start[7] = CallMain
    BY <1>0 DEF BstaStart
  <2>2. /\ Bsta.start[1].op = "sp" /\ Bsta.start[2].op = "call" /\ Bsta.start[3].op = "call"
        /\ Bsta.start[4].op = "table" /\ Bsta.start[5].op = "mmu" /\ Bsta.start[6].op = "sp_high"
        /\ Bsta.start[7].op = "main"
    BY <2>1, Kinds, TableKinds
  <2> QED
    BY <2>1, <2>2
<1>11. /\ Len(Bsta.secondary) = 6
      /\ \A k \in 1 .. 6 : /\ Bsta.secondary[k].op = "table" <=> FALSE
                           /\ Bsta.secondary[k].op = "mmu" <=> k = 3
                           /\ Bsta.secondary[k].op \in {"jump", "main", "sp_virt", "sp_high"} => k > 3
  <2>1. /\ Len(Bsta.secondary) = 6 /\ Bsta.secondary[1] = SetStack
        /\ Bsta.secondary[2] = switch_to_el1 /\ Bsta.secondary[3] = InitMmu
        /\ Bsta.secondary[4] = enable_fp /\ Bsta.secondary[5] = StackHigh
        /\ Bsta.secondary[6] = CallMain
    BY <1>0 DEF BstaStartSecondary
  <2>2. /\ Bsta.secondary[1].op = "sp" /\ Bsta.secondary[2].op = "call"
        /\ Bsta.secondary[3].op = "mmu" /\ Bsta.secondary[4].op = "call"
        /\ Bsta.secondary[5].op = "sp_high" /\ Bsta.secondary[6].op = "main"
    BY <2>1, Kinds
  <2> QED
    BY <2>1, <2>2
<1>12. HighAfterMmu("bsta", Bsta.start) /\ HighAfterMmu("bsta", Bsta.secondary)
  BY <1>10, <1>11 DEF HighAfterMmu
<1>13. OneTable("bsta", Bsta.start)
  BY <1>10 DEF OneTable
<1>14. TableAt(Bsta.start, 4)
  BY <1>10 DEF TableAt
<1>15. BlockWritten("bsta", Bsta.start, 0, "device")
  <2>1. HasBlock(Bsta.start[4].map, 0, "device")
    BY <1>10, TableMap, SMT DEF BstaPageTable, Block, HasBlock, Half
  <2> QED
    BY <1>14, <2>1, TableBlock, SMT
<1>16. BlockWritten("bsta", Bsta.start, 1, "device")
  <2>1. HasBlock(Bsta.start[4].map, 1, "device")
    BY <1>10, TableMap, SMT DEF BstaPageTable, Block, HasBlock, Half
  <2> QED
    BY <1>14, <2>1, TableBlock, SMT
<1>17. BlockWritten("bsta", Bsta.start, 2, "normal")
  <2>1. HasBlock(Bsta.start[4].map, 2, "normal")
    BY <1>10, TableMap, SMT DEF BstaPageTable, Block, HasBlock, Half
  <2> QED
    BY <1>14, <2>1, TableBlock, SMT
<1>18. ImageMapped("bsta", Bsta.start, Bsta.kernel)
  <2>1. /\ Bsta.kernel \in Nat /\ 2 * GB <= Bsta.kernel
        /\ Bsta.kernel + Room["bsta"] <= 2 * GB + GB
    BY <1>m, SMT DEF GB, Room
  <2> QED
    BY <1>17, <2>1, BlockImage, SMT
<1>19. PageMapped("bsta", Bsta.start, Bsta.dev["uart"], "device")
  <2>1. /\ Bsta.dev["uart"] \in Nat /\ 0 * GB <= Bsta.dev["uart"]
        /\ Bsta.dev["uart"] + 1 <= 0 * GB + GB
    BY <1>m, SMT DEF GB
  <2> QED
    BY <1>15, <2>1, BlockPage, SMT
<1>20. PageMapped("bsta", Bsta.start, Bsta.dev["gicd"], "device")
  <2>1. /\ Bsta.dev["gicd"] \in Nat /\ 0 * GB <= Bsta.dev["gicd"]
        /\ Bsta.dev["gicd"] + 1 <= 0 * GB + GB
    BY <1>m, SMT DEF GB
  <2> QED
    BY <1>15, <2>1, BlockPage, SMT
<1>21. PageMapped("bsta", Bsta.start, Bsta.dev["gicc"], "device")
  <2>1. /\ Bsta.dev["gicc"] \in Nat /\ 0 * GB <= Bsta.dev["gicc"]
        /\ Bsta.dev["gicc"] + 1 <= 0 * GB + GB
    BY <1>m, SMT DEF GB
  <2> QED
    BY <1>15, <2>1, BlockPage, SMT
<1>22. PageMapped("bsta", Bsta.start, Bsta.dev["topcrm"], "device")
  <2>1. /\ Bsta.dev["topcrm"] \in Nat /\ 0 * GB <= Bsta.dev["topcrm"]
        /\ Bsta.dev["topcrm"] + 1 <= 0 * GB + GB
    BY <1>m, SMT DEF GB
  <2> QED
    BY <1>15, <2>1, BlockPage, SMT
<1>23. PageMapped("bsta", Bsta.start, Bsta.dev["safetycrm"], "device")
  <2>1. /\ Bsta.dev["safetycrm"] \in Nat /\ 1 * GB <= Bsta.dev["safetycrm"]
        /\ Bsta.dev["safetycrm"] + 1 <= 1 * GB + GB
    BY <1>m, SMT DEF GB
  <2> QED
    BY <1>16, <2>1, BlockPage, SMT
<1>24. Listed(Bsta.memory.mmio, Bsta.dev["uart"], 1)
  <2>1. <<\h20008, 1>> \in Bsta.memory.mmio
    BY <1>m, SMT DEF BstaMemory
  <2>2. \h20008 <= Bsta.dev["uart"] /\ Bsta.dev["uart"] + 1 <= \h20008 + 1
    BY <1>m, SMT
  <2> QED
    BY <2>1, <2>2, SMT DEF Listed
<1>25. Listed(Bsta.memory.mmio, Bsta.dev["gicd"], 1)
  <2>1. <<\h32000, 8>> \in Bsta.memory.mmio
    BY <1>m, SMT DEF BstaMemory
  <2>2. \h32000 <= Bsta.dev["gicd"] /\ Bsta.dev["gicd"] + 1 <= \h32000 + 8
    BY <1>m, SMT
  <2> QED
    BY <2>1, <2>2, SMT DEF Listed
<1>26. Listed(Bsta.memory.mmio, Bsta.dev["gicc"], 1)
  <2>1. <<\h32000, 8>> \in Bsta.memory.mmio
    BY <1>m, SMT DEF BstaMemory
  <2>2. \h32000 <= Bsta.dev["gicc"] /\ Bsta.dev["gicc"] + 1 <= \h32000 + 8
    BY <1>m, SMT
  <2> QED
    BY <2>1, <2>2, SMT DEF Listed
<1>27. Listed(Bsta.memory.mmio, Bsta.dev["topcrm"], 1)
  <2>1. <<\h33002, 1>> \in Bsta.memory.mmio
    BY <1>m, SMT DEF BstaMemory
  <2>2. \h33002 <= Bsta.dev["topcrm"] /\ Bsta.dev["topcrm"] + 1 <= \h33002 + 1
    BY <1>m, SMT
  <2> QED
    BY <2>1, <2>2, SMT DEF Listed
<1>28. Listed(Bsta.memory.mmio, Bsta.dev["safetycrm"], 1)
  <2>1. <<\h70035, 1>> \in Bsta.memory.mmio
    BY <1>m, SMT DEF BstaMemory
  <2>2. \h70035 <= Bsta.dev["safetycrm"] /\ Bsta.dev["safetycrm"] + 1 <= \h70035 + 1
    BY <1>m, SMT
  <2> QED
    BY <2>1, <2>2, SMT DEF Listed
<1>29. Listed(Bsta.memory.ram \cup Bsta.memory.reserved, Bsta.kernel, Room["bsta"])
  <2>1. <<\h80000, \h70000>> \in Bsta.memory.ram \cup Bsta.memory.reserved
    BY <1>m, SMT DEF BstaMemory
  <2>2. \h80000 <= Bsta.kernel /\ Bsta.kernel + Room["bsta"] <= \h80000 + \h70000
    BY <1>m, SMT DEF Room
  <2> QED
    BY <2>1, <2>2, SMT DEF Listed
<1>30. /\ \A d \in D : PageMapped("bsta", Bsta.start, Bsta.dev[d], "device")
       /\ \A r \in R : PageMapped("bsta", Bsta.start, r, "normal")
  BY <1>e, <1>19, <1>20, <1>21, <1>22, <1>23
<1>31. /\ \A d \in E : Listed(Bsta.memory.mmio, Bsta.dev[d], 1)
       /\ \A r \in R : Listed(Bsta.memory.ram \cup Bsta.memory.reserved, r, 1)
  BY <1>e, <1>24, <1>25, <1>26, <1>27, <1>28
<1>32. Layout("bsta", Bsta, D, E, R)
  BY <1>d, <1>1, <1>2, <1>3, <1>4, <1>5, <1>6, <1>7, <1>8, <1>9, <1>12, <1>13, <1>18, <1>29,
     <1>30, <1>31 DEF Layout
<1> QED
  BY <1>32 DEF D, E, R

\* aarch64-phytium-pi: its devices and its pages.
LEMMA PhytiumLayout ==
  Layout("phytium", Phytium, {"uart", "gicd", "gicc"},
         {"uart", "gicd", "gicc"}, {})
<1> DEFINE D == {"uart", "gicd", "gicc"}
           E == {"uart", "gicd", "gicc"}
           R == {}
<1>0. /\ Phytium.start = PhytiumStart /\ Phytium.early = PhytiumInitEarly
      /\ Phytium.early_use = GicEarlyUse(pl011_write_bytes) /\ Phytium.later = PhytiumInitLater
      /\ Phytium.later_use = GicLaterUse /\ Phytium.secondary = PhytiumStartSecondary
      /\ Phytium.later_secondary = GicLaterSecondary /\ Phytium.cpu_boot = PhytiumCpuBoot
      /\ Phytium.system_off = psci_system_off
  BY DEF Phytium, Virt
<1>m. /\ Phytium.kernel = \h90000 /\ Phytium.memory = PhytiumMemory /\ Phytium.dev.uart = \h2800D
      /\ Phytium.dev.gicd = \h30880 /\ Phytium.dev.gicc = \h30800
  BY SMT DEF Phytium, Virt
<1>d. /\ "uart" \in D /\ "gicd" \in D /\ "gicc" \in D /\ "uart" \in E /\ "gicd" \in E
      /\ "gicc" \in E /\ E \subseteq D
  OBVIOUS
<1>e. /\ \A d \in D : d = "uart" \/ d = "gicd" \/ d = "gicc"
      /\ \A d \in E : d = "uart" \/ d = "gicd" \/ d = "gicc"
      /\ \A r \in R : FALSE
  OBVIOUS
<1> HIDE DEF D, E, R
<1>1. Reaches(Phytium.start, {}, {})
  <2>1. /\ Len(Phytium.start) = 7 /\ Phytium.start[1] = SetStack /\ Phytium.start[2] = switch_to_el1
        /\ Phytium.start[3] = enable_fp /\ Phytium.start[4] = PhytiumPageTable
        /\ Phytium.start[5] = InitMmu /\ Phytium.start[6] = StackHigh /\ Phytium.start[7] = CallMain
    BY <1>0 DEF PhytiumStart
  <2>2. /\ Touches(Phytium.start[1], {}, {}) /\ Touches(Phytium.start[2], {}, {})
        /\ Touches(Phytium.start[3], {}, {}) /\ Touches(Phytium.start[4], {}, {})
        /\ Touches(Phytium.start[5], {}, {}) /\ Touches(Phytium.start[6], {}, {})
        /\ Touches(Phytium.start[7], {}, {})
    BY <2>1, DriverTouches, CodeTouches
  <2>3. Len(Phytium.start) = 7 /\ Phytium.start \in Seq(StepType)
    BY <2>1, PartsAreSteps, PhytiumFit
  <2> QED
    BY <2>2, <2>3 DEF Reaches
<1>2. Reaches(Phytium.secondary, {}, {})
  <2>1. /\ Len(Phytium.secondary) = 6 /\ Phytium.secondary[1] = SetStack
        /\ Phytium.secondary[2] = switch_to_el1 /\ Phytium.secondary[3] = InitMmu
        /\ Phytium.secondary[4] = enable_fp /\ Phytium.secondary[5] = StackHigh
        /\ Phytium.secondary[6] = CallMain
    BY <1>0 DEF PhytiumStartSecondary
  <2>2. /\ Touches(Phytium.secondary[1], {}, {}) /\ Touches(Phytium.secondary[2], {}, {})
        /\ Touches(Phytium.secondary[3], {}, {}) /\ Touches(Phytium.secondary[4], {}, {})
        /\ Touches(Phytium.secondary[5], {}, {}) /\ Touches(Phytium.secondary[6], {}, {})
    BY <2>1, DriverTouches, CodeTouches
  <2>3. Len(Phytium.secondary) = 6 /\ Phytium.secondary \in Seq(StepType)
    BY <2>1, PartsAreSteps, PhytiumFit
  <2> QED
    BY <2>2, <2>3 DEF Reaches
<1>3. Reaches(Phytium.early, D, R)
  <2>1. /\ Len(Phytium.early) = 4 /\ Phytium.early[1] = init_trap
        /\ Phytium.early[2] = pl011_init_early /\ Phytium.early[3] = psci_init
        /\ Phytium.early[4] = generic_timer_init_early
    BY <1>0 DEF PhytiumInitEarly
  <2>2. /\ Touches(Phytium.early[1], D, R) /\ Touches(Phytium.early[2], D, R)
        /\ Touches(Phytium.early[3], D, R) /\ Touches(Phytium.early[4], D, R)
    BY <2>1, <1>d, DriverTouches
  <2>3. Len(Phytium.early) = 4 /\ Phytium.early \in Seq(StepType)
    BY <2>1, PartsAreSteps, PhytiumFit
  <2> QED
    BY <2>2, <2>3 DEF Reaches
<1>4. Reaches(Phytium.early_use, E, R)
  <2>1. /\ Len(Phytium.early_use) = 2 /\ Phytium.early_use[1] = pl011_write_bytes
        /\ Phytium.early_use[2] = generic_timer_ticks_to_nanos
    BY <1>0 DEF GicEarlyUse
  <2>2. /\ Touches(Phytium.early_use[1], E, R) /\ Touches(Phytium.early_use[2], E, R)
    BY <2>1, <1>d, DriverTouches
  <2>3. Len(Phytium.early_use) = 2 /\ Phytium.early_use \in Seq(StepType)
    BY <2>1, PartsAreSteps, PhytiumFit
  <2> QED
    BY <2>2, <2>3 DEF Reaches
<1>5. Reaches(Phytium.later, E, R)
  <2>1. /\ Len(Phytium.later) = 4 /\ Phytium.later[1] = init_gic /\ Phytium.later[2] = init_gicc
        /\ Phytium.later[3] = enable_irqs /\ Phytium.later[4] = register_handler
    BY <1>0 DEF PhytiumInitLater
  <2>2. /\ Touches(Phytium.later[1], E, R) /\ Touches(Phytium.later[2], E, R)
        /\ Touches(Phytium.later[3], E, R) /\ Touches(Phytium.later[4], E, R)
    BY <2>1, <1>d, DriverTouches
  <2>3. Len(Phytium.later) = 4 /\ Phytium.later \in Seq(StepType)
    BY <2>1, PartsAreSteps, PhytiumFit
  <2> QED
    BY <2>2, <2>3 DEF Reaches
<1>6. Reaches(Phytium.later_use, E, R)
  <2>1. /\ Len(Phytium.later_use) = 2 /\ Phytium.later_use[1] = gic_handle_irq
        /\ Phytium.later_use[2] = gic_send_ipi
    BY <1>0 DEF GicLaterUse
  <2>2. /\ Touches(Phytium.later_use[1], E, R) /\ Touches(Phytium.later_use[2], E, R)
    BY <2>1, <1>d, DriverTouches
  <2>3. Len(Phytium.later_use) = 2 /\ Phytium.later_use \in Seq(StepType)
    BY <2>1, PartsAreSteps, PhytiumFit
  <2> QED
    BY <2>2, <2>3 DEF Reaches
<1>7. Reaches(Phytium.later_secondary, E, R)
  <2>1. /\ Len(Phytium.later_secondary) = 2 /\ Phytium.later_secondary[1] = init_gicc
        /\ Phytium.later_secondary[2] = enable_irqs
    BY <1>0 DEF GicLaterSecondary
  <2>2. /\ Touches(Phytium.later_secondary[1], E, R) /\ Touches(Phytium.later_secondary[2], E, R)
    BY <2>1, <1>d, DriverTouches
  <2>3. Len(Phytium.later_secondary) = 2 /\ Phytium.later_secondary \in Seq(StepType)
    BY <2>1, PartsAreSteps, PhytiumFit
  <2> QED
    BY <2>2, <2>3 DEF Reaches
<1>8. Reaches(Phytium.cpu_boot, E, R)
  <2>1. /\ Len(Phytium.cpu_boot) = 1 /\ Phytium.cpu_boot[1] = psci_cpu_on
    BY <1>0 DEF PhytiumCpuBoot
  <2>2. /\ Touches(Phytium.cpu_boot[1], E, R)
    BY <2>1, <1>d, BootTouches
  <2>3. Len(Phytium.cpu_boot) = 1 /\ Phytium.cpu_boot \in Seq(StepType)
    BY <2>1, PartsAreSteps, PhytiumFit
  <2> QED
    BY <2>2, <2>3 DEF Reaches
<1>9. Touches(Phytium.system_off, E, R)
  BY <1>0, <1>d, BootTouches
<1>10. /\ Len(Phytium.start) = 7
      /\ Phytium.start[4] = PhytiumPageTable
      /\ \A k \in 1 .. 7 : /\ Phytium.start[k].op = "table" <=> k = 4
                           /\ Phytium.start[k].op = "mmu" <=> k = 5
                           /\ Phytium.start[k].op \in {"jump", "main", "sp_virt", "sp_high"} => k > 5
  <2>1. /\ Len(Phytium.start) = 7 /\ Phytium.start[1] = SetStack /\ Phytium.start[2] = switch_to_el1
        /\ Phytium.start[3] = enable_fp /\ Phytium.start[4] = PhytiumPageTable
        /\ Phytium.start[5] = InitMmu /\ Phytium.start[6] = StackHigh /\ Phytium.start[7] = CallMain
    BY <1>0 DEF PhytiumStart
  <2>2. /\ Phytium.start[1].op = "sp" /\ Phytium.start[2].op = "call"
        /\ Phytium.start[3].op = "call" /\ Phytium.start[4].op = "table"
        /\ Phytium.start[5].op = "mmu" /\ Phytium.start[6].op = "sp_high"
        /\ Phytium.start[7].op = "main"
    BY <2>1, Kinds, TableKinds
  <2> QED
    BY <2>1, <2>2
<1>11. /\ Len(Phytium.secondary) = 6
      /\ \A k \in 1 .. 6 : /\ Phytium.secondary[k].op = "table" <=> FALSE
                           /\ Phytium.secondary[k].op = "mmu" <=> k = 3
                           /\ Phytium.secondary[k].op \in {"jump", "main", "sp_virt", "sp_high"} => k > 3
  <2>1. /\ Len(Phytium.secondary) = 6 /\ Phytium.secondary[1] = SetStack
        /\ Phytium.secondary[2] = switch_to_el1 /\ Phytium.secondary[3] = InitMmu
        /\ Phytium.secondary[4] = enable_fp /\ Phytium.secondary[5] = StackHigh
        /\ Phytium.secondary[6] = CallMain
    BY <1>0 DEF PhytiumStartSecondary
  <2>2. /\ Phytium.secondary[1].op = "sp" /\ Phytium.secondary[2].op = "call"
        /\ Phytium.secondary[3].op = "mmu" /\ Phytium.secondary[4].op = "call"
        /\ Phytium.secondary[5].op = "sp_high" /\ Phytium.secondary[6].op = "main"
    BY <2>1, Kinds
  <2> QED
    BY <2>1, <2>2
<1>12. HighAfterMmu("phytium", Phytium.start) /\ HighAfterMmu("phytium", Phytium.secondary)
  BY <1>10, <1>11 DEF HighAfterMmu
<1>13. OneTable("phytium", Phytium.start)
  BY <1>10 DEF OneTable
<1>14. TableAt(Phytium.start, 4)
  BY <1>10 DEF TableAt
<1>15. BlockWritten("phytium", Phytium.start, 0, "device")
  <2>1. HasBlock(Phytium.start[4].map, 0, "device")
    BY <1>10, TableMap, SMT DEF PhytiumPageTable, Block, HasBlock, Half
  <2> QED
    BY <1>14, <2>1, TableBlock, SMT
<1>16. BlockWritten("phytium", Phytium.start, 2, "normal")
  <2>1. HasBlock(Phytium.start[4].map, 2, "normal")
    BY <1>10, TableMap, SMT DEF PhytiumPageTable, Block, HasBlock, Half
  <2> QED
    BY <1>14, <2>1, TableBlock, SMT
<1>17. ImageMapped("phytium", Phytium.start, Phytium.kernel)
  <2>1. /\ Phytium.kernel \in Nat /\ 2 * GB <= Phytium.kernel
        /\ Phytium.kernel + Room["phytium"] <= 2 * GB + GB
    BY <1>m, SMT DEF GB, Room
  <2> QED
    BY <1>16, <2>1, BlockImage, SMT
<1>18. PageMapped("phytium", Phytium.start, Phytium.dev["uart"], "device")
  <2>1. /\ Phytium.dev["uart"] \in Nat /\ 0 * GB <= Phytium.dev["uart"]
        /\ Phytium.dev["uart"] + 1 <= 0 * GB + GB
    BY <1>m, SMT DEF GB
  <2> QED
    BY <1>15, <2>1, BlockPage, SMT
<1>19. PageMapped("phytium", Phytium.start, Phytium.dev["gicd"], "device")
  <2>1. /\ Phytium.dev["gicd"] \in Nat /\ 0 * GB <= Phytium.dev["gicd"]
        /\ Phytium.dev["gicd"] + 1 <= 0 * GB + GB
    BY <1>m, SMT DEF GB
  <2> QED
    BY <1>15, <2>1, BlockPage, SMT
<1>20. PageMapped("phytium", Phytium.start, Phytium.dev["gicc"], "device")
  <2>1. /\ Phytium.dev["gicc"] \in Nat /\ 0 * GB <= Phytium.dev["gicc"]
        /\ Phytium.dev["gicc"] + 1 <= 0 * GB + GB
    BY <1>m, SMT DEF GB
  <2> QED
    BY <1>15, <2>1, BlockPage, SMT
<1>21. Listed(Phytium.memory.mmio, Phytium.dev["uart"], 1)
  <2>1. <<\h2800D, 1>> \in Phytium.memory.mmio
    BY <1>m, SMT DEF PhytiumMemory
  <2>2. \h2800D <= Phytium.dev["uart"] /\ Phytium.dev["uart"] + 1 <= \h2800D + 1
    BY <1>m, SMT
  <2> QED
    BY <2>1, <2>2, SMT DEF Listed
<1>22. Listed(Phytium.memory.mmio, Phytium.dev["gicd"], 1)
  <2>1. <<\h30000, \h8000>> \in Phytium.memory.mmio
    BY <1>m, SMT DEF PhytiumMemory
  <2>2. \h30000 <= Phytium.dev["gicd"] /\ Phytium.dev["gicd"] + 1 <= \h30000 + \h8000
    BY <1>m, SMT
  <2> QED
    BY <2>1, <2>2, SMT DEF Listed
<1>23. Listed(Phytium.memory.mmio, Phytium.dev["gicc"], 1)
  <2>1. <<\h30000, \h8000>> \in Phytium.memory.mmio
    BY <1>m, SMT DEF PhytiumMemory
  <2>2. \h30000 <= Phytium.dev["gicc"] /\ Phytium.dev["gicc"] + 1 <= \h30000 + \h8000
    BY <1>m, SMT
  <2> QED
    BY <2>1, <2>2, SMT DEF Listed
<1>24. Listed(Phytium.memory.ram \cup Phytium.memory.reserved, Phytium.kernel, Room["phytium"])
  <2>1. <<\h80000, \h80000>> \in Phytium.memory.ram \cup Phytium.memory.reserved
    BY <1>m, SMT DEF PhytiumMemory
  <2>2. \h80000 <= Phytium.kernel /\ Phytium.kernel + Room["phytium"] <= \h80000 + \h80000
    BY <1>m, SMT DEF Room
  <2> QED
    BY <2>1, <2>2, SMT DEF Listed
<1>25. /\ \A d \in D : PageMapped("phytium", Phytium.start, Phytium.dev[d], "device")
       /\ \A r \in R : PageMapped("phytium", Phytium.start, r, "normal")
  BY <1>e, <1>18, <1>19, <1>20
<1>26. /\ \A d \in E : Listed(Phytium.memory.mmio, Phytium.dev[d], 1)
       /\ \A r \in R : Listed(Phytium.memory.ram \cup Phytium.memory.reserved, r, 1)
  BY <1>e, <1>21, <1>22, <1>23
<1>27. Layout("phytium", Phytium, D, E, R)
  BY <1>d, <1>1, <1>2, <1>3, <1>4, <1>5, <1>6, <1>7, <1>8, <1>9, <1>12, <1>13, <1>17, <1>24,
     <1>25, <1>26 DEF Layout
<1> QED
  BY <1>27 DEF D, E, R

\* aarch64-raspi: its devices and its pages.
LEMMA RaspiLayout ==
  Layout("raspi", Raspi, {"uart", "gicd", "gicc"},
         {"uart", "gicd", "gicc"}, {0})
<1> DEFINE D == {"uart", "gicd", "gicc"}
           E == {"uart", "gicd", "gicc"}
           R == {0}
<1>0. /\ Raspi.start = RaspiStart /\ Raspi.early = RaspiInitEarly
      /\ Raspi.early_use = GicEarlyUse(pl011_write_bytes) /\ Raspi.later = RaspiInitLater
      /\ Raspi.later_use = GicLaterUse /\ Raspi.secondary = RaspiStartSecondary
      /\ Raspi.later_secondary = GicLaterSecondary /\ Raspi.cpu_boot = RaspiCpuBoot
      /\ Raspi.system_off = RaspiSystemOff
  BY DEF Raspi, Virt
<1>m. /\ Raspi.kernel = \h80 /\ Raspi.memory = RaspiMemory /\ Raspi.dev.uart = \hFE201
      /\ Raspi.dev.gicd = \hFF841 /\ Raspi.dev.gicc = \hFF842
  BY SMT DEF Raspi, Virt
<1>d. /\ "uart" \in D /\ "gicd" \in D /\ "gicc" \in D /\ "uart" \in E /\ "gicd" \in E
      /\ "gicc" \in E /\ 0 \in R /\ E \subseteq D
  OBVIOUS
<1>e. /\ \A d \in D : d = "uart" \/ d = "gicd" \/ d = "gicc"
      /\ \A d \in E : d = "uart" \/ d = "gicd" \/ d = "gicc"
      /\ \A r \in R : r = 0
  OBVIOUS
<1> HIDE DEF D, E, R
<1>1. Reaches(Raspi.start, {}, {})
  <2>1. /\ Len(Raspi.start) = 7 /\ Raspi.start[1] = SetStack /\ Raspi.start[2] = switch_to_el1
        /\ Raspi.start[3] = enable_fp /\ Raspi.start[4] = RaspiPageTable /\ Raspi.start[5] = InitMmu
        /\ Raspi.start[6] = StackHigh /\ Raspi.start[7] = CallMain
    BY <1>0 DEF RaspiStart
  <2>2. /\ Touches(Raspi.start[1], {}, {}) /\ Touches(Raspi.start[2], {}, {})
        /\ Touches(Raspi.start[3], {}, {}) /\ Touches(Raspi.start[4], {}, {})
        /\ Touches(Raspi.start[5], {}, {}) /\ Touches(Raspi.start[6], {}, {})
        /\ Touches(Raspi.start[7], {}, {})
    BY <2>1, DriverTouches, CodeTouches
  <2>3. Len(Raspi.start) = 7 /\ Raspi.start \in Seq(StepType)
    BY <2>1, PartsAreSteps, RaspiFit
  <2> QED
    BY <2>2, <2>3 DEF Reaches
<1>2. Reaches(Raspi.secondary, {}, {})
  <2>1. /\ Len(Raspi.secondary) = 6 /\ Raspi.secondary[1] = SetStack
        /\ Raspi.secondary[2] = switch_to_el1 /\ Raspi.secondary[3] = enable_fp
        /\ Raspi.secondary[4] = InitMmu /\ Raspi.secondary[5] = StackHigh
        /\ Raspi.secondary[6] = CallMain
    BY <1>0 DEF RaspiStartSecondary
  <2>2. /\ Touches(Raspi.secondary[1], {}, {}) /\ Touches(Raspi.secondary[2], {}, {})
        /\ Touches(Raspi.secondary[3], {}, {}) /\ Touches(Raspi.secondary[4], {}, {})
        /\ Touches(Raspi.secondary[5], {}, {}) /\ Touches(Raspi.secondary[6], {}, {})
    BY <2>1, DriverTouches, CodeTouches
  <2>3. Len(Raspi.secondary) = 6 /\ Raspi.secondary \in Seq(StepType)
    BY <2>1, PartsAreSteps, RaspiFit
  <2> QED
    BY <2>2, <2>3 DEF Reaches
<1>3. Reaches(Raspi.early, D, R)
  <2>1. /\ Len(Raspi.early) = 3 /\ Raspi.early[1] = init_trap /\ Raspi.early[2] = pl011_init_early
        /\ Raspi.early[3] = generic_timer_init_early
    BY <1>0 DEF RaspiInitEarly
  <2>2. /\ Touches(Raspi.early[1], D, R) /\ Touches(Raspi.early[2], D, R)
        /\ Touches(Raspi.early[3], D, R)
    BY <2>1, <1>d, DriverTouches
  <2>3. Len(Raspi.early) = 3 /\ Raspi.early \in Seq(StepType)
    BY <2>1, PartsAreSteps, RaspiFit
  <2> QED
    BY <2>2, <2>3 DEF Reaches
<1>4. Reaches(Raspi.early_use, E, R)
  <2>1. /\ Len(Raspi.early_use) = 2 /\ Raspi.early_use[1] = pl011_write_bytes
        /\ Raspi.early_use[2] = generic_timer_ticks_to_nanos
    BY <1>0 DEF GicEarlyUse
  <2>2. /\ Touches(Raspi.early_use[1], E, R) /\ Touches(Raspi.early_use[2], E, R)
    BY <2>1, <1>d, DriverTouches
  <2>3. Len(Raspi.early_use) = 2 /\ Raspi.early_use \in Seq(StepType)
    BY <2>1, PartsAreSteps, RaspiFit
  <2> QED
    BY <2>2, <2>3 DEF Reaches
<1>5. Reaches(Raspi.later, E, R)
  <2>1. /\ Len(Raspi.later) = 4 /\ Raspi.later[1] = init_gic /\ Raspi.later[2] = init_gicc
        /\ Raspi.later[3] = enable_irqs /\ Raspi.later[4] = register_handler
    BY <1>0 DEF RaspiInitLater
  <2>2. /\ Touches(Raspi.later[1], E, R) /\ Touches(Raspi.later[2], E, R)
        /\ Touches(Raspi.later[3], E, R) /\ Touches(Raspi.later[4], E, R)
    BY <2>1, <1>d, DriverTouches
  <2>3. Len(Raspi.later) = 4 /\ Raspi.later \in Seq(StepType)
    BY <2>1, PartsAreSteps, RaspiFit
  <2> QED
    BY <2>2, <2>3 DEF Reaches
<1>6. Reaches(Raspi.later_use, E, R)
  <2>1. /\ Len(Raspi.later_use) = 2 /\ Raspi.later_use[1] = gic_handle_irq
        /\ Raspi.later_use[2] = gic_send_ipi
    BY <1>0 DEF GicLaterUse
  <2>2. /\ Touches(Raspi.later_use[1], E, R) /\ Touches(Raspi.later_use[2], E, R)
    BY <2>1, <1>d, DriverTouches
  <2>3. Len(Raspi.later_use) = 2 /\ Raspi.later_use \in Seq(StepType)
    BY <2>1, PartsAreSteps, RaspiFit
  <2> QED
    BY <2>2, <2>3 DEF Reaches
<1>7. Reaches(Raspi.later_secondary, E, R)
  <2>1. /\ Len(Raspi.later_secondary) = 2 /\ Raspi.later_secondary[1] = init_gicc
        /\ Raspi.later_secondary[2] = enable_irqs
    BY <1>0 DEF GicLaterSecondary
  <2>2. /\ Touches(Raspi.later_secondary[1], E, R) /\ Touches(Raspi.later_secondary[2], E, R)
    BY <2>1, <1>d, DriverTouches
  <2>3. Len(Raspi.later_secondary) = 2 /\ Raspi.later_secondary \in Seq(StepType)
    BY <2>1, PartsAreSteps, RaspiFit
  <2> QED
    BY <2>2, <2>3 DEF Reaches
<1>8. Reaches(Raspi.cpu_boot, E, R)
  <2>1. /\ Len(Raspi.cpu_boot) = 3 /\ Raspi.cpu_boot[1] = PassStack
        /\ Raspi.cpu_boot[2] = CleanStack /\ Raspi.cpu_boot[3] = [Release EXCEPT !.ram = {0}]
    BY <1>0 DEF RaspiCpuBoot
  <2>2. /\ Touches(Raspi.cpu_boot[1], E, R) /\ Touches(Raspi.cpu_boot[2], E, R)
        /\ Touches(Raspi.cpu_boot[3], E, R)
    BY <2>1, <1>d, CodeTouches, BootTouches
  <2>3. Len(Raspi.cpu_boot) = 3 /\ Raspi.cpu_boot \in Seq(StepType)
    BY <2>1, PartsAreSteps, RaspiFit
  <2> QED
    BY <2>2, <2>3 DEF Reaches
<1>9. Touches(Raspi.system_off, E, R)
  BY <1>0, <1>d, CodeTouches
<1>10. /\ Len(Raspi.start) = 7
      /\ Raspi.start[4] = RaspiPageTable
      /\ \A k \in 1 .. 7 : /\ Raspi.start[k].op = "table" <=> k = 4
                           /\ Raspi.start[k].op = "mmu" <=> k = 5
                           /\ Raspi.start[k].op \in {"jump", "main", "sp_virt", "sp_high"} => k > 5
  <2>1. /\ Len(Raspi.start) = 7 /\ Raspi.start[1] = SetStack /\ Raspi.start[2] = switch_to_el1
        /\ Raspi.start[3] = enable_fp /\ Raspi.start[4] = RaspiPageTable /\ Raspi.start[5] = InitMmu
        /\ Raspi.start[6] = StackHigh /\ Raspi.start[7] = CallMain
    BY <1>0 DEF RaspiStart
  <2>2. /\ Raspi.start[1].op = "sp" /\ Raspi.start[2].op = "call" /\ Raspi.start[3].op = "call"
        /\ Raspi.start[4].op = "table" /\ Raspi.start[5].op = "mmu" /\ Raspi.start[6].op = "sp_high"
        /\ Raspi.start[7].op = "main"
    BY <2>1, Kinds, TableKinds
  <2> QED
    BY <2>1, <2>2
<1>11. /\ Len(Raspi.secondary) = 6
      /\ \A k \in 1 .. 6 : /\ Raspi.secondary[k].op = "table" <=> FALSE
                           /\ Raspi.secondary[k].op = "mmu" <=> k = 4
                           /\ Raspi.secondary[k].op \in {"jump", "main", "sp_virt", "sp_high"} => k > 4
  <2>1. /\ Len(Raspi.secondary) = 6 /\ Raspi.secondary[1] = SetStack
        /\ Raspi.secondary[2] = switch_to_el1 /\ Raspi.secondary[3] = enable_fp
        /\ Raspi.secondary[4] = InitMmu /\ Raspi.secondary[5] = StackHigh
        /\ Raspi.secondary[6] = CallMain
    BY <1>0 DEF RaspiStartSecondary
  <2>2. /\ Raspi.secondary[1].op = "sp" /\ Raspi.secondary[2].op = "call"
        /\ Raspi.secondary[3].op = "call" /\ Raspi.secondary[4].op = "mmu"
        /\ Raspi.secondary[5].op = "sp_high" /\ Raspi.secondary[6].op = "main"
    BY <2>1, Kinds
  <2> QED
    BY <2>1, <2>2
<1>12. HighAfterMmu("raspi", Raspi.start) /\ HighAfterMmu("raspi", Raspi.secondary)
  BY <1>10, <1>11 DEF HighAfterMmu
<1>13. OneTable("raspi", Raspi.start)
  BY <1>10 DEF OneTable
<1>14. TableAt(Raspi.start, 4)
  BY <1>10 DEF TableAt
<1>15. BlockWritten("raspi", Raspi.start, 0, "normal")
  <2>1. HasBlock(Raspi.start[4].map, 0, "normal")
    BY <1>10, TableMap, SMT DEF RaspiPageTable, Block, HasBlock, Half
  <2> QED
    BY <1>14, <2>1, TableBlock, SMT
<1>16. BlockWritten("raspi", Raspi.start, 3, "device")
  <2>1. HasBlock(Raspi.start[4].map, 3, "device")
    BY <1>10, TableMap, SMT DEF RaspiPageTable, Block, HasBlock, Half
  <2> QED
    BY <1>14, <2>1, TableBlock, SMT
<1>17. ImageMapped("raspi", Raspi.start, Raspi.kernel)
  <2>1. /\ Raspi.kernel \in Nat /\ 0 * GB <= Raspi.kernel
        /\ Raspi.kernel + Room["raspi"] <= 0 * GB + GB
    BY <1>m, SMT DEF GB, Room
  <2> QED
    BY <1>15, <2>1, BlockImage, SMT
<1>18. PageMapped("raspi", Raspi.start, Raspi.dev["uart"], "device")
  <2>1. /\ Raspi.dev["uart"] \in Nat /\ 3 * GB <= Raspi.dev["uart"]
        /\ Raspi.dev["uart"] + 1 <= 3 * GB + GB
    BY <1>m, SMT DEF GB
  <2> QED
    BY <1>16, <2>1, BlockPage, SMT
<1>19. PageMapped("raspi", Raspi.start, Raspi.dev["gicd"], "device")
  <2>1. /\ Raspi.dev["gicd"] \in Nat /\ 3 * GB <= Raspi.dev["gicd"]
        /\ Raspi.dev["gicd"] + 1 <= 3 * GB + GB
    BY <1>m, SMT DEF GB
  <2> QED
    BY <1>16, <2>1, BlockPage, SMT
<1>20. PageMapped("raspi", Raspi.start, Raspi.dev["gicc"], "device")
  <2>1. /\ Raspi.dev["gicc"] \in Nat /\ 3 * GB <= Raspi.dev["gicc"]
        /\ Raspi.dev["gicc"] + 1 <= 3 * GB + GB
    BY <1>m, SMT DEF GB
  <2> QED
    BY <1>16, <2>1, BlockPage, SMT
<1>21. PageMapped("raspi", Raspi.start, 0, "normal")
  <2>1. /\ 0 \in Nat /\ 0 * GB <= 0 /\ 0 + 1 <= 0 * GB + GB
    BY SMT DEF GB
  <2> QED
    BY <1>15, <2>1, BlockPage, SMT
<1>22. Listed(Raspi.memory.mmio, Raspi.dev["uart"], 1)
  <2>1. <<\hFE201, 1>> \in Raspi.memory.mmio
    BY <1>m, SMT DEF RaspiMemory
  <2>2. \hFE201 <= Raspi.dev["uart"] /\ Raspi.dev["uart"] + 1 <= \hFE201 + 1
    BY <1>m, SMT
  <2> QED
    BY <2>1, <2>2, SMT DEF Listed
<1>23. Listed(Raspi.memory.mmio, Raspi.dev["gicd"], 1)
  <2>1. <<\hFF841, 3>> \in Raspi.memory.mmio
    BY <1>m, SMT DEF RaspiMemory
  <2>2. \hFF841 <= Raspi.dev["gicd"] /\ Raspi.dev["gicd"] + 1 <= \hFF841 + 3
    BY <1>m, SMT
  <2> QED
    BY <2>1, <2>2, SMT DEF Listed
<1>24. Listed(Raspi.memory.mmio, Raspi.dev["gicc"], 1)
  <2>1. <<\hFF841, 3>> \in Raspi.memory.mmio
    BY <1>m, SMT DEF RaspiMemory
  <2>2. \hFF841 <= Raspi.dev["gicc"] /\ Raspi.dev["gicc"] + 1 <= \hFF841 + 3
    BY <1>m, SMT
  <2> QED
    BY <2>1, <2>2, SMT DEF Listed
<1>25. Listed(Raspi.memory.ram \cup Raspi.memory.reserved, 0, 1)
  <2>1. <<0, 1>> \in Raspi.memory.ram \cup Raspi.memory.reserved
    BY <1>m, SMT DEF RaspiMemory
  <2> QED
    BY <2>1, SMT DEF Listed
<1>26. Listed(Raspi.memory.ram \cup Raspi.memory.reserved, Raspi.kernel, Room["raspi"])
  <2>1. <<0, \h80000>> \in Raspi.memory.ram \cup Raspi.memory.reserved
    BY <1>m, SMT DEF RaspiMemory
  <2>2. 0 <= Raspi.kernel /\ Raspi.kernel + Room["raspi"] <= 0 + \h80000
    BY <1>m, SMT DEF Room
  <2> QED
    BY <2>1, <2>2, SMT DEF Listed
<1>27. /\ \A d \in D : PageMapped("raspi", Raspi.start, Raspi.dev[d], "device")
       /\ \A r \in R : PageMapped("raspi", Raspi.start, r, "normal")
  BY <1>e, <1>18, <1>19, <1>20, <1>21
<1>28. /\ \A d \in E : Listed(Raspi.memory.mmio, Raspi.dev[d], 1)
       /\ \A r \in R : Listed(Raspi.memory.ram \cup Raspi.memory.reserved, r, 1)
  BY <1>e, <1>22, <1>23, <1>24, <1>25
<1>29. Layout("raspi", Raspi, D, E, R)
  BY <1>d, <1>1, <1>2, <1>3, <1>4, <1>5, <1>6, <1>7, <1>8, <1>9, <1>12, <1>13, <1>17, <1>26,
     <1>27, <1>28 DEF Layout
<1> QED
  BY <1>29 DEF D, E, R

\* arm-qemu-virt: its devices and its pages.
LEMMA ArmLayout ==
  Layout("arm", Arm, {"uart", "rtc", "gicd", "gicc"},
         {"uart", "rtc", "gicd", "gicc"}, {})
<1> DEFINE D == {"uart", "rtc", "gicd", "gicc"}
           E == {"uart", "rtc", "gicd", "gicc"}
           R == {}
<1>0. /\ Arm.start = ArmStart /\ Arm.early = ArmInitEarly
      /\ Arm.early_use = GicEarlyUse(pl011_write_bytes) /\ Arm.later = ArmInitLater
      /\ Arm.later_use = GicLaterUse /\ Arm.secondary = ArmStartSecondary
      /\ Arm.later_secondary = GicLaterSecondary /\ Arm.cpu_boot = ArmCpuBoot
      /\ Arm.system_off = psci_system_off
  BY DEF Arm, Virt
<1>m. /\ Arm.kernel = \h40010 /\ Arm.memory = ArmMemory /\ Arm.dev.uart = \h9000
      /\ Arm.dev.rtc = \h9010 /\ Arm.dev.gicd = \h8000 /\ Arm.dev.gicc = \h8010
  BY SMT DEF Arm, Virt
<1>d. /\ "uart" \in D /\ "rtc" \in D /\ "gicd" \in D /\ "gicc" \in D /\ "uart" \in E /\ "rtc" \in E
      /\ "gicd" \in E /\ "gicc" \in E /\ E \subseteq D
  OBVIOUS
<1>e. /\ \A d \in D : d = "uart" \/ d = "rtc" \/ d = "gicd" \/ d = "gicc"
      /\ \A d \in E : d = "uart" \/ d = "rtc" \/ d = "gicd" \/ d = "gicc"
      /\ \A r \in R : FALSE
  OBVIOUS
<1> HIDE DEF D, E, R
<1>1. Reaches(Arm.start, {}, {})
  <2>1. /\ Len(Arm.start) = 8 /\ Arm.start[1] = SetStack /\ Arm.start[2] = enable_fp
        /\ Arm.start[3] = ArmPageTable /\ Arm.start[4] = InitMmu /\ Arm.start[5] = JumpHigh
        /\ Arm.start[6] = StackHigh /\ Arm.start[7] = ArmPageTableAfterMmu
        /\ Arm.start[8] = CallMain
    BY <1>0 DEF ArmStart
  <2>2. /\ Touches(Arm.start[1], {}, {}) /\ Touches(Arm.start[2], {}, {})
        /\ Touches(Arm.start[3], {}, {}) /\ Touches(Arm.start[4], {}, {})
        /\ Touches(Arm.start[5], {}, {}) /\ Touches(Arm.start[6], {}, {})
        /\ Touches(Arm.start[7], {}, {}) /\ Touches(Arm.start[8], {}, {})
    BY <2>1, DriverTouches, CodeTouches
  <2>3. Len(Arm.start) = 8 /\ Arm.start \in Seq(StepType)
    BY <2>1, PartsAreSteps, ArmFit
  <2> QED
    BY <2>2, <2>3 DEF Reaches
<1>2. Reaches(Arm.secondary, {}, {})
  <2>1. /\ Len(Arm.secondary) = 6 /\ Arm.secondary[1] = SetStack /\ Arm.secondary[2] = enable_fp
        /\ Arm.secondary[3] = InitMmu /\ Arm.secondary[4] = JumpHigh /\ Arm.secondary[5] = StackHigh
        /\ Arm.secondary[6] = CallMain
    BY <1>0 DEF ArmStartSecondary
  <2>2. /\ Touches(Arm.secondary[1], {}, {}) /\ Touches(Arm.secondary[2], {}, {})
        /\ Touches(Arm.secondary[3], {}, {}) /\ Touches(Arm.secondary[4], {}, {})
        /\ Touches(Arm.secondary[5], {}, {}) /\ Touches(Arm.secondary[6], {}, {})
    BY <2>1, DriverTouches, CodeTouches
  <2>3. Len(Arm.secondary) = 6 /\ Arm.secondary \in Seq(StepType)
    BY <2>1, PartsAreSteps, ArmFit
  <2> QED
    BY <2>2, <2>3 DEF Reaches
<1>3. Reaches(Arm.early, D, R)
  <2>1. /\ Len(Arm.early) = 6 /\ Arm.early[1] = init_trap /\ Arm.early[2] = pl011_init_early
        /\ Arm.early[3] = psci_init /\ Arm.early[4] = generic_timer_init_early
        /\ Arm.early[5] = pl011_write_bytes /\ Arm.early[6] = pl031_init_early
    BY <1>0 DEF ArmInitEarly
  <2>2. /\ Touches(Arm.early[1], D, R) /\ Touches(Arm.early[2], D, R) /\ Touches(Arm.early[3], D, R)
        /\ Touches(Arm.early[4], D, R) /\ Touches(Arm.early[5], D, R) /\ Touches(Arm.early[6], D, R)
    BY <2>1, <1>d, DriverTouches
  <2>3. Len(Arm.early) = 6 /\ Arm.early \in Seq(StepType)
    BY <2>1, PartsAreSteps, ArmFit
  <2> QED
    BY <2>2, <2>3 DEF Reaches
<1>4. Reaches(Arm.early_use, E, R)
  <2>1. /\ Len(Arm.early_use) = 2 /\ Arm.early_use[1] = pl011_write_bytes
        /\ Arm.early_use[2] = generic_timer_ticks_to_nanos
    BY <1>0 DEF GicEarlyUse
  <2>2. /\ Touches(Arm.early_use[1], E, R) /\ Touches(Arm.early_use[2], E, R)
    BY <2>1, <1>d, DriverTouches
  <2>3. Len(Arm.early_use) = 2 /\ Arm.early_use \in Seq(StepType)
    BY <2>1, PartsAreSteps, ArmFit
  <2> QED
    BY <2>2, <2>3 DEF Reaches
<1>5. Reaches(Arm.later, E, R)
  <2>1. /\ Len(Arm.later) = 3 /\ Arm.later[1] = init_gic /\ Arm.later[2] = init_gicc
        /\ Arm.later[3] = enable_irqs
    BY <1>0 DEF ArmInitLater
  <2>2. /\ Touches(Arm.later[1], E, R) /\ Touches(Arm.later[2], E, R) /\ Touches(Arm.later[3], E, R)
    BY <2>1, <1>d, DriverTouches
  <2>3. Len(Arm.later) = 3 /\ Arm.later \in Seq(StepType)
    BY <2>1, PartsAreSteps, ArmFit
  <2> QED
    BY <2>2, <2>3 DEF Reaches
<1>6. Reaches(Arm.later_use, E, R)
  <2>1. /\ Len(Arm.later_use) = 2 /\ Arm.later_use[1] = gic_handle_irq
        /\ Arm.later_use[2] = gic_send_ipi
    BY <1>0 DEF GicLaterUse
  <2>2. /\ Touches(Arm.later_use[1], E, R) /\ Touches(Arm.later_use[2], E, R)
    BY <2>1, <1>d, DriverTouches
  <2>3. Len(Arm.later_use) = 2 /\ Arm.later_use \in Seq(StepType)
    BY <2>1, PartsAreSteps, ArmFit
  <2> QED
    BY <2>2, <2>3 DEF Reaches
<1>7. Reaches(Arm.later_secondary, E, R)
  <2>1. /\ Len(Arm.later_secondary) = 2 /\ Arm.later_secondary[1] = init_gicc
        /\ Arm.later_secondary[2] = enable_irqs
    BY <1>0 DEF GicLaterSecondary
  <2>2. /\ Touches(Arm.later_secondary[1], E, R) /\ Touches(Arm.later_secondary[2], E, R)
    BY <2>1, <1>d, DriverTouches
  <2>3. Len(Arm.later_secondary) = 2 /\ Arm.later_secondary \in Seq(StepType)
    BY <2>1, PartsAreSteps, ArmFit
  <2> QED
    BY <2>2, <2>3 DEF Reaches
<1>8. Reaches(Arm.cpu_boot, E, R)
  <2>1. /\ Len(Arm.cpu_boot) = 1 /\ Arm.cpu_boot[1] = psci_cpu_on
    BY <1>0 DEF ArmCpuBoot
  <2>2. /\ Touches(Arm.cpu_boot[1], E, R)
    BY <2>1, <1>d, BootTouches
  <2>3. Len(Arm.cpu_boot) = 1 /\ Arm.cpu_boot \in Seq(StepType)
    BY <2>1, PartsAreSteps, ArmFit
  <2> QED
    BY <2>2, <2>3 DEF Reaches
<1>9. Touches(Arm.system_off, E, R)
  BY <1>0, <1>d, BootTouches
<1>10. /\ Len(Arm.start) = 8
      /\ Arm.start[3] = ArmPageTable
      /\ Arm.start[7] = ArmPageTableAfterMmu
      /\ \A k \in 1 .. 8 : /\ Arm.start[k].op = "table" <=> k \in {3, 7}
                           /\ Arm.start[k].op = "mmu" <=> k = 4
                           /\ Arm.start[k].op \in {"jump", "main", "sp_virt", "sp_high"} => k > 4
  <2>1. /\ Len(Arm.start) = 8 /\ Arm.start[1] = SetStack /\ Arm.start[2] = enable_fp
        /\ Arm.start[3] = ArmPageTable /\ Arm.start[4] = InitMmu /\ Arm.start[5] = JumpHigh
        /\ Arm.start[6] = StackHigh /\ Arm.start[7] = ArmPageTableAfterMmu
        /\ Arm.start[8] = CallMain
    BY <1>0 DEF ArmStart
  <2>2. /\ Arm.start[1].op = "sp" /\ Arm.start[2].op = "call" /\ Arm.start[3].op = "table"
        /\ Arm.start[4].op = "mmu" /\ Arm.start[5].op = "jump" /\ Arm.start[6].op = "sp_high"
        /\ Arm.start[7].op = "table" /\ Arm.start[8].op = "main"
    BY <2>1, Kinds, TableKinds
  <2> QED
    BY <2>1, <2>2
<1>11. /\ Len(Arm.secondary) = 6
      /\ \A k \in 1 .. 6 : /\ Arm.secondary[k].op = "table" <=> FALSE
                           /\ Arm.secondary[k].op = "mmu" <=> k = 3
                           /\ Arm.secondary[k].op \in {"jump", "main", "sp_virt", "sp_high"} => k > 3
  <2>1. /\ Len(Arm.secondary) = 6 /\ Arm.secondary[1] = SetStack /\ Arm.secondary[2] = enable_fp
        /\ Arm.secondary[3] = InitMmu /\ Arm.secondary[4] = JumpHigh /\ Arm.secondary[5] = StackHigh
        /\ Arm.secondary[6] = CallMain
    BY <1>0 DEF ArmStartSecondary
  <2>2. /\ Arm.secondary[1].op = "sp" /\ Arm.secondary[2].op = "call" /\ Arm.secondary[3].op = "mmu"
        /\ Arm.secondary[4].op = "jump" /\ Arm.secondary[5].op = "sp_high"
        /\ Arm.secondary[6].op = "main"
    BY <2>1, Kinds
  <2> QED
    BY <2>1, <2>2
<1>12. HighAfterMmu("arm", Arm.start) /\ HighAfterMmu("arm", Arm.secondary)
  BY <1>10, <1>11 DEF HighAfterMmu
<1>13. OneTable("arm", Arm.start)
  BY <1>10 DEF OneTable
<1>14. Written("arm", Arm.start, \h40000, \h400, "normal")
  <2>1. \A h \in Half : Entry(h, \h40000, \h400, "normal") \in Arm.start[3].map
    BY <1>10, TableMap, SMT DEF ArmPageTable, Half
  <2>2. TableAt(Arm.start, 3)
    BY <1>10 DEF TableAt
  <2> QED
    BY <2>1, <2>2, TableWritten, SMT
<1>15. ImageMapped("arm", Arm.start, Arm.kernel)
  <2>1. /\ Arm.kernel \in Nat
        /\ \h40000 <= Arm.kernel /\ Arm.kernel + Room["arm"] <= \h40000 + \h400
    BY <1>m, SMT DEF Room
  <2> QED
    BY <1>14, <2>1, ImageIn, SMT
<1>16. /\ Entry("high", 0, GB, "device") \in TableEntry
       /\ Wrote("arm", Arm.start, Len(Arm.start), Entry("high", 0, GB, "device"))
  <2>1. Entry("high", 0, GB, "device") \in Arm.start[7].map
    BY <1>10, TableMap, SMT DEF ArmPageTableAfterMmu
  <2>2. Entry("high", 0, GB, "device") \in TableEntry
    BY SMT DEF Entry, TableEntry, GB, Half
  <2> QED
    BY <1>10, <2>1, <2>2, SMT DEF Wrote
<1>17. PageMapped("arm", Arm.start, Arm.dev["uart"], "device")
  <2>1. /\ Arm.dev["uart"] \in Nat /\ GB \in Nat /\ 0 <= Arm.dev["uart"] /\ Arm.dev["uart"] + 1 <= 0 + GB
    BY <1>m, SMT DEF GB
  <2> QED
    BY <1>16, <2>1, PageIn, SMT
<1>18. PageMapped("arm", Arm.start, Arm.dev["rtc"], "device")
  <2>1. /\ Arm.dev["rtc"] \in Nat /\ GB \in Nat /\ 0 <= Arm.dev["rtc"] /\ Arm.dev["rtc"] + 1 <= 0 + GB
    BY <1>m, SMT DEF GB
  <2> QED
    BY <1>16, <2>1, PageIn, SMT
<1>19. PageMapped("arm", Arm.start, Arm.dev["gicd"], "device")
  <2>1. /\ Arm.dev["gicd"] \in Nat /\ GB \in Nat /\ 0 <= Arm.dev["gicd"] /\ Arm.dev["gicd"] + 1 <= 0 + GB
    BY <1>m, SMT DEF GB
  <2> QED
    BY <1>16, <2>1, PageIn, SMT
<1>20. PageMapped("arm", Arm.start, Arm.dev["gicc"], "device")
  <2>1. /\ Arm.dev["gicc"] \in Nat /\ GB \in Nat /\ 0 <= Arm.dev["gicc"] /\ Arm.dev["gicc"] + 1 <= 0 + GB
    BY <1>m, SMT DEF GB
  <2> QED
    BY <1>16, <2>1, PageIn, SMT
<1>21. Listed(Arm.memory.mmio, Arm.dev["uart"], 1)
  <2>1. <<\h9000, 1>> \in Arm.memory.mmio
    BY <1>m, SMT DEF ArmMemory
  <2>2. \h9000 <= Arm.dev["uart"] /\ Arm.dev["uart"] + 1 <= \h9000 + 1
    BY <1>m, SMT
  <2> QED
    BY <2>1, <2>2, SMT DEF Listed
<1>22. Listed(Arm.memory.mmio, Arm.dev["rtc"], 1)
  <2>1. <<\h9010, 1>> \in Arm.memory.mmio
    BY <1>m, SMT DEF ArmMemory
  <2>2. \h9010 <= Arm.dev["rtc"] /\ Arm.dev["rtc"] + 1 <= \h9010 + 1
    BY <1>m, SMT
  <2> QED
    BY <2>1, <2>2, SMT DEF Listed
<1>23. Listed(Arm.memory.mmio, Arm.dev["gicd"], 1)
  <2>1. <<\h8000, \h20>> \in Arm.memory.mmio
    BY <1>m, SMT DEF ArmMemory
  <2>2. \h8000 <= Arm.dev["gicd"] /\ Arm.dev["gicd"] + 1 <= \h8000 + \h20
    BY <1>m, SMT
  <2> QED
    BY <2>1, <2>2, SMT DEF Listed
<1>24. Listed(Arm.memory.mmio, Arm.dev["gicc"], 1)
  <2>1. <<\h8000, \h20>> \in Arm.memory.mmio
    BY <1>m, SMT DEF ArmMemory
  <2>2. \h8000 <= Arm.dev["gicc"] /\ Arm.dev["gicc"] + 1 <= \h8000 + \h20
    BY <1>m, SMT
  <2> QED
    BY <2>1, <2>2, SMT DEF Listed
<1>25. Listed(Arm.memory.ram \cup Arm.memory.reserved, Arm.kernel, Room["arm"])
  <2>1. <<\h40000, \h8000>> \in Arm.memory.ram \cup Arm.memory.reserved
    BY <1>m, SMT DEF ArmMemory
  <2>2. \h40000 <= Arm.kernel /\ Arm.kernel + Room["arm"] <= \h40000 + \h8000
    BY <1>m, SMT DEF Room
  <2> QED
    BY <2>1, <2>2, SMT DEF Listed
<1>26. /\ \A d \in D : PageMapped("arm", Arm.start, Arm.dev[d], "device")
       /\ \A r \in R : PageMapped("arm", Arm.start, r, "normal")
  BY <1>e, <1>17, <1>18, <1>19, <1>20
<1>27. /\ \A d \in E : Listed(Arm.memory.mmio, Arm.dev[d], 1)
       /\ \A r \in R : Listed(Arm.memory.ram \cup Arm.memory.reserved, r, 1)
  BY <1>e, <1>21, <1>22, <1>23, <1>24
<1>28. Layout("arm", Arm, D, E, R)
  BY <1>d, <1>1, <1>2, <1>3, <1>4, <1>5, <1>6, <1>7, <1>8, <1>9, <1>12, <1>13, <1>15, <1>25,
     <1>26, <1>27 DEF Layout
<1> QED
  BY <1>28 DEF D, E, R

\* loongarch64-qemu-virt: its devices and its pages.
LEMMA LoongLayout ==
  Layout("loong", Loong, {"uart", "rtc", "ged"},
         {"uart", "rtc", "ged"}, {})
<1> DEFINE D == {"uart", "rtc", "ged"}
           E == {"uart", "rtc", "ged"}
           R == {}
<1>0. /\ Loong.start = LoongStart /\ Loong.early = LoongInitEarly
      /\ Loong.early_use = <<LoongWriteBytes, LoongTicksToNanos>> /\ Loong.later = LoongInitLater
      /\ Loong.later_use = <<LoongHandleIrq>> /\ Loong.secondary = LoongStartSecondary
      /\ Loong.later_secondary = LoongInitLaterSecondary /\ Loong.cpu_boot = LoongCpuBoot
      /\ Loong.system_off = LoongSystemOff
  BY DEF Loong
<1>m. /\ Loong.kernel = \h80000 /\ Loong.memory = LoongMemory /\ Loong.dev.uart = \h1FE00
      /\ Loong.dev.rtc = \h100D0 /\ Loong.dev.ged = \h100E0
  BY SMT DEF Loong
<1>d. /\ "uart" \in D /\ "rtc" \in D /\ "ged" \in D /\ "uart" \in E /\ "rtc" \in E /\ "ged" \in E
      /\ E \subseteq D
  OBVIOUS
<1>e. /\ \A d \in D : d = "uart" \/ d = "rtc" \/ d = "ged"
      /\ \A d \in E : d = "uart" \/ d = "rtc" \/ d = "ged"
      /\ \A r \in R : FALSE
  OBVIOUS
<1> HIDE DEF D, E, R
<1>1. Reaches(Loong.start, {}, {})
  <2>1. /\ Len(Loong.start) = 5 /\ Loong.start[1] = Op("sp_virt") /\ Loong.start[2] = enable_fp
        /\ Loong.start[3] = LoongPageTable /\ Loong.start[4] = InitMmu /\ Loong.start[5] = CallMain
    BY <1>0 DEF LoongStart
  <2>2. /\ Touches(Loong.start[1], {}, {}) /\ Touches(Loong.start[2], {}, {})
        /\ Touches(Loong.start[3], {}, {}) /\ Touches(Loong.start[4], {}, {})
        /\ Touches(Loong.start[5], {}, {})
    BY <2>1, DriverTouches, OpTouches, CodeTouches
  <2>3. Len(Loong.start) = 5 /\ Loong.start \in Seq(StepType)
    BY <2>1, PartsAreSteps, LoongFit
  <2> QED
    BY <2>2, <2>3 DEF Reaches
<1>2. Reaches(Loong.secondary, {}, {})
  <2>1. /\ Len(Loong.secondary) = 4 /\ Loong.secondary[1] = Op("sp_virt")
        /\ Loong.secondary[2] = enable_fp /\ Loong.secondary[3] = InitMmu
        /\ Loong.secondary[4] = CallMain
    BY <1>0 DEF LoongStartSecondary
  <2>2. /\ Touches(Loong.secondary[1], {}, {}) /\ Touches(Loong.secondary[2], {}, {})
        /\ Touches(Loong.secondary[3], {}, {}) /\ Touches(Loong.secondary[4], {}, {})
    BY <2>1, DriverTouches, OpTouches, CodeTouches
  <2>3. Len(Loong.secondary) = 4 /\ Loong.secondary \in Seq(StepType)
    BY <2>1, PartsAreSteps, LoongFit
  <2> QED
    BY <2>2, <2>3 DEF Reaches
<1>3. Reaches(Loong.early, D, R)
  <2>1. /\ Len(Loong.early) = 3 /\ Loong.early[1] = init_trap /\ Loong.early[2] = LoongTimeInitEarly
        /\ Loong.early[3] = LoongInitRtc
    BY <1>0 DEF LoongInitEarly
  <2>2. /\ Touches(Loong.early[1], D, R) /\ Touches(Loong.early[2], D, R)
        /\ Touches(Loong.early[3], D, R)
    BY <2>1, <1>d, DriverTouches, LoongTouches
  <2>3. Len(Loong.early) = 3 /\ Loong.early \in Seq(StepType)
    BY <2>1, PartsAreSteps, LoongFit
  <2> QED
    BY <2>2, <2>3 DEF Reaches
<1>4. Reaches(Loong.early_use, E, R)
  <2>1. /\ Len(Loong.early_use) = 2 /\ Loong.early_use[1] = LoongWriteBytes
        /\ Loong.early_use[2] = LoongTicksToNanos
    BY <1>0
  <2>2. /\ Touches(Loong.early_use[1], E, R) /\ Touches(Loong.early_use[2], E, R)
    BY <2>1, <1>d, LoongTouches
  <2>3. Len(Loong.early_use) = 2 /\ Loong.early_use \in Seq(StepType)
    BY <2>1, PartsAreSteps, LoongFit
  <2> QED
    BY <2>2, <2>3 DEF Reaches
<1>5. Reaches(Loong.later, E, R)
  <2>1. /\ Len(Loong.later) = 2 /\ Loong.later[1] = LoongTimeInitPercpu
        /\ Loong.later[2] = LoongEnableIpi
    BY <1>0 DEF LoongInitLater
  <2>2. /\ Touches(Loong.later[1], E, R) /\ Touches(Loong.later[2], E, R)
    BY <2>1, <1>d, LoongTouches
  <2>3. Len(Loong.later) = 2 /\ Loong.later \in Seq(StepType)
    BY <2>1, PartsAreSteps, LoongFit
  <2> QED
    BY <2>2, <2>3 DEF Reaches
<1>6. Reaches(Loong.later_use, E, R)
  <2>1. /\ Len(Loong.later_use) = 1 /\ Loong.later_use[1] = LoongHandleIrq
    BY <1>0
  <2>2. /\ Touches(Loong.later_use[1], E, R)
    BY <2>1, <1>d, LoongTouches
  <2>3. Len(Loong.later_use) = 1 /\ Loong.later_use \in Seq(StepType)
    BY <2>1, PartsAreSteps, LoongFit
  <2> QED
    BY <2>2, <2>3 DEF Reaches
<1>7. Reaches(Loong.later_secondary, E, R)
  <2>1. /\ Len(Loong.later_secondary) = 2 /\ Loong.later_secondary[1] = LoongTimeInitPercpu
        /\ Loong.later_secondary[2] = LoongEnableIpi
    BY <1>0 DEF LoongInitLaterSecondary
  <2>2. /\ Touches(Loong.later_secondary[1], E, R) /\ Touches(Loong.later_secondary[2], E, R)
    BY <2>1, <1>d, LoongTouches
  <2>3. Len(Loong.later_secondary) = 2 /\ Loong.later_secondary \in Seq(StepType)
    BY <2>1, PartsAreSteps, LoongFit
  <2> QED
    BY <2>2, <2>3 DEF Reaches
<1>8. Reaches(Loong.cpu_boot, E, R)
  <2>1. /\ Len(Loong.cpu_boot) = 2 /\ Loong.cpu_boot[1] = PassStack /\ Loong.cpu_boot[2] = Release
    BY <1>0 DEF LoongCpuBoot
  <2>2. /\ Touches(Loong.cpu_boot[1], E, R) /\ Touches(Loong.cpu_boot[2], E, R)
    BY <2>1, <1>d, CodeTouches
  <2>3. Len(Loong.cpu_boot) = 2 /\ Loong.cpu_boot \in Seq(StepType)
    BY <2>1, PartsAreSteps, LoongFit
  <2> QED
    BY <2>2, <2>3 DEF Reaches
<1>9. Touches(Loong.system_off, E, R)
  BY <1>0, <1>d, BootTouches
<1>10. /\ Len(Loong.start) = 5
      /\ Loong.start[3] = LoongPageTable
      /\ \A k \in 1 .. 5 : /\ Loong.start[k].op = "table" <=> k = 3
                           /\ Loong.start[k].op = "mmu" <=> k = 4
  <2>1. /\ Len(Loong.start) = 5 /\ Loong.start[1] = Op("sp_virt") /\ Loong.start[2] = enable_fp
        /\ Loong.start[3] = LoongPageTable /\ Loong.start[4] = InitMmu /\ Loong.start[5] = CallMain
    BY <1>0 DEF LoongStart
  <2>2. /\ Loong.start[1].op = "sp_virt" /\ Loong.start[2].op = "call"
        /\ Loong.start[3].op = "table" /\ Loong.start[4].op = "mmu" /\ Loong.start[5].op = "main"
    BY <2>1, Kinds, TableKinds
  <2> QED
    BY <2>1, <2>2
<1>11. /\ Len(Loong.secondary) = 4
      /\ \A k \in 1 .. 4 : /\ Loong.secondary[k].op = "table" <=> FALSE
                           /\ Loong.secondary[k].op = "mmu" <=> k = 3
  <2>1. /\ Len(Loong.secondary) = 4 /\ Loong.secondary[1] = Op("sp_virt")
        /\ Loong.secondary[2] = enable_fp /\ Loong.secondary[3] = InitMmu
        /\ Loong.secondary[4] = CallMain
    BY <1>0 DEF LoongStartSecondary
  <2>2. /\ Loong.secondary[1].op = "sp_virt" /\ Loong.secondary[2].op = "call"
        /\ Loong.secondary[3].op = "mmu" /\ Loong.secondary[4].op = "main"
    BY <2>1, Kinds
  <2> QED
    BY <2>1, <2>2
<1>12. HighAfterMmu("loong", Loong.start) /\ HighAfterMmu("loong", Loong.secondary)
  BY <1>10, <1>11 DEF HighAfterMmu
<1>13. OneTable("loong", Loong.start)
  BY <1>10 DEF OneTable
<1>14. TableAt(Loong.start, 3)
  BY <1>10 DEF TableAt
<1>15. BlockWritten("loong", Loong.start, 0, "device")
  <2>1. HasBlock(Loong.start[3].map, 0, "device")
    BY <1>10, TableMap, SMT DEF LoongPageTable, Block, HasBlock, Half
  <2> QED
    BY <1>14, <2>1, TableBlock, SMT
<1>16. BlockWritten("loong", Loong.start, 2, "normal")
  <2>1. HasBlock(Loong.start[3].map, 2, "normal")
    BY <1>10, TableMap, SMT DEF LoongPageTable, Block, HasBlock, Half
  <2> QED
    BY <1>14, <2>1, TableBlock, SMT
<1>17. ImageMapped("loong", Loong.start, Loong.kernel)
  <2>1. /\ Loong.kernel \in Nat /\ 2 * GB <= Loong.kernel
        /\ Loong.kernel + Room["loong"] <= 2 * GB + GB
    BY <1>m, SMT DEF GB, Room
  <2> QED
    BY <1>16, <2>1, BlockImage, SMT
<1>18. PageMapped("loong", Loong.start, Loong.dev["uart"], "device")
  <2>1. /\ Loong.dev["uart"] \in Nat /\ 0 * GB <= Loong.dev["uart"]
        /\ Loong.dev["uart"] + 1 <= 0 * GB + GB
    BY <1>m, SMT DEF GB
  <2> QED
    BY <1>15, <2>1, BlockPage, SMT
<1>19. PageMapped("loong", Loong.start, Loong.dev["rtc"], "device")
  <2>1. /\ Loong.dev["rtc"] \in Nat /\ 0 * GB <= Loong.dev["rtc"]
        /\ Loong.dev["rtc"] + 1 <= 0 * GB + GB
    BY <1>m, SMT DEF GB
  <2> QED
    BY <1>15, <2>1, BlockPage, SMT
<1>20. PageMapped("loong", Loong.start, Loong.dev["ged"], "device")
  <2>1. /\ Loong.dev["ged"] \in Nat /\ 0 * GB <= Loong.dev["ged"]
        /\ Loong.dev["ged"] + 1 <= 0 * GB + GB
    BY <1>m, SMT DEF GB
  <2> QED
    BY <1>15, <2>1, BlockPage, SMT
<1>21. Listed(Loong.memory.mmio, Loong.dev["uart"], 1)
  <2>1. <<\h1FE00, 1>> \in Loong.memory.mmio
    BY <1>m, SMT DEF LoongMemory
  <2>2. \h1FE00 <= Loong.dev["uart"] /\ Loong.dev["uart"] + 1 <= \h1FE00 + 1
    BY <1>m, SMT
  <2> QED
    BY <2>1, <2>2, SMT DEF Listed
<1>22. Listed(Loong.memory.mmio, Loong.dev["rtc"], 1)
  <2>1. <<\h100D0, 1>> \in Loong.memory.mmio
    BY <1>m, SMT DEF LoongMemory
  <2>2. \h100D0 <= Loong.dev["rtc"] /\ Loong.dev["rtc"] + 1 <= \h100D0 + 1
    BY <1>m, SMT
  <2> QED
    BY <2>1, <2>2, SMT DEF Listed
<1>23. Listed(Loong.memory.mmio, Loong.dev["ged"], 1)
  <2>1. <<\h100E0, 1>> \in Loong.memory.mmio
    BY <1>m, SMT DEF LoongMemory
  <2>2. \h100E0 <= Loong.dev["ged"] /\ Loong.dev["ged"] + 1 <= \h100E0 + 1
    BY <1>m, SMT
  <2> QED
    BY <2>1, <2>2, SMT DEF Listed
<1>24. Listed(Loong.memory.ram \cup Loong.memory.reserved, Loong.kernel, Room["loong"])
  <2>1. <<\h80000, \h8000>> \in Loong.memory.ram \cup Loong.memory.reserved
    BY <1>m, SMT DEF LoongMemory
  <2>2. \h80000 <= Loong.kernel /\ Loong.kernel + Room["loong"] <= \h80000 + \h8000
    BY <1>m, SMT DEF Room
  <2> QED
    BY <2>1, <2>2, SMT DEF Listed
<1>25. /\ \A d \in D : PageMapped("loong", Loong.start, Loong.dev[d], "device")
       /\ \A r \in R : PageMapped("loong", Loong.start, r, "normal")
  BY <1>e, <1>18, <1>19, <1>20
<1>26. /\ \A d \in E : Listed(Loong.memory.mmio, Loong.dev[d], 1)
       /\ \A r \in R : Listed(Loong.memory.ram \cup Loong.memory.reserved, r, 1)
  BY <1>e, <1>21, <1>22, <1>23
<1>27. Layout("loong", Loong, D, E, R)
  BY <1>d, <1>1, <1>2, <1>3, <1>4, <1>5, <1>6, <1>7, <1>8, <1>9, <1>12, <1>13, <1>17, <1>24,
     <1>25, <1>26 DEF Layout
<1> QED
  BY <1>27 DEF D, E, R

\* riscv64-qemu-virt: its devices and its pages.
LEMMA RiscvLayout ==
  Layout("riscv", Riscv, {"rtc"},
         {"rtc"}, {})
<1> DEFINE D == {"rtc"}
           E == {"rtc"}
           R == {}
<1>0. /\ Riscv.start = RiscvStart /\ Riscv.early = RiscvInitEarly /\ Riscv.early_use = <<>>
      /\ Riscv.later = RiscvInitLater /\ Riscv.later_use = <<RiscvHandleIrq>>
      /\ Riscv.secondary = RiscvStartSecondary /\ Riscv.later_secondary = RiscvInitLaterSecondary
      /\ Riscv.cpu_boot = RiscvCpuBoot /\ Riscv.system_off = Op("off")
  BY DEF Riscv, Loong
<1>m. /\ Riscv.kernel = \h80200 /\ Riscv.memory = RiscvMemory /\ Riscv.dev.rtc = \h101
  BY SMT DEF Riscv, Loong
<1>d. /\ "rtc" \in D /\ "rtc" \in E /\ E \subseteq D
  OBVIOUS
<1>e. /\ \A d \in D : d = "rtc"
      /\ \A d \in E : d = "rtc"
      /\ \A r \in R : FALSE
  OBVIOUS
<1> HIDE DEF D, E, R
<1>1. Reaches(Riscv.start, {}, {})
  <2>1. /\ Len(Riscv.start) = 5 /\ Riscv.start[1] = SetStack /\ Riscv.start[2] = RiscvPageTable
        /\ Riscv.start[3] = InitMmu /\ Riscv.start[4] = StackHigh /\ Riscv.start[5] = CallMain
    BY <1>0 DEF RiscvStart
  <2>2. /\ Touches(Riscv.start[1], {}, {}) /\ Touches(Riscv.start[2], {}, {})
        /\ Touches(Riscv.start[3], {}, {}) /\ Touches(Riscv.start[4], {}, {})
        /\ Touches(Riscv.start[5], {}, {})
    BY <2>1, CodeTouches
  <2>3. Len(Riscv.start) = 5 /\ Riscv.start \in Seq(StepType)
    BY <2>1, PartsAreSteps, RiscvFit
  <2> QED
    BY <2>2, <2>3 DEF Reaches
<1>2. Reaches(Riscv.secondary, {}, {})
  <2>1. /\ Len(Riscv.secondary) = 4 /\ Riscv.secondary[1] = SetStack /\ Riscv.secondary[2] = InitMmu
        /\ Riscv.secondary[3] = StackHigh /\ Riscv.secondary[4] = CallMain
    BY <1>0 DEF RiscvStartSecondary
  <2>2. /\ Touches(Riscv.secondary[1], {}, {}) /\ Touches(Riscv.secondary[2], {}, {})
        /\ Touches(Riscv.secondary[3], {}, {}) /\ Touches(Riscv.secondary[4], {}, {})
    BY <2>1, CodeTouches
  <2>3. Len(Riscv.secondary) = 4 /\ Riscv.secondary \in Seq(StepType)
    BY <2>1, PartsAreSteps, RiscvFit
  <2> QED
    BY <2>2, <2>3 DEF Reaches
<1>3. Reaches(Riscv.early, D, R)
  <2>1. /\ Len(Riscv.early) = 2 /\ Riscv.early[1] = init_trap /\ Riscv.early[2] = RiscvTimeInitEarly
    BY <1>0 DEF RiscvInitEarly
  <2>2. /\ Touches(Riscv.early[1], D, R) /\ Touches(Riscv.early[2], D, R)
    BY <2>1, <1>d, DriverTouches, RiscvTouches
  <2>3. Len(Riscv.early) = 2 /\ Riscv.early \in Seq(StepType)
    BY <2>1, PartsAreSteps, RiscvFit
  <2> QED
    BY <2>2, <2>3 DEF Reaches
<1>4. Reaches(Riscv.early_use, E, R)
  BY <1>0, PartsAreSteps, RiscvFit DEF Reaches
<1>5. Reaches(Riscv.later, E, R)
  <2>1. /\ Len(Riscv.later) = 2 /\ Riscv.later[1] = RiscvIrqInitPercpu
        /\ Riscv.later[2] = RiscvTimeInitPercpu
    BY <1>0 DEF RiscvInitLater
  <2>2. /\ Touches(Riscv.later[1], E, R) /\ Touches(Riscv.later[2], E, R)
    BY <2>1, <1>d, RiscvTouches
  <2>3. Len(Riscv.later) = 2 /\ Riscv.later \in Seq(StepType)
    BY <2>1, PartsAreSteps, RiscvFit
  <2> QED
    BY <2>2, <2>3 DEF Reaches
<1>6. Reaches(Riscv.later_use, E, R)
  <2>1. /\ Len(Riscv.later_use) = 1 /\ Riscv.later_use[1] = RiscvHandleIrq
    BY <1>0
  <2>2. /\ Touches(Riscv.later_use[1], E, R)
    BY <2>1, <1>d, RiscvTouches
  <2>3. Len(Riscv.later_use) = 1 /\ Riscv.later_use \in Seq(StepType)
    BY <2>1, PartsAreSteps, RiscvFit
  <2> QED
    BY <2>2, <2>3 DEF Reaches
<1>7. Reaches(Riscv.later_secondary, E, R)
  <2>1. /\ Len(Riscv.later_secondary) = 2 /\ Riscv.later_secondary[1] = RiscvIrqInitPercpu
        /\ Riscv.later_secondary[2] = RiscvTimeInitPercpu
    BY <1>0 DEF RiscvInitLaterSecondary
  <2>2. /\ Touches(Riscv.later_secondary[1], E, R) /\ Touches(Riscv.later_secondary[2], E, R)
    BY <2>1, <1>d, RiscvTouches
  <2>3. Len(Riscv.later_secondary) = 2 /\ Riscv.later_secondary \in Seq(StepType)
    BY <2>1, PartsAreSteps, RiscvFit
  <2> QED
    BY <2>2, <2>3 DEF Reaches
<1>8. Reaches(Riscv.cpu_boot, E, R)
  <2>1. /\ Len(Riscv.cpu_boot) = 1 /\ Riscv.cpu_boot[1] = Release
    BY <1>0 DEF RiscvCpuBoot
  <2>2. /\ Touches(Riscv.cpu_boot[1], E, R)
    BY <2>1, <1>d, CodeTouches
  <2>3. Len(Riscv.cpu_boot) = 1 /\ Riscv.cpu_boot \in Seq(StepType)
    BY <2>1, PartsAreSteps, RiscvFit
  <2> QED
    BY <2>2, <2>3 DEF Reaches
<1>9. Touches(Riscv.system_off, E, R)
  BY <1>0, <1>d, OpTouches
<1>10. /\ Len(Riscv.start) = 5
      /\ Riscv.start[2] = RiscvPageTable
      /\ \A k \in 1 .. 5 : /\ Riscv.start[k].op = "table" <=> k = 2
                           /\ Riscv.start[k].op = "mmu" <=> k = 3
                           /\ Riscv.start[k].op \in {"jump", "main", "sp_virt", "sp_high"} => k > 3
  <2>1. /\ Len(Riscv.start) = 5 /\ Riscv.start[1] = SetStack /\ Riscv.start[2] = RiscvPageTable
        /\ Riscv.start[3] = InitMmu /\ Riscv.start[4] = StackHigh /\ Riscv.start[5] = CallMain
    BY <1>0 DEF RiscvStart
  <2>2. /\ Riscv.start[1].op = "sp" /\ Riscv.start[2].op = "table" /\ Riscv.start[3].op = "mmu"
        /\ Riscv.start[4].op = "sp_high" /\ Riscv.start[5].op = "main"
    BY <2>1, Kinds, TableKinds
  <2> QED
    BY <2>1, <2>2
<1>11. /\ Len(Riscv.secondary) = 4
      /\ \A k \in 1 .. 4 : /\ Riscv.secondary[k].op = "table" <=> FALSE
                           /\ Riscv.secondary[k].op = "mmu" <=> k = 2
                           /\ Riscv.secondary[k].op \in {"jump", "main", "sp_virt", "sp_high"} => k > 2
  <2>1. /\ Len(Riscv.secondary) = 4 /\ Riscv.secondary[1] = SetStack /\ Riscv.secondary[2] = InitMmu
        /\ Riscv.secondary[3] = StackHigh /\ Riscv.secondary[4] = CallMain
    BY <1>0 DEF RiscvStartSecondary
  <2>2. /\ Riscv.secondary[1].op = "sp" /\ Riscv.secondary[2].op = "mmu"
        /\ Riscv.secondary[3].op = "sp_high" /\ Riscv.secondary[4].op = "main"
    BY <2>1, Kinds
  <2> QED
    BY <2>1, <2>2
<1>12. HighAfterMmu("riscv", Riscv.start) /\ HighAfterMmu("riscv", Riscv.secondary)
  BY <1>10, <1>11 DEF HighAfterMmu
<1>13. OneTable("riscv", Riscv.start)
  BY <1>10 DEF OneTable
<1>14. TableAt(Riscv.start, 2)
  BY <1>10 DEF TableAt
<1>15. BlockWritten("riscv", Riscv.start, 0, "any")
  <2>1. HasBlock(Riscv.start[2].map, 0, "any")
    BY <1>10, TableMap, SMT DEF RiscvPageTable, HasBlock, Half
  <2> QED
    BY <1>14, <2>1, TableBlock, SMT
<1>16. BlockWritten("riscv", Riscv.start, 2, "any")
  <2>1. HasBlock(Riscv.start[2].map, 2, "any")
    BY <1>10, TableMap, SMT DEF RiscvPageTable, HasBlock, Half
  <2> QED
    BY <1>14, <2>1, TableBlock, SMT
<1>17. ImageMapped("riscv", Riscv.start, Riscv.kernel)
  <2>1. /\ Riscv.kernel \in Nat /\ 2 * GB <= Riscv.kernel
        /\ Riscv.kernel + Room["riscv"] <= 2 * GB + GB
    BY <1>m, SMT DEF GB, Room
  <2> QED
    BY <1>16, <2>1, BlockImage, SMT
<1>18. PageMapped("riscv", Riscv.start, Riscv.dev["rtc"], "device")
  <2>1. /\ Riscv.dev["rtc"] \in Nat /\ 0 * GB <= Riscv.dev["rtc"]
        /\ Riscv.dev["rtc"] + 1 <= 0 * GB + GB
    BY <1>m, SMT DEF GB
  <2> QED
    BY <1>15, <2>1, BlockPage, SMT
<1>19. Listed(Riscv.memory.mmio, Riscv.dev["rtc"], 1)
  <2>1. <<\h101, 1>> \in Riscv.memory.mmio
    BY <1>m, SMT DEF RiscvMemory
  <2>2. \h101 <= Riscv.dev["rtc"] /\ Riscv.dev["rtc"] + 1 <= \h101 + 1
    BY <1>m, SMT
  <2> QED
    BY <2>1, <2>2, SMT DEF Listed
<1>20. Listed(Riscv.memory.ram \cup Riscv.memory.reserved, Riscv.kernel, Room["riscv"])
  <2>1. <<\h80200, \h7E00>> \in Riscv.memory.ram \cup Riscv.memory.reserved
    BY <1>m, SMT DEF RiscvMemory
  <2>2. \h80200 <= Riscv.kernel /\ Riscv.kernel + Room["riscv"] <= \h80200 + \h7E00
    BY <1>m, SMT DEF Room
  <2> QED
    BY <2>1, <2>2, SMT DEF Listed
<1>21. /\ \A d \in D : PageMapped("riscv", Riscv.start, Riscv.dev[d], "device")
       /\ \A r \in R : PageMapped("riscv", Riscv.start, r, "normal")
  BY <1>e, <1>18
<1>22. /\ \A d \in E : Listed(Riscv.memory.mmio, Riscv.dev[d], 1)
       /\ \A r \in R : Listed(Riscv.memory.ram \cup Riscv.memory.reserved, r, 1)
  BY <1>e, <1>19
<1>23. Layout("riscv", Riscv, D, E, R)
  BY <1>d, <1>1, <1>2, <1>3, <1>4, <1>5, <1>6, <1>7, <1>8, <1>9, <1>12, <1>13, <1>17, <1>20,
     <1>21, <1>22 DEF Layout
<1> QED
  BY <1>23 DEF D, E, R

\* x86-pc: its devices and its pages.
LEMMA X86Layout ==
  Layout("x86", X86, {"lapic", "ioapic"},
         {"lapic", "ioapic"}, {6, \h9})
<1> DEFINE D == {"lapic", "ioapic"}
           E == {"lapic", "ioapic"}
           R == {6, \h9}
<1>0. /\ X86.start = X86Start /\ X86.early = X86InitEarly
      /\ X86.early_use = <<X86WriteBytes, X86CurrentTicks>> /\ X86.later = X86InitLater
      /\ X86.later_use = <<X86SetOneshotTimer, X86SetEnable>> /\ X86.secondary = X86StartSecondary
      /\ X86.later_secondary = X86InitLaterSecondary /\ X86.cpu_boot = X86CpuBoot
      /\ X86.system_off = Op("off")
  BY DEF X86, Loong
<1>m. /\ X86.kernel = \h200 /\ X86.memory = X86Memory /\ X86.dev.lapic = \hFEE00
      /\ X86.dev.ioapic = \hFEC00
  BY SMT DEF X86, Loong
<1>d. /\ "lapic" \in D /\ "ioapic" \in D /\ "lapic" \in E /\ "ioapic" \in E /\ 6 \in R /\ \h9 \in R
      /\ E \subseteq D
  OBVIOUS
<1>e. /\ \A d \in D : d = "lapic" \/ d = "ioapic"
      /\ \A d \in E : d = "lapic" \/ d = "ioapic"
      /\ \A r \in R : r = 6 \/ r = \h9
  OBVIOUS
<1> HIDE DEF D, E, R
<1>1. Reaches(X86.start, {}, {})
  <2>1. /\ Len(X86.start) = 4 /\ X86.start[1] = enable_fp /\ X86.start[2] = InitMmu
        /\ X86.start[3] = Op("sp_virt") /\ X86.start[4] = CallMain
    BY <1>0 DEF X86Start, X86Cr4, X86Cr0, rust_entry
  <2>2. /\ Touches(X86.start[1], {}, {}) /\ Touches(X86.start[2], {}, {})
        /\ Touches(X86.start[3], {}, {}) /\ Touches(X86.start[4], {}, {})
    BY <2>1, DriverTouches, OpTouches, CodeTouches DEF X86Cr4, X86Cr0, rust_entry, rust_entry_secondary
  <2>3. Len(X86.start) = 4 /\ X86.start \in Seq(StepType)
    BY <2>1, PartsAreSteps, X86Fit
  <2> QED
    BY <2>2, <2>3 DEF Reaches
<1>2. Reaches(X86.secondary, {}, {})
  <2>1. /\ Len(X86.secondary) = 5 /\ X86.secondary[1] = SetStack /\ X86.secondary[2] = enable_fp
        /\ X86.secondary[3] = InitMmu /\ X86.secondary[4] = StackHigh /\ X86.secondary[5] = CallMain
    BY <1>0 DEF X86StartSecondary, X86Cr4, X86Cr0, rust_entry_secondary
  <2>2. /\ Touches(X86.secondary[1], {}, {}) /\ Touches(X86.secondary[2], {}, {})
        /\ Touches(X86.secondary[3], {}, {}) /\ Touches(X86.secondary[4], {}, {})
        /\ Touches(X86.secondary[5], {}, {})
    BY <2>1, DriverTouches, CodeTouches DEF X86Cr4, X86Cr0, rust_entry, rust_entry_secondary
  <2>3. Len(X86.secondary) = 5 /\ X86.secondary \in Seq(StepType)
    BY <2>1, PartsAreSteps, X86Fit
  <2> QED
    BY <2>2, <2>3 DEF Reaches
<1>3. Reaches(X86.early, D, R)
  <2>1. /\ Len(X86.early) = 4 /\ X86.early[1] = init_trap /\ X86.early[2] = X86ConsoleInit
        /\ X86.early[3] = X86TimeInitEarly /\ X86.early[4] = X86MemInit
    BY <1>0 DEF X86InitEarly
  <2>2. /\ Touches(X86.early[1], D, R) /\ Touches(X86.early[2], D, R) /\ Touches(X86.early[3], D, R)
        /\ Touches(X86.early[4], D, R)
    BY <2>1, <1>d, DriverTouches, X86Touches
  <2>3. Len(X86.early) = 4 /\ X86.early \in Seq(StepType)
    BY <2>1, PartsAreSteps, X86Fit
  <2> QED
    BY <2>2, <2>3 DEF Reaches
<1>4. Reaches(X86.early_use, E, R)
  <2>1. /\ Len(X86.early_use) = 2 /\ X86.early_use[1] = X86WriteBytes
        /\ X86.early_use[2] = X86CurrentTicks
    BY <1>0
  <2>2. /\ Touches(X86.early_use[1], E, R) /\ Touches(X86.early_use[2], E, R)
    BY <2>1, <1>d, X86Touches
  <2>3. Len(X86.early_use) = 2 /\ X86.early_use \in Seq(StepType)
    BY <2>1, PartsAreSteps, X86Fit
  <2> QED
    BY <2>2, <2>3 DEF Reaches
<1>5. Reaches(X86.later, E, R)
  <2>1. /\ Len(X86.later) = 2 /\ X86.later[1] = X86ApicInitPrimary
        /\ X86.later[2] = X86TimeInitPrimary
    BY <1>0 DEF X86InitLater
  <2>2. /\ Touches(X86.later[1], E, R) /\ Touches(X86.later[2], E, R)
    BY <2>1, <1>d, X86Touches
  <2>3. Len(X86.later) = 2 /\ X86.later \in Seq(StepType)
    BY <2>1, PartsAreSteps, X86Fit
  <2> QED
    BY <2>2, <2>3 DEF Reaches
<1>6. Reaches(X86.later_use, E, R)
  <2>1. /\ Len(X86.later_use) = 2 /\ X86.later_use[1] = X86SetOneshotTimer
        /\ X86.later_use[2] = X86SetEnable
    BY <1>0
  <2>2. /\ Touches(X86.later_use[1], E, R) /\ Touches(X86.later_use[2], E, R)
    BY <2>1, <1>d, X86Touches
  <2>3. Len(X86.later_use) = 2 /\ X86.later_use \in Seq(StepType)
    BY <2>1, PartsAreSteps, X86Fit
  <2> QED
    BY <2>2, <2>3 DEF Reaches
<1>7. Reaches(X86.later_secondary, E, R)
  <2>1. /\ Len(X86.later_secondary) = 2 /\ X86.later_secondary[1] = X86ApicInitSecondary
        /\ X86.later_secondary[2] = X86TimeInitSecondary
    BY <1>0 DEF X86InitLaterSecondary
  <2>2. /\ Touches(X86.later_secondary[1], E, R) /\ Touches(X86.later_secondary[2], E, R)
    BY <2>1, <1>d, X86Touches
  <2>3. Len(X86.later_secondary) = 2 /\ X86.later_secondary \in Seq(StepType)
    BY <2>1, PartsAreSteps, X86Fit
  <2> QED
    BY <2>2, <2>3 DEF Reaches
<1>8. Reaches(X86.cpu_boot, E, R)
  <2>1. /\ Len(X86.cpu_boot) = 2 /\ X86.cpu_boot[1] = [PassStack EXCEPT !.ram = {6}]
        /\ X86.cpu_boot[2] = [Release EXCEPT !.uses = {"LOCAL_APIC", "INIT_TICK"}, !.dev = {"lapic"}]
    BY <1>0 DEF X86CpuBoot
  <2>2. /\ Touches(X86.cpu_boot[1], E, R) /\ Touches(X86.cpu_boot[2], E, R)
    BY <2>1, <1>d, BootTouches
  <2>3. Len(X86.cpu_boot) = 2 /\ X86.cpu_boot \in Seq(StepType)
    BY <2>1, PartsAreSteps, X86Fit
  <2> QED
    BY <2>2, <2>3 DEF Reaches
<1>9. Touches(X86.system_off, E, R)
  BY <1>0, <1>d, OpTouches
<1>10. /\ Len(X86.start) = 4
      /\ \A k \in 1 .. 4 : /\ X86.start[k].op = "table" <=> FALSE
                           /\ X86.start[k].op = "mmu" <=> k = 2
                           /\ X86.start[k].op \in {"jump", "main", "sp_virt", "sp_high"} => k > 2
  <2>1. /\ Len(X86.start) = 4 /\ X86.start[1] = enable_fp /\ X86.start[2] = InitMmu
        /\ X86.start[3] = Op("sp_virt") /\ X86.start[4] = CallMain
    BY <1>0 DEF X86Start, X86Cr4, X86Cr0, rust_entry
  <2>2. /\ X86.start[1].op = "call" /\ X86.start[2].op = "mmu" /\ X86.start[3].op = "sp_virt"
        /\ X86.start[4].op = "main"
    BY <2>1, Kinds DEF X86Cr4, X86Cr0, rust_entry, rust_entry_secondary
  <2> QED
    BY <2>1, <2>2
<1>11. /\ Len(X86.secondary) = 5
      /\ \A k \in 1 .. 5 : /\ X86.secondary[k].op = "table" <=> FALSE
                           /\ X86.secondary[k].op = "mmu" <=> k = 3
                           /\ X86.secondary[k].op \in {"jump", "main", "sp_virt", "sp_high"} => k > 3
  <2>1. /\ Len(X86.secondary) = 5 /\ X86.secondary[1] = SetStack /\ X86.secondary[2] = enable_fp
        /\ X86.secondary[3] = InitMmu /\ X86.secondary[4] = StackHigh /\ X86.secondary[5] = CallMain
    BY <1>0 DEF X86StartSecondary, X86Cr4, X86Cr0, rust_entry_secondary
  <2>2. /\ X86.secondary[1].op = "sp" /\ X86.secondary[2].op = "call" /\ X86.secondary[3].op = "mmu"
        /\ X86.secondary[4].op = "sp_high" /\ X86.secondary[5].op = "main"
    BY <2>1, Kinds DEF X86Cr4, X86Cr0, rust_entry, rust_entry_secondary
  <2> QED
    BY <2>1, <2>2
<1>12. HighAfterMmu("x86", X86.start) /\ HighAfterMmu("x86", X86.secondary)
  BY <1>10, <1>11 DEF HighAfterMmu
<1>13. OneTable("x86", X86.start)
  BY <1>10 DEF OneTable
<1>14. /\ 0 \in Nat /\ 512 * GB \in Nat /\ X86.kernel \in Nat
       /\ 0 <= X86.kernel /\ X86.kernel + Room["x86"] <= 0 + 512 * GB
  BY <1>m, SMT DEF GB, Room
<1>15. Written("x86", X86.start, 0, 512 * GB, "any")
  <2> SUFFICES ASSUME NEW h \in Half
               PROVE  /\ Entry(h, 0, 512 * GB, "any") \in TableEntry
                      /\ Entry(h, 0, 512 * GB, "any") \in X86PageTable
    BY DEF Written, Wrote
  <2>1. Entry(h, 0, 512 * GB, "any") \in TableEntry
    BY <1>14, SMT DEF Entry, TableEntry
  <2>2. Entry(h, 0, 512 * GB, "any") \in X86PageTable
    BY SMT DEF X86PageTable, Half
  <2> QED
    BY <2>1, <2>2
<1>16. ImageMapped("x86", X86.start, X86.kernel)
  BY <1>14, <1>15, ImageIn, SMT
<1>17. PageMapped("x86", X86.start, X86.dev["lapic"], "device")
  <2>1. /\ X86.dev["lapic"] \in Nat
        /\ 0 <= X86.dev["lapic"] /\ X86.dev["lapic"] + 1 <= 0 + 512 * GB
    BY <1>m, SMT DEF GB
  <2> QED
    BY <1>14, <1>15, <2>1, WrittenPage, SMT
<1>18. PageMapped("x86", X86.start, X86.dev["ioapic"], "device")
  <2>1. /\ X86.dev["ioapic"] \in Nat
        /\ 0 <= X86.dev["ioapic"] /\ X86.dev["ioapic"] + 1 <= 0 + 512 * GB
    BY <1>m, SMT DEF GB
  <2> QED
    BY <1>14, <1>15, <2>1, WrittenPage, SMT
<1>19. PageMapped("x86", X86.start, 6, "normal")
  <2>1. 6 \in Nat /\ 0 <= 6 /\ 6 + 1 <= 0 + 512 * GB
    BY SMT DEF GB
  <2> QED
    BY <1>14, <1>15, <2>1, WrittenPage, SMT
<1>20. PageMapped("x86", X86.start, \h9, "normal")
  <2>1. \h9 \in Nat /\ 0 <= \h9 /\ \h9 + 1 <= 0 + 512 * GB
    BY SMT DEF GB
  <2> QED
    BY <1>14, <1>15, <2>1, WrittenPage, SMT
<1>21. Listed(X86.memory.mmio, X86.dev["lapic"], 1)
  <2>1. <<\hFEE00, 1>> \in X86.memory.mmio
    BY <1>m, SMT DEF X86Memory
  <2>2. \hFEE00 <= X86.dev["lapic"] /\ X86.dev["lapic"] + 1 <= \hFEE00 + 1
    BY <1>m, SMT
  <2> QED
    BY <2>1, <2>2, SMT DEF Listed
<1>22. Listed(X86.memory.mmio, X86.dev["ioapic"], 1)
  <2>1. <<\hFEC00, 1>> \in X86.memory.mmio
    BY <1>m, SMT DEF X86Memory
  <2>2. \hFEC00 <= X86.dev["ioapic"] /\ X86.dev["ioapic"] + 1 <= \hFEC00 + 1
    BY <1>m, SMT
  <2> QED
    BY <2>1, <2>2, SMT DEF Listed
<1>23. Listed(X86.memory.ram \cup X86.memory.reserved, 6, 1)
  <2>1. <<0, \h9F>> \in X86.memory.ram \cup X86.memory.reserved
    BY <1>m, SMT DEF X86Memory
  <2> QED
    BY <2>1, SMT DEF Listed
<1>24. Listed(X86.memory.ram \cup X86.memory.reserved, \h9, 1)
  <2>1. <<0, \h9F>> \in X86.memory.ram \cup X86.memory.reserved
    BY <1>m, SMT DEF X86Memory
  <2> QED
    BY <2>1, SMT DEF Listed
<1>25. Listed(X86.memory.ram \cup X86.memory.reserved, X86.kernel, Room["x86"])
  <2>1. <<\h100, \h7F00>> \in X86.memory.ram \cup X86.memory.reserved
    BY <1>m, SMT DEF X86Memory
  <2>2. \h100 <= X86.kernel /\ X86.kernel + Room["x86"] <= \h100 + \h7F00
    BY <1>m, SMT DEF Room
  <2> QED
    BY <2>1, <2>2, SMT DEF Listed
<1>26. /\ \A d \in D : PageMapped("x86", X86.start, X86.dev[d], "device")
       /\ \A r \in R : PageMapped("x86", X86.start, r, "normal")
  BY <1>e, <1>17, <1>18, <1>19, <1>20
<1>27. /\ \A d \in E : Listed(X86.memory.mmio, X86.dev[d], 1)
       /\ \A r \in R : Listed(X86.memory.ram \cup X86.memory.reserved, r, 1)
  BY <1>e, <1>21, <1>22, <1>23, <1>24
<1>28. Layout("x86", X86, D, E, R)
  BY <1>d, <1>1, <1>2, <1>3, <1>4, <1>5, <1>6, <1>7, <1>8, <1>9, <1>12, <1>13, <1>16, <1>25,
     <1>26, <1>27 DEF Layout
<1> QED
  BY <1>28 DEF D, E, R

\* Every platform has a layout.
LEMMA CodeIsLaidOut ==
  ASSUME NEW p \in DOMAIN Code
  PROVE  \E D, E, R : Layout(p, Code[p], D, E, R)
<1>1. p \in {"virt", "bsta", "phytium", "raspi", "arm", "loong", "riscv", "x86"}
  BY DEF Code
<1>2. /\ Code["virt"] = Virt /\ Code["bsta"] = Bsta /\ Code["phytium"] = Phytium
      /\ Code["raspi"] = Raspi /\ Code["arm"] = Arm /\ Code["loong"] = Loong
      /\ Code["riscv"] = Riscv /\ Code["x86"] = X86
  BY DEF Code
<1>3. ASSUME NEW D, NEW E, NEW R, Layout(p, Code[p], D, E, R)
      PROVE  \E D1, E1, R1 : Layout(p, Code[p], D1, E1, R1)
  BY <1>3
<1>4. CASE p = "virt"
  BY <1>2, <1>3, <1>4, VirtLayout
<1>5. CASE p = "bsta"
  BY <1>2, <1>3, <1>5, BstaLayout
<1>6. CASE p = "phytium"
  BY <1>2, <1>3, <1>6, PhytiumLayout
<1>7. CASE p = "raspi"
  BY <1>2, <1>3, <1>7, RaspiLayout
<1>8. CASE p = "arm"
  BY <1>2, <1>3, <1>8, ArmLayout
<1>9. CASE p = "loong"
  BY <1>2, <1>3, <1>9, LoongLayout
<1>10. CASE p = "riscv"
  BY <1>2, <1>3, <1>10, RiscvLayout
<1>11. CASE p = "x86"
  BY <1>2, <1>3, <1>11, X86Layout
<1> QED
  BY <1>1, <1>4, <1>5, <1>6, <1>7, <1>8, <1>9, <1>10, <1>11

LEMMA HereIsLaidOut ==
  ASSUME ConfInv
  PROVE  \E D, E, R : Layout(conf.platform, Here, D, E, R)
BY CodeIsLaidOut, PlatformsAssumption, SMT DEF ConfInv, Here

-----------------------------------------------------------------------------
(* What a program accesses, before and behind the switch to the kernel's   *)
(* page table.                                                             *)

\* s accesses the devices D, and only E behind the switch.
Split(s, D, E, R) ==
    /\ s \in Seq(StepType)
    /\ \A k \in 1 .. Len(s) :
         /\ Touches(s[k], D, R)
         /\ (\E j \in 1 .. Len(s) : j < k /\ s[j].op = "remap") => Touches(s[k], E, R)

LEMMA ReachesMore ==
  ASSUME NEW s, NEW D, NEW E, NEW R, NEW Q, E \subseteq D, Q \subseteq R, Reaches(s, E, Q)
  PROVE  Reaches(s, D, R)
BY DEF Reaches, Touches

\* Code without a switch.
LEMMA CallsSplit ==
  ASSUME NEW s, NEW D, NEW E, NEW R, Reaches(s, D, R),
         \A k \in 1 .. Len(s) : s[k].op # "remap"
  PROVE  Split(s, D, E, R)
BY DEF Split, Reaches

\* Code that accesses only E may follow, with or without a switch.
LEMMA SplitOn ==
  ASSUME NEW s, NEW t, NEW D, NEW E, NEW R, E \subseteq D, Split(s, D, E, R), Reaches(t, E, R)
  PROVE  Split(s \o t, D, E, R)
<1> DEFINE u == s \o t
<1>1. /\ s \in Seq(StepType) /\ t \in Seq(StepType)
      /\ \A k \in 1 .. Len(t) : Touches(t[k], E, R)
  BY DEF Split, Reaches
<1>2. /\ u \in Seq(StepType) /\ Len(s) \in Nat /\ Len(t) \in Nat /\ Len(u) = Len(s) + Len(t)
      /\ \A k \in 1 .. Len(s) : u[k] = s[k]
      /\ \A k \in 1 .. Len(t) : u[Len(s) + k] = t[k]
  BY <1>1, Joined DEF JoinOf
<1> HIDE DEF u
<1>3. ASSUME NEW k \in 1 .. Len(u)
      PROVE  /\ Touches(u[k], D, R)
             /\ (\E j \in 1 .. Len(u) : j < k /\ u[j].op = "remap") => Touches(u[k], E, R)
  <2>1. CASE k <= Len(s)
    <3>1. k \in 1 .. Len(s)
      BY <1>2, <2>1
    <3>2. /\ Touches(s[k], D, R)
          /\ (\E j \in 1 .. Len(s) : j < k /\ s[j].op = "remap") => Touches(s[k], E, R)
      BY <3>1 DEF Split
    <3>3. \A j \in 1 .. Len(u) : j < k => j \in 1 .. Len(s) /\ u[j] = s[j]
      BY <1>2, <3>1
    <3> QED
      BY <1>2, <3>1, <3>2, <3>3
  <2>2. CASE ~(k <= Len(s))
    <3>1. k - Len(s) \in 1 .. Len(t) /\ Len(s) + (k - Len(s)) = k
      BY <1>2, <2>2
    <3>2. Touches(u[k], E, R)
      BY <1>1, <1>2, <3>1
    <3> QED
      BY <3>2 DEF Touches
  <2> QED
    BY <2>1, <2>2
<1>4. Split(u, D, E, R)
  BY <1>2, <1>3 DEF Split
<1> QED
  BY <1>4 DEF u

\* What the CPUs execute straight through.
LEMMA StraightSplits ==
  ASSUME ConfInv, NEW D, NEW E, NEW R, Layout(conf.platform, Here, D, E, R)
  PROVE  \A c \in CPU : Split(Straight[c], D, E, R)
<1>1. /\ E \subseteq D
      /\ Reaches(Here.start, {}, {}) /\ Reaches(Here.secondary, {}, {})
      /\ Reaches(Here.early, D, R) /\ Reaches(Here.early_use, E, R)
      /\ Reaches(Here.later, E, R) /\ Reaches(Here.later_use, E, R)
      /\ Reaches(Here.later_secondary, E, R)
  BY Zenon DEF Layout
<1>2. Reaches(MayRemap, E, R)
  <2>1. MayRemap \in Seq(StepType)
    BY RemapSteps, StepsOf
  <2>2. Touches(Remap, E, R)
    BY DEF Touches, Remap, Op, Plain
  <2>3. \A k \in 1 .. Len(MayRemap) : MayRemap[k] = Remap
    BY DEF MayRemap
  <2> QED
    BY <2>1, <2>2, <2>3 DEF Reaches
<1>3. Reaches(<<init_trap>>, E, R)
  <2>1. <<init_trap>> \in Seq(StepType)
    BY DriverCalls DEF Calls, StepOf
  <2>2. Touches(init_trap, E, R)
    BY DriverTouches
  <2> QED
    BY <2>1, <2>2 DEF Reaches
<1>4. Split(BeforeLoop, D, E, R)
  <2>1. Split(Here.start \o Here.early, D, E, R)
    <3>1. /\ Here.start \in Seq(StepOf(EntryOps)) /\ Here.early \in Seq(StepOf({"call"}))
      BY HereIsFit DEF Fit, Calls
    <3>2. Reaches(Here.start, D, R)
      BY <1>1, ReachesMore
    <3>3. /\ Here.start \in Seq(StepType) /\ Here.early \in Seq(StepType)
          /\ \A k \in 1 .. Len(Here.start) : Here.start[k].op # "remap"
          /\ \A k \in 1 .. Len(Here.early) : Here.early[k].op # "remap"
      <4>1. /\ Here.start \in Seq(StepType)
            /\ \A k \in 1 .. Len(Here.start) : Here.start[k].op \in EntryOps
        BY <3>1, StepsOf
      <4>2. /\ Here.early \in Seq(StepType)
            /\ \A k \in 1 .. Len(Here.early) : Here.early[k].op \in {"call"}
        BY <3>1, StepsOf
      <4> QED
        BY <4>1, <4>2 DEF EntryOps
    <3>4. Split(Here.start, D, D, R)
      BY <3>2, <3>3, CallsSplit
    <3>5. Split(Here.start \o Here.early, D, D, R)
      BY <1>1, <3>4, SplitOn
    <3>6. \A k \in 1 .. Len(Here.start \o Here.early) : (Here.start \o Here.early)[k].op # "remap"
      <4> DEFINE a == Here.start
                 b == Here.early
      <4>1. /\ Len(a) \in Nat /\ Len(b) \in Nat /\ Len(a \o b) = Len(a) + Len(b)
            /\ \A k \in 1 .. Len(a) : (a \o b)[k] = a[k]
            /\ \A k \in 1 .. Len(b) : (a \o b)[Len(a) + k] = b[k]
        BY <3>3, Joined DEF JoinOf
      <4>2. /\ \A k \in 1 .. Len(a) : a[k].op # "remap"
            /\ \A k \in 1 .. Len(b) : b[k].op # "remap"
        BY <3>3
      <4> HIDE DEF a, b
      <4>3. ASSUME NEW k \in 1 .. Len(a \o b) PROVE (a \o b)[k].op # "remap"
        <5>1. CASE k <= Len(a)
          BY <4>1, <4>2, <5>1
        <5>2. CASE ~(k <= Len(a))
          <6>1. k - Len(a) \in 1 .. Len(b) /\ Len(a) + (k - Len(a)) = k
            BY <4>1, <5>2
          <6> QED
            BY <4>1, <4>2, <6>1
        <5> QED
          BY <5>1, <5>2
      <4> QED
        BY <4>3 DEF a, b
    <3>7. Reaches(Here.start \o Here.early, D, R)
      BY <3>5 DEF Split, Reaches
    <3> QED
      BY <3>6, <3>7, CallsSplit
  <2>2. Split(Here.start \o Here.early \o Here.early_use, D, E, R)
    BY <1>1, <2>1, SplitOn
  <2>3. Split(Here.start \o Here.early \o Here.early_use \o MayRemap, D, E, R)
    BY <1>1, <1>2, <2>2, SplitOn
  <2>4. Split(Here.start \o Here.early \o Here.early_use \o MayRemap \o Here.later, D, E, R)
    BY <1>1, <2>3, SplitOn
  <2>5. Split(Here.start \o Here.early \o Here.early_use \o MayRemap \o Here.later
              \o Here.later_use, D, E, R)
    BY <1>1, <2>4, SplitOn
  <2> QED
    BY <2>5 DEF BeforeLoop
<1>5. Split(SecondaryProgram, D, E, R)
  <2>1. Split(Here.secondary, D, E, R)
    <3>1. Here.secondary \in Seq(StepOf(EntryOps \ {"table"}))
      BY HereIsFit DEF Fit
    <3>2. \A k \in 1 .. Len(Here.secondary) : Here.secondary[k].op # "remap"
      BY <3>1, StepsOf DEF EntryOps
    <3> QED
      BY <1>1, <3>2, ReachesMore, CallsSplit
  <2>2. Split(Here.secondary \o <<init_trap>>, D, E, R)
    BY <1>1, <1>3, <2>1, SplitOn
  <2>3. Split(Here.secondary \o <<init_trap>> \o Here.early_use, D, E, R)
    BY <1>1, <2>2, SplitOn
  <2>4. Split(Here.secondary \o <<init_trap>> \o Here.early_use \o MayRemap, D, E, R)
    BY <1>1, <1>2, <2>3, SplitOn
  <2>5. Split(Here.secondary \o <<init_trap>> \o Here.early_use \o MayRemap
              \o Here.later_secondary, D, E, R)
    BY <1>1, <2>4, SplitOn
  <2>6. Split(Here.secondary \o <<init_trap>> \o Here.early_use \o MayRemap
              \o Here.later_secondary \o Here.later_use, D, E, R)
    BY <1>1, <2>5, SplitOn
  <2> QED
    BY <2>6 DEF SecondaryProgram
<1> QED
  BY <1>4, <1>5 DEF Straight

\* What the first CPU executes in its loop and behind it accesses only E.
LEMMA LoopReach ==
  ASSUME ConfInv, pc[Primary] \in DOMAIN Program(Primary), ~(pc[Primary] < LoopHead),
         NEW E, NEW R, Reaches(Here.cpu_boot, E, R), Touches(Here.system_off, E, R)
  PROVE  Touches(Step(Primary), E, R)
<1> DEFINE q == pc[Primary]
           n == Len(LoopBody)
           s == PrimaryProgram[q]
<1>1. /\ LoopHead \in Nat /\ BootLen \in Nat /\ n = IF conf.waits THEN BootLen + 1 ELSE BootLen
      /\ Len(PrimaryProgram) = LoopHead + n + 3 /\ Primary \in CPU
  BY Lengths, PrimaryLayout, CpuNumbers
<1>2. q \in 1 .. Len(PrimaryProgram) /\ Step(Primary) = s
  BY <1>1, TheStep DEF Step, Program, Length
<1>3. CASE q = LoopHead
  BY <1>2, <1>3, PrimaryLayout, OpTouches
<1>4. CASE q \in LoopHead + 1 .. LoopHead + BootLen
  <2>1. PICK k \in 1 .. BootLen : q = LoopHead + k
    <3>1. q - LoopHead \in 1 .. BootLen /\ q = LoopHead + (q - LoopHead)
      <4>1. q \in Int
        BY <1>1, <1>4
      <4> HIDE DEF q
      <4> QED
        BY <1>1, <1>4, <4>1
    <3> QED
      BY <3>1
  <2>2. k \in 1 .. n /\ k \in 1 .. Len(Here.cpu_boot)
    BY <1>1 DEF BootLen
  <2>3. s = Here.cpu_boot[k]
    BY <2>1, <2>2, PrimaryLayout, Lengths
  <2> QED
    BY <1>2, <2>2, <2>3 DEF Reaches
<1>5. CASE conf.waits /\ q = LoopHead + BootLen + 1
  <2>1. BootLen + 1 \in 1 .. n /\ LoopHead + (BootLen + 1) = q
    BY <1>1, <1>5
  <2>2. s = Op("wait")
    BY <1>5, <2>1, PrimaryLayout, Lengths
  <2> QED
    BY <1>2, <2>2, OpTouches
<1>6. CASE q \in {LoopHead + n + 1, LoopHead + n + 2}
  BY <1>2, <1>6, PrimaryLayout, OpTouches
<1>7. CASE q = LoopHead + n + 3
  BY <1>2, <1>7, PrimaryLayout
<1>8. \/ q = LoopHead \/ q \in LoopHead + 1 .. LoopHead + BootLen
      \/ conf.waits /\ q = LoopHead + BootLen + 1
      \/ q \in {LoopHead + n + 1, LoopHead + n + 2} \/ q = LoopHead + n + 3
  <2>1. q \in Int /\ q <= LoopHead + n + 3 /\ ~(q < LoopHead)
    BY <1>1, <1>2
  <2> HIDE DEF q, n
  <2> QED
    BY <1>1, <2>1
<1> QED
  BY <1>3, <1>4, <1>5, <1>6, <1>7, <1>8

\* The entry code accesses nothing, and all of the program only D and R, behind the
\* switch only E and R.
LEMMA StepReach ==
  ASSUME ConfInv, NEW D, NEW E, NEW R, Layout(conf.platform, Here, D, E, R),
         NEW c \in CPU, pc[c] \in DOMAIN Program(c)
  PROVE  /\ pc[c] <= Len(EntryCode[c]) => Touches(Step(c), {}, {})
         /\ Touches(Step(c), D, R)
         /\ (\E k \in 1 .. Len(Straight[c]) : k < pc[c] /\ Straight[c][k].op = "remap")
              => Touches(Step(c), E, R)
<1>1. /\ E \subseteq D
      /\ Reaches(Here.start, {}, {}) /\ Reaches(Here.secondary, {}, {})
      /\ Reaches(Here.cpu_boot, E, R) /\ Touches(Here.system_off, E, R)
  BY Zenon DEF Layout
<1>2. ASSUME pc[c] <= Len(EntryCode[c]) PROVE Touches(Step(c), {}, {})
  <2>1. /\ pc[c] \in 1 .. Length[c] /\ Length[c] \in Nat /\ Len(EntryCode[c]) \in Nat
        /\ Step(c) = EntryCode[c][pc[c]]
    BY <1>2, TheStep, Numbers
  <2>2. pc[c] \in 1 .. Len(EntryCode[c])
    BY <1>2, <2>1
  <2>3. Reaches(EntryCode[c], {}, {})
    BY <1>1 DEF EntryCode
  <2> QED
    BY <2>1, <2>2, <2>3 DEF Reaches
<1>3. CASE c = Primary /\ ~(pc[c] < LoopHead)
  <2>1. Touches(Step(c), E, R)
    BY <1>1, <1>3, LoopReach
  <2>2. Touches(Step(c), D, R)
    BY <1>1, <2>1 DEF Touches
  <2> QED
    BY <1>2, <2>1, <2>2
<1>4. CASE ~(c = Primary /\ ~(pc[c] < LoopHead))
  <2>1. pc[c] \in 1 .. Len(Straight[c]) /\ Step(c) = Straight[c][pc[c]]
    BY <1>4, StraightStep
  <2>2. Split(Straight[c], D, E, R)
    BY StraightSplits
  <2>3. /\ Touches(Step(c), D, R)
        /\ (\E k \in 1 .. Len(Straight[c]) : k < pc[c] /\ Straight[c][k].op = "remap")
             => Touches(Step(c), E, R)
    BY <2>1, <2>2 DEF Split
  <2> QED
    BY <1>2, <2>3
<1> QED
  BY <1>3, <1>4

-----------------------------------------------------------------------------
(* No CPU accesses memory that is not there.                               *)

\* A CPU uses high addresses only behind the step that turns translation on.
HighInv ==
    conf.platform # "loong" => \A c \in CPU :
        at[c] = "high" \/ sp[c].half = "high" => root[c] # "none"

\* Behind its entry code a CPU executes at high addresses.
BehindInv == \A c \in CPU : pc[c] > Len(EntryCode[c]) => at[c] = "high"

\* A CPU has its own stack as soon as it has one.
PageInv == \A c \in CPU : sp[c].page # None => sp[c].page = StackOf(c)

\* A CPU uses the kernel's table only behind the step that installs it.
KernelInv ==
    \A c \in CPU : root[c] = "kernel" =>
        \E k \in 1 .. Len(Straight[c]) : k < pc[c] /\ Straight[c][k].op = "remap"

\* What the first CPU has written into the boot table is mapped.
TableInv ==
    \A e \in TableEntry : Wrote(conf.platform, EntryCode[Primary], pc[Primary], e) =>
        \E f \in table : Covers(f, e) /\ f.attr = e.attr

FaultInv == IInv /\ HighInv /\ BehindInv /\ PageInv /\ KernelInv /\ TableInv

\* What the platform's layout says of the entry code.
LEMMA EntryIsLaidOut ==
  ASSUME ConfInv
  PROVE  /\ \A c \in CPU : HighAfterMmu(conf.platform, EntryCode[c])
         /\ OneTable(conf.platform, EntryCode[Primary])
<1>1. PICK D, E, R : Layout(conf.platform, Here, D, E, R)
  BY HereIsLaidOut, Zenon
<1>2. /\ HighAfterMmu(conf.platform, Here.start) /\ HighAfterMmu(conf.platform, Here.secondary)
      /\ OneTable(conf.platform, Here.start)
  BY <1>1, Zenon DEF Layout
<1> QED
  BY <1>2, CpuNumbers DEF EntryCode

\* A step of the entry code is where the CPU is.
LEMMA EntryPlace ==
  ASSUME ConfInv, TypeInv, NEW c \in CPU, EntryStep(c), Step(c).op \in EntryOps \ {"call"}
  PROVE  /\ pc[c] \in 1 .. Len(EntryCode[c]) /\ Len(EntryCode[c]) \in Nat
         /\ Step(c) = EntryCode[c][pc[c]]
<1>1. pc[c] \in DOMAIN Program(c)
  BY EntryMoves, Numbers DEF Moved
<1>2. /\ pc[c] \in 1 .. Length[c] /\ Length[c] \in Nat /\ Len(EntryCode[c]) \in Nat
      /\ pc[c] <= Len(EntryCode[c]) /\ Step(c) = EntryCode[c][pc[c]]
  BY <1>1, TheStep, Numbers
<1> QED
  BY <1>2

\* A step to high addresses comes behind the one that turns translation on.
LEMMA EntryKeepsHigh ==
  ASSUME IInv, HighInv, NEW c \in CPU, EntryStep(c)
  PROVE  HighInv'
<1> USE DEF IInv
<1>1. conf' = conf
  BY EntryMoves DEF Moved
<1>2. SUFFICES ASSUME conf.platform # "loong", NEW d \in CPU, at'[d] = "high" \/ sp'[d].half = "high"
               PROVE  root'[d] # "none"
  BY <1>1 DEF HighInv
<1>3. CASE d # c
  BY <1>2, <1>3, OthersStay DEF HighInv
<1>4. CASE d = c /\ (LoadStack(c) \/ RaiseStack(c) \/ Jump(c) \/ EnterMain(c))
  <2>1. root' = root /\ Step(c).op \in {"sp", "sp_virt", "sp_high", "jump", "main"}
    BY <1>4 DEF LoadStack, RaiseStack, Jump, EnterMain, Does
  <2>2. CASE Step(c).op = "sp"
    <3>1. at'[c] = at[c] /\ sp'[c].half = "low"
      BY <1>4, <2>2 DEF LoadStack, RaiseStack, Jump, EnterMain, Does, TypeInv
    <3> QED
      BY <1>2, <1>4, <2>1, <3>1 DEF HighInv
  <2>3. CASE Step(c).op # "sp"
    <3>1. pc[c] \in 1 .. Len(EntryCode[c]) /\ Step(c) = EntryCode[c][pc[c]]
      BY <2>1, EntryPlace DEF EntryOps
    <3>2. PICK j \in 1 .. Len(EntryCode[c]) : j < pc[c] /\ EntryCode[c][j].op = "mmu"
      BY <1>2, <2>1, <2>3, <3>1, EntryIsLaidOut DEF HighAfterMmu
    <3>3. Left(c, j)
      BY <3>2 DEF ReadyInv
    <3> QED
      BY <1>4, <2>1, <3>2, <3>3 DEF Left
  <2> QED
    BY <2>2, <2>3
<1>5. CASE d = c /\ (init_mmu(c) \/ RemapKernel(c))
  BY <1>5 DEF init_mmu, RemapKernel, TypeInv
<1>6. CASE Call(c) \/ InitPageTable(c)
  BY <1>2, <1>6 DEF Call, InitPageTable, HighInv
<1> QED
  BY <1>3, <1>4, <1>5, <1>6 DEF EntryStep

\* main is called last in the entry code, and no step goes back to low addresses.
LEMMA EntryKeepsBehind ==
  ASSUME IInv, BehindInv, NEW c \in CPU, EntryStep(c)
  PROVE  BehindInv'
<1> USE DEF IInv
<1>1. conf' = conf /\ EntryCode' = EntryCode /\ pc[c] \in Nat /\ pc'[c] = pc[c] + 1
  BY EntryMoves, Stays DEF Moved, TypeInv
<1>2. SUFFICES ASSUME NEW d \in CPU, pc'[d] > Len(EntryCode[d])
               PROVE  at'[d] = "high"
  BY <1>1 DEF BehindInv
<1>3. CASE d # c
  BY <1>2, <1>3, OthersStay DEF BehindInv
<1>4. CASE d = c /\ pc[c] > Len(EntryCode[c])
  <2>1. at[c] = "high"
    BY <1>4 DEF BehindInv
  <2> QED
    BY <1>4, <2>1 DEF EntryStep, Call, LoadStack, RaiseStack, InitPageTable, init_mmu, Jump, EnterMain,
                RemapKernel, TypeInv
<1>5. CASE d = c /\ ~(pc[c] > Len(EntryCode[c]))
  <2>1. Len(EntryCode[c]) \in Nat \ {0} /\ pc[c] \in DOMAIN Program(c)
    BY EntryMoves, Numbers DEF Moved
  <2>2. pc[c] = Len(EntryCode[c])
    BY <1>1, <1>2, <1>5, <2>1
  <2>3. Step(c).op = "main"
    <3>1. Len(EntryCode[c]) <= Len(EntryCode[c])
      BY <2>1
    <3>2. Step(c) = EntryCode[c][Len(EntryCode[c])]
      BY <2>1, <2>2, <3>1, TheStep
    <3>3. \A k \in 1 .. Len(EntryCode[c]) : EntryCode[c][k].op = "main" <=> k = Len(EntryCode[c])
      BY EntryCodeIsReady DEF Ready
    <3> QED
      BY <2>1, <3>2, <3>3
  <2>4. EnterMain(c)
    BY <2>3 DEF EntryStep, Call, LoadStack, RaiseStack, InitPageTable, init_mmu, Jump, RemapKernel, Does
  <2> QED
    BY <1>5, <2>4 DEF EnterMain, TypeInv
<1> QED
  BY <1>3, <1>4, <1>5

\* A CPU loads no stack but its own.
LEMMA EntryKeepsPage ==
  ASSUME IInv, PageInv, NEW c \in CPU, EntryStep(c)
  PROVE  PageInv'
<1> USE DEF IInv
<1>1. Here' = Here
  BY EntryMoves, Stays DEF Moved
<1>2. SUFFICES ASSUME NEW d \in CPU, sp'[d].page # None
               PROVE  sp'[d].page = StackOf(d)
  BY <1>1 DEF PageInv, StackOf
<1>3. CASE LoadStack(c) /\ d = c
  <2>1. sp'[c].page = BootStack(c)
    BY <1>3 DEF LoadStack, TypeInv
  <2> QED
    BY <1>3, <2>1, LoadsOwnStack
<1>4. CASE ~(LoadStack(c) /\ d = c)
  <2>1. CASE d # c
    BY <1>2, <2>1, OthersStay DEF PageInv
  <2>2. CASE d = c
    <3>1. sp'[c].page = sp[c].page
      BY <1>4, <2>2 DEF EntryStep, Call, RaiseStack, InitPageTable, init_mmu, Jump, EnterMain,
                        RemapKernel, TypeInv
    <3> QED
      BY <1>2, <2>2, <3>1 DEF PageInv
  <2> QED
    BY <2>1, <2>2
<1> QED
  BY <1>3, <1>4

\* The kernel's table comes with the step that installs it.
LEMMA EntryKeepsKernel ==
  ASSUME IInv, KernelInv, NEW c \in CPU, EntryStep(c)
  PROVE  KernelInv'
<1> USE DEF IInv
<1>1. conf' = conf /\ Straight' = Straight /\ pc[c] \in Nat /\ pc'[c] = pc[c] + 1
  BY EntryMoves, StraightStays DEF Moved, TypeInv
<1>2. SUFFICES ASSUME NEW d \in CPU, root'[d] = "kernel"
               PROVE  \E k \in 1 .. Len(Straight[d]) : k < pc'[d] /\ Straight[d][k].op = "remap"
  BY <1>1 DEF KernelInv
<1>3. CASE d # c
  BY <1>2, <1>3, OthersStay DEF KernelInv
<1>4. CASE d = c /\ RemapKernel(c)
  <2>1. pc[c] \in DOMAIN Program(c) /\ Step(c).op = "remap" /\ (c = Primary => pc[c] < LoopHead)
    BY <1>4, EntryMoves DEF RemapKernel, Does, Moved
  <2>2. pc[c] \in 1 .. Len(Straight[c]) /\ Step(c) = Straight[c][pc[c]]
    BY <2>1, StraightStep
  <2>3. pc[c] < pc'[c]
    BY <1>1
  <2> QED
    BY <1>4, <2>1, <2>2, <2>3
<1>5. CASE d = c /\ ~RemapKernel(c)
  <2>1. root[c] = "kernel"
    BY <1>2, <1>5 DEF EntryStep, Call, LoadStack, RaiseStack, InitPageTable, init_mmu, Jump,
                      EnterMain, TypeInv
  <2>2. PICK k \in 1 .. Len(Straight[c]) : k < pc[c] /\ Straight[c][k].op = "remap"
    BY <2>1 DEF KernelInv
  <2>3. k < pc'[c]
    BY <1>1, <2>2, StraightCode
  <2> QED
    BY <1>5, <2>2, <2>3
<1> QED
  BY <1>3, <1>4, <1>5

\* What the first CPU has written stays mapped: it writes one table, and what the
\* second one of arm-qemu-virt replaces it maps again.
LEMMA EntryKeepsTable ==
  ASSUME IInv, TableInv, NEW c \in CPU, EntryStep(c)
  PROVE  TableInv'
<1> USE DEF IInv
<1> DEFINE p == conf.platform
           s == EntryCode[Primary]
<1>1. /\ conf' = conf /\ EntryCode' = EntryCode /\ Primary' = Primary /\ Primary \in CPU
      /\ pc[c] \in Nat /\ pc'[c] = pc[c] + 1 /\ (c # Primary => pc'[Primary] = pc[Primary])
  BY EntryMoves, OthersStay, Stays, CpuNumbers DEF Moved, TypeInv
<1>2. SUFFICES ASSUME NEW e \in TableEntry, Wrote(p, s, pc'[Primary], e)
               PROVE  \E f \in table' : Covers(f, e) /\ f.attr = e.attr
  BY <1>1 DEF TableInv
<1>3. Covers(e, e)
  BY CoversItself
<1>4. CASE InitPageTable(c)
  <2>1. /\ Step(c).op = "table"
        /\ table' = Step(c).map \cup {g \in table : ~\E f \in Step(c).map : Covers(f, g)}
    BY <1>4 DEF InitPageTable, Does
  <2>2. c = Primary
    <3>1. pc[c] \in DOMAIN Program(c)
      BY <1>4 DEF InitPageTable, Does
    <3> QED
      BY <2>1, <3>1, TheStep
  <2>3. pc[Primary] \in 1 .. Len(s) /\ Len(s) \in Nat /\ Step(c) = s[pc[Primary]]
    BY <2>1, <2>2, EntryPlace DEF EntryOps
  <2>4. CASE p # "arm"
    <3>1. p # "x86" /\ \A j \in 1 .. Len(s) : s[j].op = "table" => j = pc[Primary]
      BY <2>1, <2>3, <2>4, EntryIsLaidOut DEF OneTable
    <3>2. e \in s[pc[Primary]].map
      BY <1>2, <3>1 DEF Wrote
    <3> QED
      BY <1>3, <2>1, <2>3, <3>2
  <2>5. CASE p = "arm"
    <3>1. /\ s = ArmStart /\ Len(ArmStart) = 8
          /\ ArmStart[3] = ArmPageTable /\ ArmStart[7] = ArmPageTableAfterMmu
          /\ \A k \in 1 .. 8 : ArmStart[k].op = "table" <=> k \in {3, 7}
      BY <2>5, ArmTables
    <3>2. PICK j \in 1 .. Len(s) : j < pc'[Primary] /\ s[j].op = "table" /\ e \in s[j].map
      BY <1>2, <2>5 DEF Wrote
    <3>3. CASE j = pc[Primary]
      BY <1>3, <2>1, <2>3, <3>2, <3>3
    <3>4. CASE j # pc[Primary]
      <4>1. j = 3 /\ pc[Primary] = 7
        <5>1. j \in {3, 7} /\ pc[Primary] \in {3, 7}
          BY <2>1, <2>3, <3>1, <3>2
        <5>2. j < pc[Primary] + 1
          BY <1>1, <2>2, <3>2
        <5> QED
          BY <3>4, <5>1, <5>2, SMT
      <4>2. table = ArmPageTable.map
        BY <2>5, <4>1, SMT DEF ArmInv
      <4>3. e \in ArmPageTable.map /\ Step(c) = ArmPageTableAfterMmu
        BY <2>3, <3>1, <3>2, <4>1
      <4>4. CASE ~\E f \in ArmPageTableAfterMmu.map : Covers(f, e)
        BY <1>3, <2>1, <4>2, <4>3, <4>4
      <4>5. CASE \E f \in ArmPageTableAfterMmu.map : Covers(f, e) /\ f.attr = e.attr
        BY <2>1, <4>3, <4>5
      <4> QED
        BY <4>3, <4>4, <4>5, ArmRewrites
    <3> QED
      BY <3>3, <3>4
  <2> QED
    BY <2>4, <2>5
<1>5. CASE ~InitPageTable(c)
  <2>1. table' = table
    BY <1>5 DEF EntryStep, Call, LoadStack, RaiseStack, init_mmu, Jump, EnterMain, RemapKernel
  <2>2. Step(c).op # "table"
    BY <1>5 DEF EntryStep, Call, LoadStack, RaiseStack, init_mmu, Jump, EnterMain, RemapKernel, Does
  <2>3. ASSUME NEW j \in 1 .. Len(s), j < pc'[Primary], s[j].op = "table"
        PROVE  j < pc[Primary]
    <3>1. CASE c # Primary
      BY <1>1, <2>3, <3>1
    <3>2. CASE c = Primary
      <4>1. Len(s) \in Nat /\ pc[c] \in DOMAIN Program(c)
        BY <1>1, EntryMoves, Numbers DEF Moved
      <4>2. pc[c] <= Len(s) => Step(c) = s[pc[c]]
        BY <3>2, <4>1, TheStep
      <4>3. j # pc[c]
        BY <2>2, <2>3, <4>1, <4>2
      <4> QED
        BY <1>1, <2>3, <3>2, <4>1, <4>3
    <3> QED
      BY <3>1, <3>2
  <2>4. Wrote(p, s, pc[Primary], e)
    BY <1>2, <2>3 DEF Wrote
  <2> QED
    BY <2>1, <2>4 DEF TableInv
<1> QED
  BY <1>4, <1>5

\* The loop takes nothing away.
LEMMA LoopKeepsFault ==
  ASSUME FaultInv, NEW c \in CPU, LoopOrEnd(c)
  PROVE  HighInv' /\ BehindInv' /\ PageInv' /\ KernelInv' /\ TableInv'
<1> USE DEF FaultInv, IInv
<1>1. /\ conf' = conf /\ sp' = sp /\ root' = root /\ table' = table
      /\ \A d \in CPU :
           \/ pc'[d] = pc[d] /\ at'[d] = at[d]
           \/ pc[d] = 0 /\ pc'[d] = 1 /\ d # Primary
           \/ /\ d = Primary /\ at'[d] = at[d]
              /\ pc[d] > Len(EntryCode[d]) /\ pc'[d] > Len(EntryCode[d])
              /\ pc[d] >= LoopHead /\ pc'[d] >= LoopHead
  BY LoopMoves
<1>2. /\ EntryCode' = EntryCode /\ Straight' = Straight /\ Here' = Here /\ Primary' = Primary
      /\ Primary \in CPU
  BY <1>1, StraightStays, Stays, CpuNumbers
<1>3. /\ Len(Straight[Primary]) = LoopHead - 1 /\ LoopHead \in Nat
      /\ \A d \in CPU : Len(Straight[d]) \in Nat /\ Len(EntryCode[d]) \in Nat \ {0}
  BY StraightCode, Numbers
<1>4. pc \in [CPU -> Nat] /\ pc' \in [CPU -> Nat]
  BY LoopTypes DEF TypeInv
<1>5. HighInv'
  <2>1. SUFFICES ASSUME conf.platform # "loong", NEW d \in CPU, at'[d] = "high" \/ sp[d].half = "high"
                 PROVE  root[d] # "none"
    BY <1>1 DEF HighInv
  <2>2. at'[d] = "high" => at[d] = "high"
    <3>1. CASE StartCpu(c)
      BY <2>1, <3>1 DEF StartCpu, TypeInv
    <3>2. CASE ~StartCpu(c)
      BY <3>2 DEF LoopOrEnd, StoreStack, flush_dcache_line, Wait, For, NextCpu, system_off
    <3> QED
      BY <3>1, <3>2
  <2> QED
    BY <2>1, <2>2 DEF HighInv
<1>6. BehindInv'
  BY <1>1, <1>2, <1>3, <1>4 DEF BehindInv
<1>7. PageInv'
  BY <1>1, <1>2 DEF PageInv, StackOf
<1>8. KernelInv'
  <2>1. ASSUME NEW d \in CPU, NEW k \in 1 .. Len(Straight[d]) PROVE k < pc'[d] <=> k < pc[d]
    BY <1>1, <1>3, <1>4, <2>1
  <2> QED
    BY <1>1, <1>2, <2>1 DEF KernelInv
<1>9. TableInv'
  <2>1. ASSUME NEW k \in 1 .. Len(EntryCode[Primary]) PROVE k < pc'[Primary] <=> k < pc[Primary]
    BY <1>1, <1>2, <1>3, <1>4, <2>1
  <2>2. SUFFICES ASSUME NEW e \in TableEntry, Wrote(conf.platform, EntryCode[Primary], pc'[Primary], e)
                 PROVE  \E f \in table : Covers(f, e) /\ f.attr = e.attr
    BY <1>1, <1>2 DEF TableInv
  <2>3. Wrote(conf.platform, EntryCode[Primary], pc[Primary], e)
    BY <2>1, <2>2 DEF Wrote
  <2> QED
    BY <2>3 DEF TableInv
<1> QED
  BY <1>5, <1>6, <1>7, <1>8, <1>9

\* They hold in every reachable state.
LEMMA FaultInvariance ==
  Spec => []FaultInv
<1>1. Init => FaultInv
  <2>1. ASSUME Init PROVE HighInv /\ BehindInv /\ PageInv /\ KernelInv /\ TableInv
    <3>1. ConfInv /\ TypeInv
      BY <2>1, InitInv DEF IInv
    <3>2. /\ \A c \in CPU : /\ at[c] = "low" /\ sp[c].half = "low" /\ sp[c].page = None
                            /\ root[c] = "none" /\ pc[c] \in {0, 1}
          /\ table = IF conf.platform = "x86" THEN X86PageTable ELSE {}
      BY <2>1 DEF Init
    <3>3. Primary \in CPU /\ \A c \in CPU : Len(EntryCode[c]) \in Nat \ {0}
      BY <3>1, Numbers
    <3>4. HighInv /\ PageInv /\ KernelInv
      BY <3>2 DEF HighInv, PageInv, KernelInv
    <3>5. BehindInv
      BY <3>2, <3>3 DEF BehindInv
    <3>6. TableInv
      <4>1. SUFFICES ASSUME NEW e \in TableEntry,
                            Wrote(conf.platform, EntryCode[Primary], pc[Primary], e)
                     PROVE  \E f \in table : Covers(f, e) /\ f.attr = e.attr
        BY DEF TableInv
      <4>2. \A j \in 1 .. Len(EntryCode[Primary]) : ~(j < pc[Primary])
        BY <3>2, <3>3
      <4>3. e \in table
        BY <3>2, <4>1, <4>2 DEF Wrote
      <4> QED
        BY <4>3, CoversItself
    <3> QED
      BY <3>4, <3>5, <3>6
  <2> QED
    BY <2>1, InitInv DEF FaultInv
<1>2. FaultInv /\ [Next]_vars => FaultInv'
  <2>1. ASSUME FaultInv, Next PROVE HighInv' /\ BehindInv' /\ PageInv' /\ KernelInv' /\ TableInv'
    <3>1. PICK c \in CPU : EntryStep(c) \/ LoopOrEnd(c)
      BY <2>1 DEF Next, CpuStep, EntryStep, LoopOrEnd
    <3>2. CASE EntryStep(c)
      BY <2>1, <3>2, EntryKeepsHigh, EntryKeepsBehind, EntryKeepsPage, EntryKeepsKernel,
         EntryKeepsTable DEF FaultInv
    <3>3. CASE LoopOrEnd(c)
      BY <2>1, <3>3, LoopKeepsFault
    <3> QED
      BY <3>1, <3>2, <3>3
  <2>2. ASSUME FaultInv, vars' = vars
        PROVE  HighInv' /\ BehindInv' /\ PageInv' /\ KernelInv' /\ TableInv'
    <3>1. /\ conf' = conf /\ pc' = pc /\ at' = at /\ sp' = sp /\ root' = root /\ table' = table
      BY <2>2 DEF vars
    <3>2. Straight' = Straight /\ EntryCode' = EntryCode /\ Primary' = Primary /\ Here' = Here
      BY <3>1, StraightStays, Stays
    <3> QED
      BY <2>2, <3>1, <3>2 DEF FaultInv, HighInv, BehindInv, PageInv, StackOf, KernelInv, TableInv, Wrote
  <2> QED
    BY <2>1, <2>2, NextKeepsInv DEF FaultInv
<1> QED
  BY <1>1, <1>2, PTL DEF Spec

\* Behind its entry code a CPU translates, at high addresses and on a high stack.
LEMMA BehindEntry ==
  ASSUME FaultInv, NEW c \in CPU, pc[c] > Len(EntryCode[c])
  PROVE  root[c] # "none" /\ at[c] = "high" /\ sp[c].half = "high"
<1> USE DEF FaultInv, IInv
<1>1. Ready(conf.platform, EntryCode[c]) /\ Len(EntryCode[c]) \in Nat /\ pc[c] \in Nat
  BY EntryCodeIsReady, Numbers DEF TypeInv
<1>2. ASSUME NEW k \in 1 .. Len(EntryCode[c]) - 1 PROVE k \in 1 .. Len(EntryCode[c]) /\ Left(c, k)
  <2>1. k \in 1 .. Len(EntryCode[c]) /\ k < pc[c]
    BY <1>1
  <2> QED
    BY <2>1 DEF ReadyInv
<1>3. root[c] # "none"
  BY <1>1, <1>2 DEF Ready, Left
<1>4. sp[c].half = "high"
  BY <1>1, <1>2 DEF Ready, Left
<1> QED
  BY <1>3, <1>4 DEF BehindInv

\* The kernel's table is used behind the entry code only.
LEMMA KernelBehind ==
  ASSUME FaultInv, NEW c \in CPU, root[c] = "kernel"
  PROVE  pc[c] > Len(EntryCode[c])
<1> USE DEF FaultInv, IInv
<1>1. PICK k \in 1 .. Len(Straight[c]) : k < pc[c] /\ Straight[c][k].op = "remap"
  BY DEF KernelInv
<1>2. /\ Len(EntryCode[c]) \in Nat /\ pc[c] \in Nat /\ Len(Straight[c]) \in Nat
      /\ \A j \in 1 .. Len(EntryCode[c]) : EntryCode[c][j].op \in EntryOps
  BY EntryCodeIsReady, Numbers, StraightCode DEF TypeInv
<1>3. \A j \in 1 .. Len(EntryCode[c]) : Straight[c][j] = EntryCode[c][j]
  BY EntryComesFirst DEF Continues, Straight, EntryCode
<1>4. ~(k \in 1 .. Len(EntryCode[c]))
  BY <1>1, <1>2, <1>3 DEF EntryOps
<1> QED
  BY <1>1, <1>2, <1>4

\* When a CPU has turned translation on, so has the first one.
LEMMA FirstHasMmu ==
  ASSUME FaultInv, NEW c \in CPU, root[c] # "none"
  PROVE  \E k \in 1 .. Len(EntryCode[Primary]) :
           k < pc[Primary] /\ EntryCode[Primary][k].op = "mmu"
<1> USE DEF FaultInv, IInv
<1>1. CASE c = Primary
  BY <1>1 DEF RootInv
<1>2. CASE c # Primary
  <2>1. PICK j \in 1 .. Len(EntryCode[c]) : j < pc[c] /\ EntryCode[c][j].op = "mmu"
    BY DEF RootInv
  <2>2. c \in Secondary /\ pc[c] # 0
    <3>1. Len(EntryCode[c]) \in Nat
      BY Numbers
    <3> QED
      BY <1>2, <2>1, <3>1 DEF Secondary
  <2>3. /\ pc[Primary] >= LoopHead /\ pc[Primary] \in Nat /\ LoopHead \in Nat /\ Primary \in CPU
        /\ Len(EntryCode[Primary]) \in Nat /\ Len(EntryCode[Primary]) < LoopHead
    BY <2>2, SecondaryRunsLater, Numbers DEF TypeInv
  <2>4. PICK k \in 1 .. Len(EntryCode[Primary]) - 1 : EntryCode[Primary][k].op = "mmu"
    BY <2>3, EntryCodeIsReady DEF Ready
  <2>5. k \in 1 .. Len(EntryCode[Primary]) /\ k < pc[Primary]
    BY <2>3
  <2> QED
    BY <2>4, <2>5
<1> QED
  BY <1>1, <1>2

\* When a CPU is behind its entry code, so is the first one.
LEMMA FirstIsBehind ==
  ASSUME FaultInv, NEW c \in CPU, pc[c] > Len(EntryCode[c])
  PROVE  pc[Primary] > Len(EntryCode[Primary])
<1> USE DEF FaultInv, IInv
<1>1. CASE c = Primary
  BY <1>1
<1>2. CASE c # Primary
  <2>1. c \in Secondary /\ pc[c] # 0
    <3>1. Len(EntryCode[c]) \in Nat
      BY Numbers
    <3> QED
      BY <1>2, <3>1 DEF Secondary
  <2>2. /\ pc[Primary] >= LoopHead /\ pc[Primary] \in Nat /\ LoopHead \in Nat /\ Primary \in CPU
        /\ Len(EntryCode[Primary]) \in Nat /\ Len(EntryCode[Primary]) < LoopHead
    BY <2>1, SecondaryRunsLater, Numbers DEF TypeInv
  <2> QED
    BY <2>2
<1> QED
  BY <1>1, <1>2

\* A page of what the first CPU has written is in the boot table.
LEMMA TableHolds ==
  ASSUME FaultInv, NEW e \in TableEntry, NEW k \in 1 .. Len(EntryCode[Primary]), k < pc[Primary],
         Wrote(conf.platform, EntryCode[Primary], k, e),
         NEW half, NEW first \in Nat, NEW size \in Nat, NEW attr, Holds(e, half, first, size, attr),
         NEW page \in Nat, first <= page, page < first + size
  PROVE  \E f \in table : Covers(f, Entry(half, page, 1, attr)) /\ f.attr \in {attr, "any"}
<1> USE DEF FaultInv, IInv
<1>1. Wrote(conf.platform, EntryCode[Primary], pc[Primary], e)
  <2>1. pc[Primary] \in Nat /\ Len(EntryCode[Primary]) \in Nat
    BY CpuNumbers, Numbers DEF TypeInv
  <2>2. \A j \in 1 .. Len(EntryCode[Primary]) : j < k => j < pc[Primary]
    BY <2>1
  <2> QED
    BY <2>2 DEF Wrote
<1>2. PICK f \in table : Covers(f, e) /\ f.attr = e.attr
  BY <1>1 DEF TableInv
<1>3. f \in TableEntry
  BY DEF TypeInv
<1>4. /\ f.first \in Nat /\ f.size \in Nat /\ e.first \in Nat /\ e.size \in Nat
  BY <1>3 DEF TableEntry
<1>5. Covers(f, Entry(half, page, 1, attr))
  BY <1>2, <1>4 DEF Covers, Entry, Holds
<1> QED
  BY <1>2, <1>5 DEF Holds

\* A page of a list is in one of its ranges.
LEMMA ListedInRange ==
  ASSUME NEW ranges, NEW first \in Nat, NEW size \in Nat, Listed(ranges, first, size),
         NEW page \in Nat, first <= page, page < first + size
  PROVE  InRange(page, ranges)
BY DEF Listed, InRange

\* The code and the stacks are mapped where a CPU uses them.
LEMMA ImageIsMapped ==
  ASSUME FaultInv, NEW D, NEW E, NEW R, Layout(conf.platform, Here, D, E, R), NEW c \in CPU,
         Room[conf.platform] \in Nat,
         NEW half \in Half, NEW page \in Nat, Here.kernel <= page,
         page < Here.kernel + Room[conf.platform],
         half = "high" /\ conf.platform # "loong" => root[c] # "none",
         root[c] = "kernel" => half = "high"
  PROVE  Mapped(c, half, page, "normal")
<1> USE DEF FaultInv, IInv
<1>1. /\ ImageMapped(conf.platform, Here.start, Here.kernel)
      /\ Listed(Here.memory.ram \cup Here.memory.reserved, Here.kernel, Room[conf.platform])
      /\ Here.kernel \in Nat /\ EntryCode[Primary] = Here.start
  <2>1. /\ ImageMapped(conf.platform, Here.start, Here.kernel)
        /\ Listed(Here.memory.ram \cup Here.memory.reserved, Here.kernel, Room[conf.platform])
    BY Zenon DEF Layout
  <2>2. Here.kernel \in Nat
    BY HereIsFit DEF Fit
  <2> QED
    BY <2>1, <2>2, CpuNumbers DEF EntryCode
<1>2. CASE root[c] = "none"
  BY <1>2 DEF Mapped, Half
<1>3. CASE root[c] = "boot"
  <2>1. PICK k \in 1 .. Len(EntryCode[Primary]) :
               k < pc[Primary] /\ EntryCode[Primary][k].op = "mmu"
    BY <1>3, FirstHasMmu
  <2>2. PICK e \in TableEntry :
               /\ Holds(e, half, Here.kernel, Room[conf.platform], "normal")
               /\ \A j \in 1 .. Len(Here.start) :
                    Here.start[j].op = "mmu" => Wrote(conf.platform, Here.start, j, e)
    BY <1>1, Zenon DEF ImageMapped
  <2>3. Wrote(conf.platform, EntryCode[Primary], k, e)
    BY <1>1, <2>1, <2>2
  <2>4. \E f \in table : Covers(f, Entry(half, page, 1, "normal")) /\ f.attr \in {"normal", "any"}
    BY <1>1, <2>1, <2>2, <2>3, TableHolds
  <2> QED
    BY <1>3, <2>4 DEF Mapped
<1>4. CASE root[c] = "kernel"
  BY <1>1, <1>4, ListedInRange DEF Mapped
<1> QED
  BY <1>2, <1>3, <1>4 DEF TypeInv

\* So is what a CPU accesses behind its entry code.
LEMMA PageIsMapped ==
  ASSUME FaultInv, NEW c \in CPU, pc[c] > Len(EntryCode[c]), NEW page, NEW attr,
         PageMapped(conf.platform, Here.start, page, attr),
         root[c] = "kernel" => Listed(IF attr = "device" THEN Here.memory.mmio
                                      ELSE Here.memory.ram \cup Here.memory.reserved, page, 1)
  PROVE  Mapped(c, "high", page, attr)
<1> USE DEF FaultInv, IInv
<1>1. root[c] # "none" /\ pc[Primary] > Len(EntryCode[Primary])
  BY BehindEntry, FirstIsBehind
<1>2. EntryCode[Primary] = Here.start /\ Len(Here.start) \in Nat \ {0}
  BY CpuNumbers, Numbers DEF EntryCode
<1>3. page \in Nat
  BY DEF PageMapped
<1>4. page <= page /\ page < page + 1
  BY <1>3
<1>5. CASE root[c] = "boot"
  <2>1. PICK e \in TableEntry : /\ Holds(e, "high", page, 1, attr)
                                /\ Wrote(conf.platform, Here.start, Len(Here.start), e)
    BY Zenon DEF PageMapped
  <2>2. Len(Here.start) \in 1 .. Len(EntryCode[Primary]) /\ Len(Here.start) < pc[Primary]
    BY <1>1, <1>2, CpuNumbers DEF TypeInv
  <2>3. \E f \in table : Covers(f, Entry("high", page, 1, attr)) /\ f.attr \in {attr, "any"}
    BY <1>2, <1>3, <1>4, <2>1, <2>2, TableHolds
  <2> QED
    BY <1>5, <2>3 DEF Mapped
<1>6. CASE root[c] = "kernel"
  BY <1>3, <1>4, <1>6, ListedInRange DEF Mapped
<1> QED
  BY <1>1, <1>5, <1>6 DEF TypeInv

LEMMA RoomIsNumber ==
  ASSUME ConfInv
  PROVE  Room[conf.platform] \in Nat
<1>1. conf.platform \in {"virt", "bsta", "phytium", "raspi", "arm", "loong", "riscv", "x86"}
  BY PlatformsAssumption DEF ConfInv, Code
<1> QED
  BY <1>1, SMT DEF Room

\* An image that ends where the tables have room is never left, and neither is what
\* the platform's list of ranges says.
LEMMA FaultInvImpliesNoFault ==
  ASSUME FaultInv, IMAGE <= Room[conf.platform]
  PROVE  NoFault
<1> USE DEF FaultInv, IInv
<1>1. PICK D, E, R : Layout(conf.platform, Here, D, E, R)
  BY HereIsLaidOut, Zenon
<1>2. /\ Room[conf.platform] \in Nat /\ IMAGE \in Nat /\ CPU_NUM \in Nat \ {0} /\ CPU_NUM < IMAGE
      /\ CPU \subseteq Nat /\ \A c \in CPU : c < CPU_NUM
  BY RoomIsNumber, ImageAssumption, CpuNumbers
<1>3. /\ Here.kernel \in Nat
      /\ \A c \in CPU : StackOf(c) = Here.kernel + IMAGE - 1 - c
  BY <1>2, StackNumbers
<1>4. SUFFICES ASSUME NEW c \in CPU, pc[c] # 0
               PROVE  /\ Mapped(c, at[c], Here.kernel, "normal")
                      /\ sp[c].page # None => Mapped(c, sp[c].half, sp[c].page, "normal")
                      /\ ~Up(c) => /\ \A d \in Step(c).dev : Mapped(c, "high", Here.dev[d], "device")
                                   /\ \A p \in Step(c).ram : Mapped(c, "high", p, "normal")
  BY Zenon DEF NoFault
<1>5. /\ at[c] \in Half /\ sp[c].half \in Half
      /\ conf.platform # "loong" => (at[c] = "high" \/ sp[c].half = "high" => root[c] # "none")
      /\ root[c] = "kernel" => at[c] = "high" /\ sp[c].half = "high"
  BY KernelBehind, BehindEntry DEF HighInv, TypeInv
<1>6. Mapped(c, at[c], Here.kernel, "normal")
  <2>1. Here.kernel <= Here.kernel /\ Here.kernel < Here.kernel + Room[conf.platform]
    BY <1>2, <1>3
  <2> QED
    BY <1>1, <1>2, <1>3, <1>5, <2>1, ImageIsMapped
<1>7. ASSUME sp[c].page # None PROVE Mapped(c, sp[c].half, sp[c].page, "normal")
  <2>1. sp[c].page = Here.kernel + IMAGE - 1 - c
    BY <1>3, <1>7 DEF PageInv
  <2>2. /\ sp[c].page \in Nat /\ Here.kernel <= sp[c].page
        /\ sp[c].page < Here.kernel + Room[conf.platform]
    BY <1>2, <1>3, <2>1
  <2> QED
    BY <1>1, <1>2, <1>5, <2>2, ImageIsMapped
<1>8. ASSUME ~Up(c)
      PROVE  /\ \A d \in Step(c).dev : Mapped(c, "high", Here.dev[d], "device")
             /\ \A p \in Step(c).ram : Mapped(c, "high", p, "normal")
  <2>1. pc[c] \in DOMAIN Program(c) /\ pc[c] \in Nat /\ Len(EntryCode[c]) \in Nat
    <3>1. /\ Length[c] \in Nat /\ Length[c] = Len(Program(c)) /\ DOMAIN Program(c) = 1 .. Length[c]
          /\ pc[c] \in Nat /\ Len(EntryCode[c]) \in Nat
      BY Numbers DEF Length, TypeInv
    <3>2. ~(pc[c] > Length[c])
      BY <1>8, <3>1 DEF Up
    <3> QED
      BY <1>4, <3>1, <3>2
  <2>2. /\ pc[c] <= Len(EntryCode[c]) => Touches(Step(c), {}, {})
        /\ Touches(Step(c), D, R)
        /\ root[c] = "kernel" => Touches(Step(c), E, R)
    <3>1. root[c] = "kernel" =>
            \E k \in 1 .. Len(Straight[c]) : k < pc[c] /\ Straight[c][k].op = "remap"
      BY DEF KernelInv
    <3> QED
      BY <1>1, <2>1, <3>1, StepReach
  <2>3. CASE pc[c] <= Len(EntryCode[c])
    BY <2>2, <2>3 DEF Touches
  <2>4. CASE ~(pc[c] <= Len(EntryCode[c]))
    <3>1. pc[c] > Len(EntryCode[c])
      BY <2>1, <2>4
    <3>2. /\ \A d \in D : PageMapped(conf.platform, Here.start, Here.dev[d], "device")
          /\ \A r \in R : PageMapped(conf.platform, Here.start, r, "normal")
          /\ \A d \in E : Listed(Here.memory.mmio, Here.dev[d], 1)
          /\ \A r \in R : Listed(Here.memory.ram \cup Here.memory.reserved, r, 1)
      BY <1>1, Zenon DEF Layout
    <3>3. ASSUME NEW d \in Step(c).dev PROVE Mapped(c, "high", Here.dev[d], "device")
      <4>1. d \in D /\ (root[c] = "kernel" => d \in E)
        BY <2>2, <3>3 DEF Touches
      <4> QED
        BY <3>1, <3>2, <4>1, PageIsMapped
    <3>4. ASSUME NEW p \in Step(c).ram PROVE Mapped(c, "high", p, "normal")
      <4>1. p \in R
        BY <2>2, <3>4 DEF Touches
      <4> QED
        BY <3>1, <3>2, <4>1, PageIsMapped
    <3> QED
      BY <3>3, <3>4
  <2> QED
    BY <2>3, <2>4
<1> QED
  BY <1>6, <1>7, <1>8

\* No CPU accesses memory that its current translation does not map, or maps as
\* the wrong kind of memory, on any platform, whichever CPU comes first, with or without a
\* table of the kernel, in every interleaving: if the kernel image with its stacks ends
\* where the block of the boot table and the region of RAM it lies in have room for it.
THEOREM NoFaults ==
  ASSUME \A p \in Platforms : IMAGE <= Room[p]
  PROVE  Spec => []NoFault
<1>1. ASSUME FaultInv PROVE NoFault
  <2>1. IMAGE <= Room[conf.platform]
    BY <1>1 DEF FaultInv, IInv, ConfInv
  <2> QED
    BY <1>1, <2>1, FaultInvImpliesNoFault
<1> QED
  BY <1>1, FaultInvariance, PTL
=============================================================================
