--------------------------- MODULE OtherPlatforms --------------------------
(***************************************************************************)
(* The boot code, the initialization and the memory map of                 *)
(* loongarch64-qemu-virt, riscv64-qemu-virt and x86-pc, with the features  *)
(* irq, smp, rtc and fp-simd.                                              *)
(***************************************************************************)
EXTENDS BootSteps

-----------------------------------------------------------------------------
(* loongarch64-qemu-virt.  The stack pointer is a high address from the    *)
(* start: without translation the upper address bits are ignored.          *)

LoongPageTable == WriteTable(Block(0, "device") \cup Block(2, "normal"))

LoongStart == <<Op("sp_virt"), enable_fp, LoongPageTable, InitMmu, CallMain>>

LoongStartSecondary == <<Op("sp_virt"), enable_fp, InitMmu, CallMain>>

\* time::init_early and the RTC.
LoongTimeInitEarly == [Plain EXCEPT !.once = {"NANOS_PER_TICK"}]
LoongInitRtc == [Plain EXCEPT !.uses = {"NANOS_PER_TICK"}, !.dev = {"rtc"}]
LoongTimeInitPercpu == [Plain EXCEPT !.own = {"timer"}]
LoongEnableIpi == [Plain EXCEPT !.own = {"irqs"}]

LoongInitEarly == <<init_trap, LoongTimeInitEarly, LoongInitRtc>>

LoongInitLater == <<LoongTimeInitPercpu, LoongEnableIpi>>

LoongInitLaterSecondary == <<LoongTimeInitPercpu, LoongEnableIpi>>

LoongWriteBytes == [Plain EXCEPT !.uses = {"trap"}, !.dev = {"uart"}]
LoongTicksToNanos == [Plain EXCEPT !.uses = {"NANOS_PER_TICK"}]
LoongHandleIrq == [Plain EXCEPT !.uses = {"trap", "timer", "irqs"}]

\* Mutant: no IPI is sent.
LoongCpuBootNoIpi == <<PassStack>>

\* SMP_BOOT_STACK_TOP, then the entry through the mailbox and an IPI.
LoongCpuBoot == <<PassStack, Release>>

\* The general event device is written to power the machine off.
LoongSystemOff == [Op("off") EXCEPT !.dev = {"ged"}]

LoongMemory == [ram |-> {<<\h80000, \h8000>>}, reserved |-> {},
                mmio |-> {<<\h100D0, 1>>, <<\h100E0, 1>>, <<\h1FE00, 1>>,
                          <<\h20000, \h10000>>, <<\h40000, \h20>>}]

Loong == [kernel |-> \h80000, memory |-> LoongMemory, ids |-> <<0, 1, 2, 3>>,
          dev |-> [uart |-> \h1FE00, rtc |-> \h100D0, ged |-> \h100E0],
          start |-> LoongStart, secondary |-> LoongStartSecondary,
          early |-> LoongInitEarly, later |-> LoongInitLater,
          later_secondary |-> LoongInitLaterSecondary,
          early_use |-> <<LoongWriteBytes, LoongTicksToNanos>>,
          later_use |-> <<LoongHandleIrq>>,
          cpu_boot |-> LoongCpuBoot, system_off |-> LoongSystemOff]

-----------------------------------------------------------------------------
(* riscv64-qemu-virt.  SBI calls need nothing but the firmware.            *)

\* No attributes in the entries; each half has its own.
RiscvPageTable == WriteTable({Entry(h, n * GB, GB, "any") : h \in {"low", "high"}, n \in {0, 2}})

RiscvStart == <<SetStack, RiscvPageTable, InitMmu, StackHigh, CallMain>>

RiscvStartSecondary == <<SetStack, InitMmu, StackHigh, CallMain>>

RiscvTimeInitEarly == [Plain EXCEPT !.dev = {"rtc"}]
RiscvIrqInitPercpu == [Plain EXCEPT !.own = {"irqs"}]
RiscvTimeInitPercpu == [Plain EXCEPT !.own = {"timer"}]

RiscvInitEarly == <<init_trap, RiscvTimeInitEarly>>

RiscvInitLater == <<RiscvIrqInitPercpu, RiscvTimeInitPercpu>>

RiscvInitLaterSecondary == <<RiscvIrqInitPercpu, RiscvTimeInitPercpu>>

RiscvHandleIrq == [Plain EXCEPT !.uses = {"trap", "timer", "irqs"}]

\* hart_start(cpu_id, entry, stack).
RiscvCpuBoot == <<Release>>

\* RAM below the kernel belongs to the SBI firmware.
RiscvMemory == [ram |-> {<<\h80200, \h7E00>>}, reserved |-> {},
                mmio |-> {<<\h101, 1>>, <<\hC000, \h210>>, <<\h10000, 9>>}]

Riscv == [Loong EXCEPT
            !.kernel = \h80200, !.memory = RiscvMemory, !.dev = [rtc |-> \h101],
            !.start = RiscvStart, !.secondary = RiscvStartSecondary,
            !.early = RiscvInitEarly, !.later = RiscvInitLater,
            !.later_secondary = RiscvInitLaterSecondary,
            !.early_use = <<>>, !.later_use = <<RiscvHandleIrq>>,
            !.cpu_boot = RiscvCpuBoot, !.system_off = Op("off")]

-----------------------------------------------------------------------------
(* x86-pc.  The page tables are data of multiboot.S: 512 GB at both halves. *)

X86PageTable == {Entry(h, 0, 512 * GB, "any") : h \in {"low", "high"}}

\* The values of CR4 (with OSFXSR) and CR0 (with PG) that ENTRY32_COMMON loads.
X86Cr4 == enable_fp
X86Cr0 == InitMmu

\* Entered with the magic number of a multiboot loader; the CPU id is the initial
\* local APIC id.
rust_entry == CallMain
rust_entry_secondary == CallMain

\* bsp_entry32, then bsp_entry64 loads the boot stack at its high address.
X86Start == <<X86Cr4, X86Cr0, Op("sp_virt"), rust_entry>>

\* ap_start32 loads the stack from the startup page, ap_entry32, ap_entry64.
X86StartSecondary == <<SetStack, X86Cr4, X86Cr0, StackHigh, rust_entry_secondary>>

X86ConsoleInit == [Plain EXCEPT !.sets = {"COM1"}]
X86TimeInitEarly == [Plain EXCEPT !.uses = {"COM1"}, !.sets = {"INIT_TICK"}]

\* mem::init: the multiboot information is in low memory.
X86MemInit == [Plain EXCEPT !.once = {"RAM_REGIONS"}, !.ram = {\h9}]

\* Mutant: the memory map is not read.
X86InitEarlyNoMem == <<init_trap, X86ConsoleInit, X86TimeInitEarly>>

X86InitEarly == <<init_trap, X86ConsoleInit, X86TimeInitEarly, X86MemInit>>

X86ApicInitPrimary == [Plain EXCEPT !.once = {"IO_APIC"}, !.sets = {"LOCAL_APIC"},
                                    !.own = {"irqs"}, !.dev = {"lapic", "ioapic"}]
X86TimeInitPrimary == [Plain EXCEPT !.uses = {"LOCAL_APIC"}, !.sets = {"LAPIC_RATIO"},
                                    !.own = {"timer"}, !.dev = {"lapic"}]
X86ApicInitSecondary == [Plain EXCEPT !.uses = {"LOCAL_APIC"}, !.own = {"irqs"}, !.dev = {"lapic"}]
X86TimeInitSecondary == [Plain EXCEPT !.uses = {"LOCAL_APIC", "irqs"}, !.own = {"timer"},
                                      !.dev = {"lapic"}]

X86InitLater == <<X86ApicInitPrimary, X86TimeInitPrimary>>

X86InitLaterSecondary == <<X86ApicInitSecondary, X86TimeInitSecondary>>

X86WriteBytes == [Plain EXCEPT !.uses = {"COM1", "trap"}]
X86CurrentTicks == [Plain EXCEPT !.uses = {"INIT_TICK"}]
X86SetOneshotTimer == [Plain EXCEPT !.uses = {"trap", "irqs", "timer", "LOCAL_APIC", "LAPIC_RATIO"},
                                    !.dev = {"lapic"}]
X86SetEnable == [Plain EXCEPT !.uses = {"IO_APIC"}, !.dev = {"ioapic"}]

\* Mutant: the startup page is not set up.
X86CpuBootNoPage == <<[Release EXCEPT !.uses = {"LOCAL_APIC", "INIT_TICK"}, !.dev = {"lapic"}]>>

\* setup_startup_page writes page 6; INIT and two SIPIs, with waits on the clock.
X86CpuBoot == <<[PassStack EXCEPT !.ram = {6}],
                [Release EXCEPT !.uses = {"LOCAL_APIC", "INIT_TICK"}, !.dev = {"lapic"}]>>

\* The regions come from the boot loader: those of QEMU with 128 MB.
X86Memory == [ram |-> {<<0, \h9F>>, <<\h100, \h7F00>>}, reserved |-> {<<0, \h100>>},
              mmio |-> {<<\hB0000, \h10000>>, <<\hFE000, \hC00>>, <<\hFEC00, 1>>,
                        <<\hFED00, 1>>, <<\hFEE00, 1>>}]

X86 == [Loong EXCEPT
          !.kernel = \h200, !.memory = X86Memory,
          !.dev = [lapic |-> \hFEE00, ioapic |-> \hFEC00],
          !.start = X86Start, !.secondary = X86StartSecondary,
          !.early = X86InitEarly, !.later = X86InitLater,
          !.later_secondary = X86InitLaterSecondary,
          !.early_use = <<X86WriteBytes, X86CurrentTicks>>,
          !.later_use = <<X86SetOneshotTimer, X86SetEnable>>,
          !.cpu_boot = X86CpuBoot, !.system_off = Op("off")]
=============================================================================
