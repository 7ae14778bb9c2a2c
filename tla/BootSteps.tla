----------------------------- MODULE BootSteps -----------------------------
(***************************************************************************)
(* The steps that boot code and platform initialization are made of.  The  *)
(* programs of the eight platforms, in ArmPlatforms and OtherPlatforms,    *)
(* are sequences of these steps; PlatformBoot says what a step does.       *)
(*                                                                         *)
(* A step is a record.  Its kind is `op`; a call of a driver, the most     *)
(* common kind, also says                                                  *)
(*                                                                         *)
(*   uses   what must have been set up, shared or on this CPU,             *)
(*   once   the LazyInit cells it fills (init_once panics on a full one),  *)
(*   sets   the other shared variables it sets,                            *)
(*   own    what it sets up on this CPU only,                              *)
(*   dev    the devices whose registers it accesses,                       *)
(*   ram    the pages of RAM it accesses through phys_to_virt.             *)
(*                                                                         *)
(* Addresses are numbers of 4 KB pages: 0x4000_0000 is page \h40000.       *)
(***************************************************************************)
EXTENDS Integers, Sequences

Plain == [op |-> "call", uses |-> {}, once |-> {}, sets |-> {}, own |-> {},
          dev |-> {}, ram |-> {}, map |-> {}]

Op(name) == [Plain EXCEPT !.op = name]

\* Entries of a boot page table: `size` pages of physical memory from `first`,
\* mapped one to one ("low") or at phys_to_virt ("high").
Entry(half, first, size, attr) ==
    [half |-> half, first |-> first, size |-> size, attr |-> attr]

\* 1 GB blocks of a table that init_mmu installs for both halves.
GB == \h40000
Block(n, attr) == {Entry(h, n * GB, GB, attr) : h \in {"low", "high"}}

WriteTable(entries) == [Op("table") EXCEPT !.map = entries]

-----------------------------------------------------------------------------
(* Steps of the assembly code and the functions of axcpu it calls.         *)

SetStack == Op("sp")           \* the stack pointer is loaded
InitMmu == Op("mmu")           \* translation goes through the boot table
JumpHigh == Op("jump")         \* the program counter becomes a high address
StackHigh == Op("sp_high")     \* PHYS_VIRT_OFFSET is added to the stack pointer
CallMain == Op("main")         \* call_main or call_secondary_main
switch_to_el1 == [Plain EXCEPT !.own = {"kernel_mode"}]
enable_fp == [Plain EXCEPT !.own = {"fp"}]
init_trap == [Plain EXCEPT !.own = {"trap"}]

\* Steps of cpu_boot: the stack top is stored, its cache line is written back,
\* the CPU is started.
PassStack == Op("stack")
CleanStack == Op("clean")
Release == Op("release")

-----------------------------------------------------------------------------
(* The drivers of axplat-arm-peripherals.                                  *)

pl011_init_early == [Plain EXCEPT !.once = {"UART"}, !.dev = {"uart"}]
psci_init == [Plain EXCEPT !.sets = {"PSCI_METHOD"}]
generic_timer_init_early == [Plain EXCEPT !.sets = {"RATIO"}]
pl031_init_early == [Plain EXCEPT !.uses = {"RATIO"}, !.dev = {"rtc"}]
init_gic == [Plain EXCEPT !.once = {"GIC", "TRAP_OP"}, !.dev = {"gicd", "gicc"}]
init_gicc == [Plain EXCEPT !.uses = {"GIC"}, !.own = {"irqs"}, !.dev = {"gicd", "gicc"}]
enable_irqs == [Plain EXCEPT !.uses = {"GIC", "irqs"}, !.own = {"timer"}, !.dev = {"gicd"}]
register_handler == [Plain EXCEPT !.uses = {"GIC"}, !.sets = {"uart_handler"}, !.dev = {"gicd"}]

\* What the kernel may do once init_early has returned: print, read the clock.
pl011_write_bytes == [Plain EXCEPT !.uses = {"UART", "trap"}, !.dev = {"uart"}]
generic_timer_ticks_to_nanos == [Plain EXCEPT !.uses = {"RATIO"}]

\* What it may do once init_later has returned: set its timer, take an
\* interrupt, send one.
gic_handle_irq == [Plain EXCEPT !.uses = {"TRAP_OP", "trap", "irqs", "timer"}, !.dev = {"gicc"}]
gic_send_ipi == [Plain EXCEPT !.uses = {"GIC", "irqs"}, !.dev = {"gicd"}]

psci_cpu_on == [Release EXCEPT !.uses = {"PSCI_METHOD"}]
psci_system_off == [Op("off") EXCEPT !.uses = {"PSCI_METHOD"}]

\* Shared by the platforms with a GIC.
GicEarlyUse(write_bytes) == <<write_bytes, generic_timer_ticks_to_nanos>>
GicLaterUse == <<gic_handle_irq, gic_send_ipi>>
GicLaterSecondary == <<init_gicc, enable_irqs>>
=============================================================================
