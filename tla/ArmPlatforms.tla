---------------------------- MODULE ArmPlatforms ---------------------------
(***************************************************************************)
(* The boot code, the initialization and the memory map of the five        *)
(* platforms on ARM: aarch64-qemu-virt, aarch64-bsta1000b,                 *)
(* aarch64-phytium-pi, aarch64-raspi and arm-qemu-virt, with the features  *)
(* irq, smp, rtc and fp-simd.  The order of the steps is the order of the  *)
(* instructions and calls.  Memory maps keep the ranges that the code      *)
(* accesses.                                                               *)
(***************************************************************************)
EXTENDS BootSteps

-----------------------------------------------------------------------------
(* aarch64-qemu-virt.                                                      *)

VirtPageTable == WriteTable(Block(0, "device") \cup Block(1, "normal"))

VirtStart == <<SetStack, switch_to_el1, enable_fp, VirtPageTable, InitMmu,
               StackHigh, CallMain>>

VirtStartSecondary == <<SetStack, switch_to_el1, enable_fp, InitMmu, StackHigh, CallMain>>

VirtInitEarly == <<init_trap, pl011_init_early, psci_init,
                   generic_timer_init_early, pl031_init_early>>

VirtInitLater == <<init_gic, init_gicc, enable_irqs, register_handler>>

VirtCpuBoot == <<psci_cpu_on>>

\* The RTC, at page \h9010, is missing from the ranges (0x0910_0000 is listed).
VirtMemory == [ram |-> {<<\h40000, \h8000>>}, reserved |-> {},
               mmio |-> {<<\h9000, 1>>, <<\h9100, 1>>, <<\h8000, \h20>>}]

Virt == [kernel |-> \h40200, memory |-> VirtMemory, ids |-> <<0, 1, 2, 3>>,
         dev |-> [uart |-> \h9000, rtc |-> \h9010, gicd |-> \h8000, gicc |-> \h8010],
         start |-> VirtStart, secondary |-> VirtStartSecondary,
         early |-> VirtInitEarly, later |-> VirtInitLater,
         later_secondary |-> GicLaterSecondary,
         early_use |-> GicEarlyUse(pl011_write_bytes), later_use |-> GicLaterUse,
         cpu_boot |-> VirtCpuBoot, system_off |-> psci_system_off]

-----------------------------------------------------------------------------
(* aarch64-bsta1000b.                                                      *)

BstaPageTable == WriteTable(Block(0, "device") \cup Block(1, "device") \cup Block(2, "normal"))

BstaStart == <<SetStack, switch_to_el1, enable_fp, BstaPageTable, InitMmu,
               StackHigh, CallMain>>

BstaStartSecondary == <<SetStack, switch_to_el1, InitMmu, enable_fp, StackHigh, CallMain>>

\* UART is a plain static: init touches its registers, it is no LazyInit.
dw_uart_init_early == [Plain EXCEPT !.sets = {"UART"}, !.dev = {"uart"}]
dw_uart_init_irq == [Plain EXCEPT !.uses = {"UART", "GIC"}, !.sets = {"uart_handler"},
                                  !.dev = {"uart", "gicd"}]
dw_uart_write_bytes == [Plain EXCEPT !.uses = {"UART", "trap"}, !.dev = {"uart"}]

BstaInitEarly == <<init_trap, psci_init, dw_uart_init_early, generic_timer_init_early>>

BstaInitLater == <<init_gic, init_gicc, enable_irqs, dw_uart_init_irq>>

\* What the CPUs of CPU_ID_LIST pass to main: MPIDR & 0xffffff as it is.  The list
\* (axconfig.toml:40) has eight ids; these are the first four, as CPU_NUM <= 4.
BstaIds == <<0, \h100, \h200, \h300>>

\* start_secondary_cpu(cpu_id): CPU_ID_LIST[cpu_id] is started.
BstaCpuBoot == <<psci_cpu_on>>

BstaMemory == [ram |-> {<<\h80000, \h70000>>}, reserved |-> {},
               mmio |-> {<<\h20008, 1>>, <<\h32000, 8>>, <<\h32011, 1>>,
                         <<\h33002, 1>>, <<\h70035, 1>>, <<\h70038, 1>>}]

\* get_bootmode and reset_qspi, callable at any time after boot.
get_bootmode == [Plain EXCEPT !.dev = {"topcrm"}]
reset_qspi == [Plain EXCEPT !.uses = {"RATIO"}, !.dev = {"safetycrm"}]

Bsta == [Virt EXCEPT
           !.kernel = \h81000, !.memory = BstaMemory, !.ids = BstaIds,
           !.dev = [uart |-> \h20008, gicd |-> \h32001, gicc |-> \h32002,
                    topcrm |-> \h33002, safetycrm |-> \h70035],
           !.start = BstaStart, !.secondary = BstaStartSecondary,
           !.early = BstaInitEarly, !.later = BstaInitLater,
           !.early_use = GicEarlyUse(dw_uart_write_bytes) \o <<get_bootmode, reset_qspi>>,
           !.cpu_boot = BstaCpuBoot]

-----------------------------------------------------------------------------
(* aarch64-phytium-pi.                                                     *)

PhytiumPageTable == WriteTable(Block(0, "device") \cup Block(2, "normal"))

\* CPU_ID_LIST, and the position in it that main receives.
PhytiumCpuIdList == <<\h200, \h201, 0, \h100>>
hart_to_logid(hart) == CHOOSE i \in 0 .. 3 : PhytiumCpuIdList[i + 1] = hart

PhytiumStart == <<SetStack, switch_to_el1, enable_fp, PhytiumPageTable, InitMmu,
                  StackHigh, CallMain>>

\* Mutant: the stack pointer keeps its physical address.
PhytiumStartSecondaryLow == <<SetStack, switch_to_el1, InitMmu, enable_fp, CallMain>>

PhytiumStartSecondary == <<SetStack, switch_to_el1, InitMmu, enable_fp, StackHigh, CallMain>>

PhytiumInitEarly == <<init_trap, pl011_init_early, psci_init, generic_timer_init_early>>

PhytiumInitLater == <<init_gic, init_gicc, enable_irqs, register_handler>>

PhytiumCpuBoot == <<psci_cpu_on>>

PhytiumMemory == [ram |-> {<<\h80000, \h80000>>}, reserved |-> {},
                  mmio |-> {<<\h2800D, 1>>, <<\h30000, \h8000>>}]

Phytium == [Virt EXCEPT
              !.kernel = \h90000, !.memory = PhytiumMemory,
              !.ids = [i \in 1 .. 4 |-> hart_to_logid(PhytiumCpuIdList[i])],
              !.dev = [uart |-> \h2800D, gicd |-> \h30880, gicc |-> \h30800],
              !.start = PhytiumStart, !.secondary = PhytiumStartSecondary,
              !.early = PhytiumInitEarly, !.later = PhytiumInitLater,
              !.cpu_boot = PhytiumCpuBoot]

-----------------------------------------------------------------------------
(* aarch64-raspi.                                                          *)

\* The comment calls the first block device memory; its flags are READ | WRITE
\* | EXECUTE, and the kernel is in it.
RaspiPageTable == WriteTable(Block(0, "normal") \cup Block(1, "normal")
                             \cup Block(2, "normal") \cup Block(3, "device"))

RaspiStart == <<SetStack, switch_to_el1, enable_fp, RaspiPageTable, InitMmu,
                StackHigh, CallMain>>

RaspiStartSecondary == <<SetStack, switch_to_el1, enable_fp, InitMmu, StackHigh, CallMain>>

RaspiInitEarly == <<init_trap, pl011_init_early, generic_timer_init_early>>

RaspiInitLater == <<init_gic, init_gicc, enable_irqs, register_handler>>

\* Mutant: the line of SECONDARY_STACK_TOP is not written back.
RaspiCpuBootNoClean == <<PassStack, [Release EXCEPT !.ram = {0}]>>

\* SECONDARY_STACK_TOP, written back to memory before the spin table (0xd8 to
\* 0xf0, in page 0) releases the CPU, which reads it with its caches off.
RaspiCpuBoot == <<PassStack, CleanStack, [Release EXCEPT !.ram = {0}]>>

RaspiMemory == [ram |-> {<<0, \h80000>>}, reserved |-> {<<0, 1>>},
                mmio |-> {<<\hFE201, 1>>, <<\hFE340, 1>>, <<\hFF841, 3>>}]

\* No power controller: system_off halts this CPU in a loop.
RaspiSystemOff == Op("halt")

Raspi == [Virt EXCEPT
            !.kernel = \h80, !.memory = RaspiMemory,
            !.dev = [uart |-> \hFE201, gicd |-> \hFF841, gicc |-> \hFF842],
            !.start = RaspiStart, !.secondary = RaspiStartSecondary,
            !.early = RaspiInitEarly, !.later = RaspiInitLater,
            !.cpu_boot = RaspiCpuBoot, !.system_off = RaspiSystemOff]

-----------------------------------------------------------------------------
(* arm-qemu-virt.                                                          *)

\* Mutant: one section too few.
ArmPageTableShort == WriteTable({Entry(h, \h40000, \h300, "normal") : h \in {"low", "high"}})

\* EARLY_BOOT_SECTION_NUM sections of 1 MB.
ArmPageTable == WriteTable({Entry(h, \h40000, \h400, "normal") : h \in {"low", "high"}})

\* Mutant: the two halves of the linear map are swapped.
ArmPageTableAfterMmuSwapped == WriteTable({Entry("high", 0, GB, "normal"),
                                           Entry("high", GB, GB, "device")})

ArmPageTableAfterMmu == WriteTable({Entry("high", 0, GB, "device"),
                                    Entry("high", GB, GB, "normal")})

ArmStart == <<SetStack, enable_fp, ArmPageTable, InitMmu, JumpHigh, StackHigh,
              ArmPageTableAfterMmu, CallMain>>

ArmStartSecondary == <<SetStack, enable_fp, InitMmu, JumpHigh, StackHigh, CallMain>>

\* One console_println! in the middle.
ArmInitEarly == <<init_trap, pl011_init_early, psci_init, generic_timer_init_early,
                  pl011_write_bytes, pl031_init_early>>

ArmInitLater == <<init_gic, init_gicc, enable_irqs>>

ArmCpuBoot == <<psci_cpu_on>>

ArmMemory == [ram |-> {<<\h40000, \h8000>>}, reserved |-> {},
              mmio |-> {<<\h9000, 1>>, <<\h9010, 1>>, <<\h8000, \h20>>}]

Arm == [Virt EXCEPT
          !.kernel = \h40010, !.memory = ArmMemory,
          !.start = ArmStart, !.secondary = ArmStartSecondary,
          !.early = ArmInitEarly, !.later = ArmInitLater, !.cpu_boot = ArmCpuBoot]
=============================================================================
