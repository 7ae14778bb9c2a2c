# Verification of axplat_crates

TLA+ models of `arceos-org/axplat_crates`, the hardware abstraction crates of
ArceOS, with TLC configurations that check them on small instances and TLAPS
proofs of what matters most for every instance. Paths below are relative to the
repository; `mp.rs:24` means line 24 of the file named in that section.

* [The system](#the-system)
* [Modules and runs](#modules-and-runs)
* [What is proved](#what-is-proved)
* [Only model-checked](#only-model-checked)
* [Disagreements found](#disagreements-found)
* [Not modelled](#not-modelled)
* [Plan](#plan)

To repeat the work: `tlc -config <cfg> <module>` for each pair listed below and
`tlapm <module>` for each `...Proofs.tla` and for `SequenceLemmas.tla`.

## The system

`axplat` declares the interfaces a kernel calls (`InitIf`, `ConsoleIf`, `MemIf`,
`TimeIf`, `PowerIf`, `IrqIf`), each with one implementation linked in, that of
the platform crate. The kernels of `examples/` are the only callers in the
repository. Everything runs on bare metal: the concurrency is that of CPUs, of
interrupts on a CPU and of devices.

| Component | State | Operations | Hard behaviour | Correct when |
|---|---|---|---|---|
| SMP kernel (`examples/smp-kernel`) | `INITED_CPUS`, `SECONDARY_BOOT_STACK`, loop variables, per-CPU `NEXT_DEADLINE` | `main`, `start_secondary_cpus`, `secondary_main`, `init_irq`, `irq_handler` | CPUs, timers and the primary's waits interleave | own stacks, no one past the barrier early, handler before interrupts, every wait ends |
| Starting CPUs (`cpu_boot`) | x86-pc startup page, `SMP_BOOT_STACK_TOP`, `SECONDARY_STACK_TOP`; nothing on SBI/PSCI platforms | `cpu_boot(cpu_id, stack)`, secondary entry | one shared cell for all CPUs; failures are dropped | the started CPU runs on the stack passed for it |
| IRQs (`IrqIf`) | `IRQ_HANDLER_TABLE` (shared), enable bits (controller; per CPU on loongarch64), `TIMER_HANDLER`, `IPI_HANDLER` (riscv64) | `set_enable`, `register`, `unregister`, `handle` | callers on several CPUs; table and controller are updated in two steps; interrupts arrive in between | no registration lost, a registered line is on, an interrupt is finished |
| IPIs (`IrqIf::send_ipi`) | pending bits in the controller | `send_ipi` (current, other, all but current), IPI branch of `handle` | an IPI that arrives while one is handled; a broadcast that is a loop | work posted before an IPI is done |
| Timers (`TimeIf`) | the one-shot timer, the counter, conversion ratios | `current_ticks`, `ticks_to_nanos`, `nanos_to_ticks`, `set_oneshot_timer`, `epochoffset_nanos` | deadlines in the past, 32-bit counts, time that passes during the call | the interrupt comes at the deadline |
| Memory ranges (`axplat/src/mem.rs`) | none | `ranges_difference`, `check_sorted_ranges_overlap`, `total_ram_size` | boundary cases, wrap-around | exactly the difference, sorted |
| Memory maps (`*/mem.rs`) | `RAM_REGIONS` on x86-pc | `phys_ram_ranges`, `reserved_phys_ram_ranges`, `mmio_ranges`, address conversion | a list of 16 places; a device that is not listed | what drivers access after the kernel has mapped the ranges is in them |
| Console (`axplat/src/console.rs`, UARTs) | `CONSOLE_LOCK`, the UART and its lock | `write_bytes`, `read_bytes`, `console_print!`, `pl011::irq_handler` | two levels of locks, an IRQ handler that echoes, partial SBI writes | lines are not mixed, nobody waits for itself |
| Initialization (`InitIf`) | `LazyInit` cells (`GIC`, `TRAP_OP`, `IO_APIC`, `UART`, ...) | `init_early`, `init_later`, and the `_secondary` forms | order on the primary and between CPUs | no cell is used before it is set, none is set twice |
| Boot code (`boot.rs`, `*.S`) | boot page tables, stack pointer, translation, CPU mode | `_start`, `_start_secondary` | code and stack change address under the running CPU; eight platforms do the same in different orders | every access is mapped; `main` gets what `InitIf` promises |
| Power (`PowerIf`) | PSCI conduit | `system_off`, `cpu_num`, `psci::cpu_off` | | the conduit is set before its first use |
| Real-time clocks | `RTC_EPOCHOFFSET_NANOS` | read once at boot | clocks of whole seconds, counters that do not start at 0 | the time of day is right |
| `axplat-macros`, `cargo-axplat` | none; files of a cargo project | code generation, command line | `new` fails half-way | |

How they interact. A kernel's entry (`#[axplat::main]`) calls `init_early` and
`init_later`, then `cpu_boot` for the other CPUs, which run the platform's entry
code and come out in `#[axplat::secondary_main]`. The kernel's trap handler
calls `irq::handle`, which calls the handlers that were registered with
`irq::register`; timer handlers call `time::set_oneshot_timer` for the next
tick. The handler table and `INITED_CPUS` are the shared memory between CPUs;
locks are `kspin::SpinNoIrq`.

## Modules and runs

### BringUp, SmpBoot: starting the CPUs

`BringUp.tla` is the abstract promise: a started CPU runs on the stack that was
passed for it, no stack is passed twice, and no CPU goes past the barrier before
all are initialized. `SmpBoot.tla` is the smp-kernel on top of `cpu_boot`; it
implements `BringUp` under the refinement mapping `BU` (arrived CPUs are those
whose `fetch_add` is behind them, released ones those that have found
`INITED_CPUS == CPU_NUM`).

| In `SmpBoot` | In the code |
|---|---|
| `pc[PRIMARY]`, `PrimaryStep` | `main` (`main.rs:36-59`) with `start_secondary_cpus` and `init_irq` inlined |
| `pc[c]`, `SecondaryStep(c)` | the entry code and `secondary_main` (`mp.rs:31-49`) |
| `i`, `logic` | the loop variable and `logic_cpu_id` (`mp.rs:13-14`) |
| `slot` | the shared cell: x86-pc `mp.rs:31`, loongarch64 `mp.rs:17`, raspi `mp.rs:27` |
| `given`, `stack` | the stack passed to `cpu_boot(c, _)`, the stack `c` loaded |
| `INITED` | `INITED_CPUS` |
| `handler`, `irqs`, `timer` | the timer's entry in the handler table, CPUs with IRQs enabled, the CPUs' one-shot timers |

With `SHARED_SLOT = FALSE` the firmware hands the stack to the CPU (SBI
`hart_start`, PSCI `CPU_ON`). `cpu_boot` is two steps, so that a CPU can load its
stack between them. Timers are armed by `init_later(_secondary)` although IRQs
are still off, which is why a tick may already be pending when they are enabled.
A CPU of `broken` is requested and never runs; which sets `broken` may be is the
constant `BROKEN`. The values of deadlines and the console are left out.

| Run | Constants | Properties | Shows |
|---|---|---|---|
| `smp_shared` | 4 CPUs, boot CPU 5, shared cell; all CPUs start, or one of 0 to 2 does not | `TypeOK`, `PrivateStacks`, `HandlerBeforeIrqs`, `FailureBlocksPrimary`, `TicksGoOn`, `BringUpSpec`, `PowersOff` | the wait on `INITED_CPUS` protects the shared cell; the second condition of `mp.rs:15` keeps `logic_cpu_id` inside the stack array although the boot CPU's id is not below `CPU_NUM`; a CPU that does not start, the first, a middle or the last one, blocks the primary for good; otherwise nobody waits for ever; a CPU that takes interrupts always has its timer armed or its interrupt pending, because `update_timer` is in the table before it is needed and each CPU has armed its own timer |

Bounds: four CPUs give three starts, so that there is a first, a middle and a
last one, and an iteration that starts nobody. The model is finite without any
further bound.

Fairness (`FairSpec`): each CPU keeps executing (weak fairness of its steps), an
armed timer expires and a pending interrupt is taken on a CPU whose IRQs are
enabled. These are properties of hardware, not of a scheduler: the kernel has no
threads. `PowersOff` is stated of behaviours in which no CPU is broken.

### IrqTable: register, unregister, handle

One line and its entry in the handler table. `RegisterHandler` is the
compare-and-swap in `HandlerTable::register_handler` (a call that loses it
changes nothing and is not a step), `RegisterEnable` the `set_enable` after it;
`UnregisterDisable` and `UnregisterSwap` are the two halves of `unregister`; `Ack`,
`LoadHandler`, `Eoi` are `handle`. Callers may be threads or handlers of
any CPU. `live` is a history variable: the handlers whose registration succeeded
and that have not been returned. `CONTROLLED = FALSE` is riscv64, whose
`set_enable` is empty, so that no line is ever off; the proofs hold for it too,
except where they say so, and no run is spent on it. The table is modelled from the external crate
`handler_table`, whose entries are atomic pointers.

| Run | Constants | Properties | Shows |
|---|---|---|---|
| `irq_concurrent` | 3 callers, 2 handlers | `RegisteredIsEnabled`, `LiveIsTable`, `RaisedIsServed` | when all calls have returned, a registered line is on; no registration is lost; a raised line is served or its handler removed |
| `irq_race` | 2 callers, 2 handlers | `UnregisterDisables` | violated |

Bounds: three callers let a registration, an unregistration and another
registration overlap pairwise. Fairness: a call in progress returns and an
interrupt in progress is finished; nobody has to call and no device has to
raise its line.

### IpiDelivery: inter-processor interrupts

IPIs are modelled under the use they are made for: a CPU posts work in another
CPU's mailbox and sends an IPI, the handler does all the work it finds. `Post`
is the call with its target (`IpiTarget`), `SendNext` one round of the loop of
riscv64 and loongarch64, `SendAll` the single broadcast of the local APIC and
the GIC. `pending` is one bit per CPU. `platform` says when it is cleared:
by the acknowledge (`"apic"`, which is also the GIC), by `handle_ipi` before the
handler (`"loongarch64"`), or after the handler (`"riscv64"`). On loongarch64 every
IPI is sent with vector 0, so the loop over the status bits runs the handler
once.

| Run | Constants | Properties | Shows |
|---|---|---|---|
| `ipi_first` | 2 CPUs, APIC and loongarch64 | `NoLostIpi`, `Delivered` | no IPI is lost and all work is done in the end |
| `ipi_riscv` | 2 CPUs, riscv64 | `Delivered` | violated |

Bounds: two CPUs that both send have every overlap of an IPI with the handling
of an earlier one. A third CPU would make the broadcast a loop of several rounds;
that no IPI is lost in it is proved for every number of CPUs, and liveness with
strong fairness over its 455304 states takes too long.

Fairness: a pending IPI is taken and its handling ends; the sending thread makes
progress although it is interrupted again and again (strong fairness of its
steps: an interrupt returns to the thread, and the interrupts that hold it up
are sent by threads like it).

### RangesDifference: the arithmetic of memory ranges

`ranges_difference` as one step per loop iteration, `check_sorted_ranges_overlap`
first. A range is a pair of machine words below `W`; sums wrap around as in a
build without overflow checks. `Difference`, `RefusesUnsorted` and `ResultSorted`
compare the result with sets of addresses (`Covered`), which is the reference
definition. They are stated for ranges whose ends are words (`Fits`).

| Run | Constants | Properties | Shows |
|---|---|---|---|
| `ranges_fitting` | `W = 6`, all lists of up to two ranges to exclude, single ranges and chosen pairs to exclude from | `Difference`, `RefusesUnsorted`, `ResultSorted` | the algorithm is right |

Bounds: with six addresses two ranges take every position relative to each
other (apart, touching, overlapping, nested, equal, empty). The proofs remove
the bounds.

### OneShotTimer: the clock and set_oneshot_timer

One CPU, its counter, its real-time clock and its timer, on four platforms
(`platform`). `init_early` reads the counter (x86-pc only, `ReadTsc`), the clock of
whole seconds (`ReadRtc`) and keeps the offset (`SetOffset`). The call of
`set_oneshot_timer` reads the clock and computes what to program (`ReadClock`), then
programs the timer (`Program`). Time may pass between any two of these steps. A
tick is `NPT` nanoseconds, so both conversions round down. `W` stands for 2^32, `W64`
for 2^64 and `SEC` for 10^9.

On x86-pc the counter ticks are those of the time stamp counter and the timer's
are nanoseconds (`LAPIC_TICKS_PER_SEC` is 10^9); the model takes a counter
slower than a nanosecond, the case in which rounding shows.

| Run | Platforms | Properties | Shows |
|---|---|---|---|
| `timer_careful` | riscv64, arm, x86 | `WallClock`, `InTime`, `NotEarly` | the interrupt comes at the deadline or at once, at most a tick and the duration of the call late, and less than a tick early; the time of day is as exact as the clock that was read |
| `timer_loongarch64` | loongarch64 | `InTime` | violated |
| `clock_x86` | x86 | `X86WallClock` | violated |

Bounds: seconds of four and ticks of two nanoseconds up to `MAX_NOW = 14`, so that
`init_early` runs within the first second or in the third, and deadlines (0..15) lie
before it, at, between and after the ticks, and beyond the time modelled. `W = 16`
is above every interval that occurs. `NotEarly` is stated of intervals that fit the
count register (`FitsCount`, the `debug_assert` of `generic_timer.rs:35`), because the
proof is for every `W`.

### BootSteps, ArmPlatforms, OtherPlatforms, PlatformBoot: from the first instruction

Every platform is a record of programs: sequences of steps for the entry code of
the first and of the other CPUs, `init_early`, `init_later`, `init_later_secondary`
and `cpu_boot`, in the order of the source, with its addresses (in pages),
devices and memory map from `axconfig.toml`. `BootSteps` defines the steps
and the drivers of `axplat-arm-peripherals`; `ArmPlatforms` and `OtherPlatforms` hold
one section for each of the eight platform crates. A call of a driver is described by the
shared cells it fills and needs, what it sets up on its own CPU, and the
device registers and RAM it accesses. Two platforms with the same calls in another order
are different programs, which is where mistakes would be.

`PlatformBoot` runs them: one action per kind of step, on `CPU_NUM` CPUs.

| In `PlatformBoot` | In the code |
|---|---|
| `table`, `InitPageTable` | the boot page tables, `init_boot_page_table`, `init_page_tables(_after_mmu)`; on x86-pc data of `multiboot.S` |
| `root`, `init_mmu`, `RemapKernel` | the table a CPU translates through: none, the boot table, the kernel's |
| `at`, `sp`, `Jump`, `LoadStack`, `RaiseStack`, `EnterMain` | low or high program counter and stack pointer; `call_main`, `call_secondary_main` |
| `own`, `shared`, `Call` | per-CPU set-up (trap vector, FP, EL1, GIC interface, timer) and `LazyInit` cells and statics |
| `slot`, `StoreStack`, `flush_dcache_line` | the shared stack cell, with its cached value and the one in memory |
| `i`, `For`, `NextCpu` | the loop of `start_secondary_cpus` (`mp.rs:14`): the head leaves it, passes over the first CPU or enters the body |
| `StartCpu`, `Wait`, `system_off` | `cpu_boot`, the kernel's wait, power-off |

The kernel around them is smp-kernel's order of calls; it may install a page table of
its own that contains exactly what `MemIf` lists (`conf.fine`), as ArceOS does, and
where the stack does not pass through a shared cell it may start all CPUs
without waiting (`conf.waits`).

| Run | Constants | Properties | Shows |
|---|---|---|---|
| `boot_all` | all platforms, 3 CPUs, any first CPU where the platform allows it, an image of 1008 pages | `TypeOK`, `NoFault`, `InitOrder`, `EntryContract`, `OwnStack`, `LiveTable`, `Completes` | no access faults, on the boot table or on the kernel's; every cell is filled once and before its use, on every CPU; `main` and `secondary_main` find what `axplat/src/init.rs:19-23` promises, on their own stack; the table in use only grows; all CPUs come up |
| `boot_ids` | bsta1000b, 2 CPUs | `LogicalId` | violated |

Bounds: the second of two secondary CPUs meets a shared cell that has been used and cells
filled by others. 1008 pages is the largest image arm-qemu-virt can boot: 4 MB less the
64 KB below the kernel. Fairness: a CPU that has been started keeps executing.

Assumed of `axcpu`: on aarch64 and loongarch64 `init_mmu` installs one table for both
halves, and without translation loongarch64 ignores the upper address bits.

### Console: printing and echoing

`__simple_print` (`LockConsole`, `NextPiece`, `UnlockConsole`) on top of `write_bytes` of
five kinds of UART: the PL011 with one lock for the whole slice, the 16550 of x86-pc,
that of loongarch64 and the DesignWare UART with one lock for each character, the SBI console with
none, which takes some of the bytes at a time (`SbiWrite`). `PutChar` is the call of `putchar` with
the next byte, `Convert` what each UART makes of a line feed, and `SameGuard` says that only the PL011
goes on to the next byte under the same guard. `UartIrq`, `IsReceiveInterrupt`, `AckInterrupts` and `Echo` are
`pl011::irq_handler`, statement by statement, because each takes the lock anew. Both
locks are `SpinNoIrq`: `IrqsOn` says when a CPU takes an interrupt, `Runs` that a thread
stands still while a handler runs on its CPU. `wire` is what the UART was handed: each byte
with who wrote it, in which call, and whether the UART took it. The drivers wait until the
UART is ready, or write again what the firmware did not take, except that of loongarch64: it
discards the result of `uart.put` (`console.rs:22-26`), and `Put` may then lose the byte (`Takes`).
`LineEnds` and `AllOut` therefore speak of what the UART is handed on all five, and of what
has gone out on the other four.

| Run | Constants | Properties | Shows |
|---|---|---|---|
| `console_all` | 2 CPUs: a thread that prints and reads and takes the UART's interrupts, one that prints and writes directly and is interrupted by a handler that prints; two characters typed | `TypeOK`, `NoMixing`, `LineEnds`, `AllOut`, `NoSelfDeadlock`, `EveryCallEnds`, `InputIsEchoed` | prints are not mixed although their text goes out in pieces; a line feed follows its carriage return although echo and direct writes bypass `CONSOLE_LOCK`; text is handed over complete and in order, and goes out except on loongarch64; no one waits for a lock of the thread it interrupted; on the PL011, as long as the kernel does not read the console itself, the echo that has gone out catches up again and again with what has been typed, each character once and in order |

Bounds: prints of two pieces, the shortest that can be mixed; a line end that is typed
and one that is written directly. `MAX_LOST = 1`: one byte that the UART does not take, anywhere, is
enough to lose one half of a line end; the proofs are for every `MAX_LOST`. `MAX_RW_SIZE = 2` lets the firmware take none, a part or all of
a write. Fairness: CPUs keep executing what they have begun and take the interrupt when
they can; the firmware takes a byte sooner or later. Spin locks need not be fair,
because every context makes a bounded number of calls.

## What is proved

Each proof module extends its component's module. All constants are arbitrary
within the named assumptions (`CpuNumAssumption`, ...), which TLC also
evaluates in every run.

`SmpBootProofs` proves `TypeCorrect`, `StacksArePrivate`, `HandlerComesFirst`,
`FailureBlocks`, `TicksKeepComing` and `Refinement` (`Spec => BringUpSpec`). `PrivateStacks` is not inductive: nothing
in it says why the shared cell still holds the right stack when a CPU reads it.
`IInv` adds:

* `SlotInv`: while a CPU is between its start and the reading of the cell, the
  primary waits and the cell holds the stack given to that CPU;
* `StackInv`, `BootedInv`: a CPU runs on the stack given to it; the stacks given
  are those below `logic`, each once, to CPUs up to the loop variable;
* `StartInv`, `CountInv`: only booted CPUs run; `logic` is the number of booted
  CPUs and `INITED` the number of CPUs that have arrived. So `INITED >= logic`
  means that every booted CPU has arrived, and none is left to read the cell;
* `LoopInv`, `HandlerInv`: what the primary's program counter says of its loop and of
  the handler. It arrives after `register`, and without it the count stays below
  `CPU_NUM`, so a full count implies a handler.

`FailureBlocks` needs the same counting once more: `BrokenInv` says that a broken CPU
never arrives, so that after its start fewer CPUs have arrived than the primary
waits for (`MissingCpu`), and the primary, whose loop ends only behind the wait, never
leaves it.

`TicksKeepComing` needs `TimerInv`: a CPU behind its initialization has its timer armed or
pending, also before it enables IRQs; the interrupt that disarms it finds the handler by
`HandlerInv`, and the handler arms it again.

The counting rests on the cardinality facts of `FiniteSetTheorems`. The proofs
hold for both values of `SHARED_SLOT` and any `BROKEN`.

`IrqTableProofs` proves `RegisteredLineIsOn` and `NoRegistrationLost`. The
invariant adds: a registered line that is off has a caller still on its way,
one that has yet to enable it or one that has yet to empty the entry.
`UnregisterAlone` proves what the run `irq_race` refutes in general under the
condition that makes it true: calls do not overlap (`NoOverlap`) and `set_enable` works
(`CONTROLLED`). Its invariant `OffInside` says that the line is off while
`unregister` is between its halves.

`RangesDifferenceProofs` proves `ComputesDifference`, `RefusesExactlyUnsorted` and
`ResultIsSorted` for all lists over all word sizes. The invariant says, loop by
loop, what is known: the neighbours compared so far are sorted up to `j`; the
output covers what the finished ranges of `from` leave; within a range, the
output plus what remains above `start` covers what the excluded ranges
before `j` leave, and these end at or before `start` or are disjoint from the range.
`AppendCovers` and `AppendSorted` are the lemmas about one more reported piece.

`IpiDeliveryProofs` proves `NoIpiLost` for all sets of platforms without riscv64. With the
types, `NoLostIpi` is inductive: work is covered by `todo`, then by the pending
bit, then by a handler that is still to run, and no step removes the last of
the three. On riscv64 the step `Return` does, which is the finding below.

`OneShotTimerProofs` proves `WallClockIsRight`, `TimerIsInTime` and `TimerIsNotEarly` for every
tick length, counter width, boot time, deadline and delay between two steps. `IInv`
adds to the types: what has been read lies in the past (`PastInv`), the clock of whole
seconds is less than a second behind (`RtcInv`), so the offset is right to a second, a
tick and the time between the two readings (`OffsetInv`), and the value to be
programmed is the interval from the reading of the clock, cut to the width of the
register (`ValueInv`). Hypotheses: `TimerIsInTime` is for sets of platforms without
loongarch64, whose driver refutes it (`timer_loongarch64`); `NotEarly` has `FitsCount`;
`WallClock` leaves out x86-pc (`clock_x86`).

`ConsoleProofs` proves, for any sets of threads and handlers on any CPUs, any calls
they make (`JobsAssumption`) and any input, `TypeCorrect`, `HandlersNeverDeadlock`, `LinesEnd`,
`PrintsAreNotMixed` and `TextsGoOut` (a call that has returned has handed exactly its text to the
UART, and except on loongarch64 all of that has gone out). The core of the invariant is `LockInv`: a context owns
`CONSOLE_LOCK` exactly while it prints, and the UART's lock exactly while bytes of `putchar` are left. It rests
on `PlaceInv` and `TextInv` (where each kind of context can be, and when its texts are
empty). On top of it:

* `LineInv` says what goes out next where `\n` is sent as two characters: either no
  line feed, or the two characters with nothing out yet, or the line feed right
  behind the carriage return on the wire; `LinePairs` is what it says of the bytes handed over;
* `TakenInv` says that only on loongarch64 a byte is lost, which turns what has been handed
  over into what has gone out (`WrittenIs`);
* `ClosedInv` says that a print with a later byte of another print behind it is
  over, so that no byte of it can follow;
* `OutInv` says that what a context has handed to the UART in its present call, together
  with what is left of the text, is the encoding of the whole text, and `DoneInv` that
  finished calls stay complete.

`SequenceLemmas` holds what `OutInv` needs about sequences and is not in the library: associativity
of concatenation, and `FlattenSeq` (which joins the pieces of a text) of an appended,
concatenated or split list. `FlattenSeq` is defined by a fold; its facts are proved by
induction, written as the argument of the least counterexample in a set of naturals
(`LeastNat`, `SetInduction`), which needs no operator parameter.

`PlatformBootProofs` proves `TypeCorrect`, `EntryIsReady`, `StacksAreOwn`, `TableOnlyGrows`,
`NothingUsedEarly` and `NoFaults` for any subset of the eight platforms, one to four CPUs (`CpuNumAssumption`: the model keeps
the first four of the ids a platform lists), any first CPU the platform allows, any image larger than the stacks, kernels that wait and
kernels that do not, and with or without a kernel page table. `NoFaults` has one hypothesis more, on the size of the
image (part 5). It has five parts:

1. The programs. `Ready` and `TableFirst` say what the proofs use of entry code (main
   is its last step; before it the stack is loaded and then high, translation is
   turned on, the CPU is in kernel mode with FP enabled; the table is written before
   translation is turned on), `Passes` what they use of `cpu_boot` (stored, written
   back, started, in this order). `CodeIsFit` proves them of each platform's sequences.
2. The places. `PrimaryPlace`, `SecondaryPlace` and `LoopStep` say at which places of the composed
   programs each kind of step occurs.
3. The invariant. `LoopInv` and `OnInv`: the CPUs that are on are those the loop has
   passed, and if the kernel waits, the only one that may still be on its way is CPU `i`,
   with the first CPU at the wait. `SlotInv`: from the store to the wait the cell, and on raspi
   memory too, holds the stack of `i`. So a CPU that loads its stack from the cell finds its own
   (`LoadsOwnStack`); and no CPU is started twice (`StartsOffCpu`). `ReadyInv`: every step of the entry code that a CPU
   has taken has left its effect, which at the end of the entry code is the contract of
   main. `RootInv` and `ArmInv`: a CPU translates only behind the step that turns
   translation on, and the one table that is rewritten after that, on arm-qemu-virt,
   is the first one until then.
4. The order of initialization. `Orderly` says of a sequence that run from given cells and
   what the CPU has set up itself, no step uses anything else, and none fills a cell twice; `Order` says it of the parts
   of a platform's code, with the cells that `init_early` and `init_later` fill, and one lemma
   per platform proves it. `InOrder` joins sequences, so `ProgramsInOrder` gets it for what the first CPU runs before the
   loop and for all of a secondary CPU's program. `DoneInv`: every step a CPU has
   taken has left its effect. `SharedInv`: only the first CPU fills cells, and only in
   front of the loop. A secondary CPU runs only when the first one is
   behind that (`SecondaryRunsLater`), so it finds all cells filled, and fills none
   (`SecondaryFillsNothing`).
5. Memory. `Layout` says of a platform that the image, every device and every page of RAM its
   code accesses are in the boot table when translation is turned on or when main is called, that high addresses
   are used behind that step only, and that what is accessed behind `init_early` is in the lists of
   memory ranges, which the kernel's own table is built from; one lemma per platform proves it from the addresses in
   the source. `Split` carries it over to the composed programs. The invariant `FaultInv` says that a CPU
   uses high addresses only when it translates (`HighInv`, except on loongarch64), that it is at high
   addresses behind its entry code (`BehindInv`), that a stack pointer is the CPU's own
   (`PageInv`), that the kernel's table comes with the step that installs it
   (`KernelInv`), and that what the first CPU has written into the boot table is still mapped
   (`TableInv`, which on arm-qemu-virt needs `ArmRewrites`). The hypothesis, `IMAGE <= Room[p]`: the image ends inside the
   block of the boot table and the region of RAM it starts in, on arm-qemu-virt inside
   the 4 MB its first table maps (`Room` gives the pages; with `Platforms` a single platform the
   hypothesis is about that one alone). Nothing in the repository checks it, and it is needed: with one
   page more TLC finds the topmost stack outside, except on raspi, whose next block is mapped, too.

## Only model-checked

Liveness (`PowersOff`, `RaisedIsServed`, `Delivered`, `Completes`,
`EveryCallEnds`, `InputIsEchoed`) is outside what the provers handle here. Every invariant and
action property of a passing run is also proved.

## Disagreements found

| Run | Code | What it contradicts |
|---|---|---|
| `irq_race` | `unregister` disables first and removes second; a concurrent `register` enables in between (`gic.rs:44`, same in x86-pc and loongarch64) | "It also disables the IRQ if the unregistration succeeds", `axplat/src/irq.rs:43` |
| `ipi_riscv` | the software interrupt is cleared after the handler (`irq.rs:157`) | what `send_ipi` is for, `axplat/src/irq.rs:54` |
| `timer_loongarch64` | a deadline that has passed underflows (`time.rs:125`) | "triggered at the specified monotonic time deadline", `axplat/src/time.rs:40` |
| `clock_x86` | the offset subtracts `INIT_TICK`, which the clock has already subtracted (`time.rs:46`, `time.rs:82`) | "wall time offset to monotonic clock start", `axplat/src/time.rs:34` |
| `boot_ids` | bsta1000b passes the hardware id to `main` (`boot.rs:102`, `boot.rs:137`) | "logical CPU ID (0, 1, ..., N-1)", `axplat/src/init.rs:14` |

Seen in the code and not given a run:

* `ranges_difference`: the end of an excluded range that reaches the last address wraps to 0
  in a build without overflow checks, and the range is skipped (`mem.rs:262`);
* x86-pc: `set_oneshot_timer` panics for a deadline more than 2^32 ticks, about four
  seconds, away (`time.rs:112`); on arm a release build truncates such an interval and the
  interrupt comes early (`generic_timer.rs:36`);
* riscv64: `unregister` never touches the controller (`irq.rs:129`, `irq.rs:63`), against
  `irq.rs:105` there;
* aarch64-qemu-virt lists 0x0910_0000 among its MMIO ranges while the RTC is at
  0x0901_0000: harmless as long as the RTC is read in `init_early` only, which is what
  `NoFault` checks;
* raspi: the comment at `boot.rs:19` calls the first block device memory, its flags make it
  normal memory, which it has to be; `system_off` halts one CPU;
* phytium-pi and bsta1000b map 1 GB of RAM at boot, their memory maps list more;
* the DesignWare UART turns `\r\n` into two line ends (`dw_apb_uart.rs:17`);
* `console_println!()` without arguments names a macro that does not exist
  (`axplat/src/console.rs:40`);
* loongarch64: `write_bytes` discards the result of `uart.put` (`console.rs:22-26`), so a byte that the
  UART does not take is lost and the call returns as if it had gone out, against "Writes given
  bytes to the console" (`axplat/src/console.rs:8`); `Console` models the loss;
* loongarch64 reads the year and the rest of the date in two steps (`time.rs:56`);
* a panic inside `console_print!` prints again under the same lock.

## Not modelled

`cargo-axplat` and `axplat-macros`: file and process I/O of a command line tool, and
code generation; neither has state at run time. The template of `cargo-axplat new` is
a platform whose functions are `todo!()`. Image headers, GDTs and register moves of the boot
code; device registers beyond the bits named above; the PLIC of riscv64, which the
code does not drive; the read-modify-write of `ecfg` on loongarch64 under nested
interrupts, which no caller in the repository makes; the deadlines of `update_timer`;
the special interrupt ids of the GIC, which need no end of interrupt (`gic.rs:64`); the early return for a
platform without a real-time clock (`rtc_base == 0`); the ids of bsta1000b's CPUs beyond the
first four; the index of raspi's `CPU_SPIN_TABLE`;
arithmetic at full width (overflow of `ticks * 1000`, truncated quotients,
`int_ratio`); `psci::cpu_off`, which has no caller; the number of regions a boot loader reports
to x86-pc. Memory ordering weaker than sequential consistency is left out except where
the code handles it: raspi's cell that is read with the caches off.

## Plan

What remains, in this order:

1. The deadlines of `update_timer` over `OneShotTimer`: they never go back, and ticks are
   skipped only when handlers are late.
2. `set_enable` called by kernels, with the per-CPU mask of loongarch64.
