------------------------------ MODULE SmpBoot ------------------------------
(***************************************************************************)
(* Bringing up an SMP kernel: examples/smp-kernel on top of the platform   *)
(* crates' cpu_boot and secondary entry code.                              *)
(*                                                                         *)
(* The primary CPU initializes the platform, starts the other CPUs one at  *)
(* a time, installs the timer IRQ handler, and then all the CPUs meet at a *)
(* barrier on the counter INITED_CPUS.  Two things pass between CPUs:      *)
(*                                                                         *)
(*   - the boot stack of a secondary CPU.  With SHARED_SLOT (x86-pc: the   *)
(*     startup page at 0x6000; loongarch64: SMP_BOOT_STACK_TOP; raspi:     *)
(*     SECONDARY_STACK_TOP) cpu_boot leaves it in the one memory cell      *)
(*     every starting CPU reads; without it (riscv64: SBI HSM; PSCI) the   *)
(*     firmware hands the value itself to the CPU it starts;               *)
(*   - the timer handler, one entry of a table all CPUs share, although    *)
(*     every CPU has its own one-shot timer and enables its own IRQs.      *)
(*                                                                         *)
(* A CPU of `broken` never runs: cpu_boot returns no result, and the       *)
(* platforms that see the failure (no HSM extension, a PSCI error) log it  *)
(* at most.                                                                *)
(***************************************************************************)
EXTENDS Integers, FiniteSets

CONSTANTS CPU_NUM,       \* number of CPUs of the kernel (AX_CPU_NUM)
          PRIMARY,       \* hardware id of the boot CPU, not always < CPU_NUM
          SHARED_SLOT,   \* is the boot stack passed in one shared cell?
          BROKEN,        \* which sets of CPUs may fail to start
          NoStack

ASSUME CpuNumAssumption == CPU_NUM \in Nat \ {0}
ASSUME PrimaryAssumption == PRIMARY \in Nat
ASSUME SlotAssumption == SHARED_SLOT \in BOOLEAN
ASSUME BrokenAssumption == \A B \in BROKEN : PRIMARY \notin B
ASSUME NoStackAssumption == NoStack \notin Nat

CPU == (0 .. CPU_NUM - 1) \cup {PRIMARY}

\* The CPUs start_secondary_cpus is meant to start: CPU_NUM - 1 of them.
Secondary == IF PRIMARY < CPU_NUM THEN (0 .. CPU_NUM - 1) \ {PRIMARY}
                                  ELSE 0 .. CPU_NUM - 2

\* The indices of SECONDARY_BOOT_STACK.
Stack == 0 .. CPU_NUM - 2

VARIABLES
    broken,     \* the CPUs that do not start
    pc,         \* where each CPU is
    i,          \* start_secondary_cpus: the loop variable
    logic,      \* start_secondary_cpus: logic_cpu_id
    slot,       \* the shared boot stack cell
    given,      \* given[c]: the stack passed to cpu_boot(c, _)
    stack,      \* stack[c]: the stack secondary CPU c runs on
    INITED,     \* INITED_CPUS
    handler,    \* is update_timer in the IRQ handler table?
    irqs,       \* the CPUs that have IRQs enabled
    timer       \* each CPU's one-shot timer

bootVars == <<broken, i, logic, slot, given>>
irqVars == <<handler, irqs, timer>>
vars == <<broken, pc, i, logic, slot, given, stack, INITED, handler, irqs, timer>>

PrimaryPc == {"init_kernel", "loop", "cpu_boot", "wait", "init_irq",
              "enable_irqs", "fetch_add", "spin", "busy_wait", "system_off"}
SecondaryPc == {"off", "entry", "init_kernel", "fetch_add", "spin", "idle"}

Init == /\ broken \in BROKEN
        /\ pc = [c \in CPU |-> IF c = PRIMARY THEN "init_kernel" ELSE "off"]
        /\ i = 0
        /\ logic = 0
        /\ slot = NoStack
        /\ given = [c \in CPU |-> NoStack]
        /\ stack = [c \in CPU |-> NoStack]
        /\ INITED = 0
        /\ handler = FALSE
        /\ irqs = {}
        /\ timer = [c \in CPU |-> "off"]

Goto(c, l) == pc' = [pc EXCEPT ![c] = l]

\* The machine runs until system_off.
Powered == pc[PRIMARY] # "system_off"

-----------------------------------------------------------------------------
(* The primary CPU.                                                        *)

\* init_kernel: the platform's init_early and init_later; the latter unmasks
\* and arms the timer of this CPU, which is still running with IRQs disabled.
PrimaryInit == /\ pc[PRIMARY] = "init_kernel"
               /\ timer' = [timer EXCEPT ![PRIMARY] = "armed"]
               /\ Goto(PRIMARY, "loop")
               /\ UNCHANGED <<bootVars, stack, INITED, handler, irqs>>

\* Mutant: the bound on the number of boot stacks is forgotten.
NeedsBootUnbounded == i # PRIMARY

\* `i != primary_cpu_id && logic_cpu_id < CPU_NUM - 1`
NeedsBoot == i # PRIMARY /\ logic < CPU_NUM - 1

\* An iteration that starts no CPU.
SkipCpu == /\ pc[PRIMARY] = "loop"
           /\ i < CPU_NUM
           /\ ~NeedsBoot
           /\ i' = i + 1
           /\ UNCHANGED <<broken, pc, logic, slot, given, stack, INITED, irqVars>>

\* cpu_boot(i, stack), first half: the stack top is stored in the shared cell.
PassStack == /\ pc[PRIMARY] = "loop"
             /\ i < CPU_NUM
             /\ NeedsBoot
             /\ slot' = IF SHARED_SLOT THEN logic ELSE slot
             /\ Goto(PRIMARY, "cpu_boot")
             /\ UNCHANGED <<broken, i, logic, given, stack, INITED, irqVars>>

\* cpu_boot(i, stack), second half: the start request (INIT and SIPI, a mailbox
\* IPI, hart_start, CPU_ON).  A CPU that cannot start leaves no trace.
StartCpu == /\ pc[PRIMARY] = "cpu_boot"
            /\ given' = [given EXCEPT ![i] = logic]
            /\ logic' = logic + 1
            /\ pc' = [pc EXCEPT ![PRIMARY] = "wait",
                                ![i] = IF i \in broken THEN @ ELSE "entry"]
            /\ UNCHANGED <<broken, i, slot, stack, INITED, irqVars>>

\* Mutants: no wait after cpu_boot; a wait for the CPUs booted before this one.
CpuUpNoWait == TRUE
CpuUpOffByOne == INITED >= logic - 1

\* `while INITED_CPUS.load(Acquire) < logic_cpu_id` is over.
CpuUp == INITED >= logic

WaitCpu == /\ pc[PRIMARY] = "wait"
           /\ CpuUp
           /\ i' = i + 1
           /\ Goto(PRIMARY, "loop")
           /\ UNCHANGED <<broken, logic, slot, given, stack, INITED, irqVars>>

LoopEnd == /\ pc[PRIMARY] = "loop"
           /\ i = CPU_NUM
           /\ Goto(PRIMARY, "init_irq")
           /\ UNCHANGED <<bootVars, stack, INITED, irqVars>>

\* init_irq, first half: register(TIMER_IRQ, update_timer).
RegisterTimer == /\ pc[PRIMARY] = "init_irq"
                 /\ handler' = TRUE
                 /\ Goto(PRIMARY, "enable_irqs")
                 /\ UNCHANGED <<bootVars, stack, INITED, irqs, timer>>

\* init_irq, second half: enable_irqs.
PrimaryEnableIrqs == /\ pc[PRIMARY] = "enable_irqs"
                     /\ irqs' = irqs \cup {PRIMARY}
                     /\ Goto(PRIMARY, "fetch_add")
                     /\ UNCHANGED <<bootVars, stack, INITED, handler, timer>>

\* The last instruction of main: busy_wait(5 s) is over.
SystemOff == /\ pc[PRIMARY] = "busy_wait"
             /\ Goto(PRIMARY, "system_off")
             /\ UNCHANGED <<bootVars, stack, INITED, irqVars>>

-----------------------------------------------------------------------------
(* The barrier, common to all CPUs.                                        *)

\* INITED_CPUS.fetch_add(1, Release)
FetchAdd(c) == /\ Powered
               /\ pc[c] = "fetch_add"
               /\ INITED' = INITED + 1
               /\ Goto(c, "spin")
               /\ UNCHANGED <<bootVars, stack, irqVars>>

\* Mutant: the barrier waits for the secondary CPUs only.
init_smp_okSecondaries == INITED = CPU_NUM - 1

init_smp_ok == INITED = CPU_NUM

PrimaryPass == /\ pc[PRIMARY] = "spin"
               /\ init_smp_ok
               /\ Goto(PRIMARY, "busy_wait")
               /\ UNCHANGED <<bootVars, stack, INITED, irqVars>>

\* A secondary CPU enables its IRQs as soon as it is past the barrier.
SecondaryPass(c) == /\ Powered
                    /\ c # PRIMARY
                    /\ pc[c] = "spin"
                    /\ init_smp_ok
                    /\ irqs' = irqs \cup {c}
                    /\ Goto(c, "idle")
                    /\ UNCHANGED <<bootVars, stack, INITED, handler, timer>>

-----------------------------------------------------------------------------
(* A secondary CPU.                                                        *)

\* The boot code (ap_start.S, _start_secondary): the stack pointer is loaded,
\* from the shared cell or from the register the firmware set.
SecondaryEntry(c) == /\ Powered
                     /\ pc[c] = "entry"
                     /\ stack' = [stack EXCEPT ![c] = IF SHARED_SLOT THEN slot ELSE given[c]]
                     /\ Goto(c, "init_kernel")
                     /\ UNCHANGED <<bootVars, INITED, irqVars>>

\* Mutant: a secondary CPU relies on the primary CPU to arm the timer.
SecondaryInitUnarmed(c) == /\ Powered
                           /\ c # PRIMARY
                           /\ pc[c] = "init_kernel"
                           /\ Goto(c, "fetch_add")
                           /\ UNCHANGED <<bootVars, stack, INITED, irqVars>>

\* init_kernel_secondary: init_later_secondary arms the timer of this CPU.
SecondaryInit(c) == /\ Powered
                    /\ c # PRIMARY
                    /\ pc[c] = "init_kernel"
                    /\ timer' = [timer EXCEPT ![c] = "armed"]
                    /\ Goto(c, "fetch_add")
                    /\ UNCHANGED <<bootVars, stack, INITED, handler, irqs>>

-----------------------------------------------------------------------------
(* The timers.                                                             *)

\* The hardware: a timer that was armed expires, once.
TimerExpires(c) == /\ Powered
                   /\ timer[c] = "armed"
                   /\ timer' = [timer EXCEPT ![c] = "pending"]
                   /\ UNCHANGED <<pc, bootVars, stack, INITED, handler, irqs>>

\* irq_handler on CPU c.  Only update_timer arms the timer again, so the first
\* interrupt that finds no handler would be the last one of this CPU.
TimerIrq(c) == /\ Powered
               /\ c \in irqs
               /\ timer[c] = "pending"
               /\ timer' = [timer EXCEPT ![c] = IF handler THEN "armed" ELSE "lost"]
               /\ UNCHANGED <<pc, bootVars, stack, INITED, handler, irqs>>

-----------------------------------------------------------------------------
PrimaryStep == \/ PrimaryInit \/ SkipCpu \/ PassStack \/ StartCpu \/ WaitCpu
               \/ LoopEnd \/ RegisterTimer \/ PrimaryEnableIrqs
               \/ FetchAdd(PRIMARY) \/ PrimaryPass \/ SystemOff

SecondaryStep(c) == \/ SecondaryEntry(c) \/ SecondaryInit(c)
                    \/ FetchAdd(c) \/ SecondaryPass(c)

Next == \/ PrimaryStep
        \/ \E c \in CPU \ {PRIMARY} : SecondaryStep(c)
        \/ \E c \in CPU : TimerExpires(c) \/ TimerIrq(c)

Spec == Init /\ [][Next]_vars

(***************************************************************************)
(* Fairness: every CPU that runs keeps executing its program, a started    *)
(* CPU eventually reaches its entry, an armed timer expires and a pending  *)
(* interrupt is taken once IRQs are enabled.                               *)
(***************************************************************************)
Fairness == /\ WF_vars(PrimaryStep)
            /\ \A c \in CPU \ {PRIMARY} : WF_vars(SecondaryStep(c))
            /\ \A c \in CPU : WF_vars(TimerExpires(c)) /\ WF_vars(TimerIrq(c))

FairSpec == Spec /\ Fairness
-----------------------------------------------------------------------------
(* Properties.                                                             *)

\* Every variable has its type; in particular logic_cpu_id never indexes past
\* SECONDARY_BOOT_STACK (mp.rs:15-18) and INITED_CPUS never exceeds CPU_NUM,
\* whichever hardware id the boot CPU has.
TypeOK == /\ broken \in BROKEN
          /\ pc \in [CPU -> PrimaryPc \cup SecondaryPc]
          /\ pc[PRIMARY] \in PrimaryPc
          /\ \A c \in CPU \ {PRIMARY} : pc[c] \in SecondaryPc
          /\ i \in 0 .. CPU_NUM
          /\ logic \in 0 .. CPU_NUM - 1
          /\ slot \in Stack \cup {NoStack}
          /\ given \in [CPU -> Stack \cup {NoStack}]
          /\ stack \in [CPU -> Stack \cup {NoStack}]
          /\ INITED \in 0 .. CPU_NUM
          /\ handler \in BOOLEAN
          /\ irqs \subseteq CPU
          /\ timer \in [CPU -> {"off", "armed", "pending", "lost"}]

\* Each secondary CPU runs on the stack that was passed for it and on nobody
\* else's, although the cell it reads the stack from (ap_start.S:48,
\* loongarch64 boot.rs:103) is overwritten by the next cpu_boot: the wait on
\* INITED_CPUS (mp.rs:24-26) must outlast the read.
PrivateStacks ==
    \A c \in CPU : stack[c] # NoStack =>
        /\ stack[c] = given[c]
        /\ \A d \in CPU \ {c} : stack[c] # stack[d]

\* No CPU takes interrupts before the timer handler is in the shared table
\* (irq.rs:35 on the primary CPU, mp.rs:39-43 on the others): a tick without a
\* handler is never re-armed.
HandlerBeforeIrqs == irqs # {} => handler

\* The CPUs that have added themselves to INITED_CPUS, and those that have
\* found it equal to CPU_NUM.
Arrived == {c \in CPU : pc[c] \in {"spin", "idle", "busy_wait", "system_off"}}
Released == {c \in CPU : pc[c] \in {"idle", "busy_wait", "system_off"}}

BU == INSTANCE BringUp WITH
        Primary <- PRIMARY,
        given <- [c \in Secondary |-> given[c]],
        stack <- [c \in Secondary |-> stack[c]],
        inited <- Arrived,
        released <- Released

\* The kernel implements the abstract bring-up: exactly the CPUs it should
\* start are started, once each, on the stack passed to cpu_boot, and none goes
\* past the INITED_CPUS barrier (init.rs:7-9) before all have arrived.
BringUpSpec == BU!Spec

\* A CPU that failed to start is never skipped: cpu_boot has no result, so the
\* primary CPU stays in the wait of mp.rs:24-26 and nothing runs half started.
FailureBlocksPrimary ==
    \A c \in broken \cap CPU : given[c] # NoStack => pc[PRIMARY] = "wait"

\* When every CPU starts, nobody waits for ever: the kernel gets through both
\* waits on INITED_CPUS and shuts down (main.rs:50-58).
PowersOff == broken = {} => <>~Powered

\* On a CPU that takes interrupts the ticks never stop: the timer is armed or
\* has just expired.  The interrupt that finds update_timer missing, or a CPU
\* that enables IRQs without having armed its own timer, would end them, and no
\* error is reported (irq.rs:31, init.rs:31, mp.rs:43).
TicksGoOn == \A c \in irqs : timer[c] \in {"armed", "pending"}
=============================================================================
