--------------------------- MODULE SmpBootProofs ---------------------------
(***************************************************************************)
(* Safety of the SMP bring-up for every number of CPUs, every boot CPU,    *)
(* both ways of passing the boot stack and every set of CPUs that fail to  *)
(* start.                                                                  *)
(*                                                                         *)
(* The argument is a count.  INITED_CPUS counts the CPUs that arrived and  *)
(* logic_cpu_id the CPUs that were booted.  Before the primary CPU adds    *)
(* itself, only booted CPUs can have arrived, so                           *)
(*   - INITED_CPUS >= logic_cpu_id means that every booted CPU arrived:    *)
(*     none is left that could still read the shared stack cell;           *)
(*   - INITED_CPUS = CPU_NUM is impossible, because at most CPU_NUM - 1    *)
(*     CPUs are booted: who finds it true knows that the primary CPU has   *)
(*     registered the timer handler.                                       *)
(***************************************************************************)
EXTENDS SmpBoot, FiniteSetTheorems, TLAPS

\* The CPUs for which cpu_boot was called.
Booted == {c \in CPU : given[c] # NoStack}

\* start_secondary_cpus: what its program counter says of its variables.
LoopInv == /\ pc[PRIMARY] = "cpu_boot" => i < CPU_NUM /\ NeedsBoot
           /\ pc[PRIMARY] = "wait" => i < CPU_NUM

\* Which CPUs have been booted, and with which stacks: the indices below
\* logic_cpu_id, each used once.
BootedInv ==
    /\ \A c \in CPU : given[c] # NoStack =>
          /\ c # PRIMARY
          /\ given[c] < logic
          /\ c < i \/ (c = i /\ pc[PRIMARY] = "wait")
    /\ \A c, d \in CPU : given[c] # NoStack /\ given[c] = given[d] => c = d

\* The two counters.
CountInv == /\ Cardinality(Booted) = logic
            /\ Cardinality(Arrived) = INITED

\* Only booted CPUs run.
StartInv == \A c \in CPU \ {PRIMARY} : pc[c] # "off" => given[c] # NoStack

\* Between the start of a CPU and its reading the stack cell, the primary CPU
\* waits and the cell holds the stack of this CPU.
SlotInv ==
    /\ SHARED_SLOT /\ pc[PRIMARY] = "cpu_boot" => slot = logic
    /\ \A c \in CPU \ {PRIMARY} : pc[c] = "entry" =>
          /\ pc[PRIMARY] = "wait"
          /\ SHARED_SLOT => slot = given[c]

StackInv == \A c \in CPU : stack[c] # NoStack => stack[c] = given[c]

HandlerInv == /\ pc[PRIMARY] \in {"enable_irqs", "fetch_add", "spin", "busy_wait", "system_off"}
                    => handler
              /\ irqs # {} => handler

IInv == /\ TypeOK
        /\ LoopInv
        /\ BootedInv
        /\ CountInv
        /\ StartInv
        /\ SlotInv
        /\ StackInv
        /\ HandlerInv

-----------------------------------------------------------------------------
(* Counting.                                                               *)

\* There are finitely many CPUs, so those that have arrived can be counted.
LEMMA CpuFinite == IsFiniteSet(CPU)
<1>1. IsFiniteSet(0 .. CPU_NUM - 1)
  BY CpuNumAssumption, FS_Interval
<1>2. IsFiniteSet((0 .. CPU_NUM - 1) \cup {PRIMARY})
  BY <1>1, FS_AddElement
<1>3. QED
  BY <1>2 DEF CPU

\* The sets that are counted are finite, and apart from the primary CPU only
\* booted CPUs are in Arrived.
LEMMA CountedSets ==
  ASSUME TypeOK, StartInv, BootedInv
  PROVE  /\ IsFiniteSet(Booted)
         /\ IsFiniteSet(Arrived)
         /\ Arrived \subseteq Booted \cup {PRIMARY}
         /\ PRIMARY \notin Booted
<1>1. Booted \in SUBSET CPU /\ Arrived \in SUBSET CPU
  BY DEF Booted, Arrived
<1>2. IsFiniteSet(Booted) /\ IsFiniteSet(Arrived)
  BY <1>1, CpuFinite, FS_Subset
<1>3. Arrived \subseteq Booted \cup {PRIMARY}
  BY DEF StartInv, Arrived, Booted
<1>4. PRIMARY \notin Booted
  BY DEF BootedInv, Booted
<1>5. QED
  BY <1>2, <1>3, <1>4

\* INITED_CPUS is at most CPU_NUM, and below it until the primary CPU arrives.
LEMMA InitedBound ==
  ASSUME TypeOK, StartInv, BootedInv, CountInv
  PROVE  /\ PRIMARY \notin Arrived => INITED <= logic
         /\ INITED <= logic + 1
<1>1. /\ IsFiniteSet(Booted)
      /\ Arrived \subseteq Booted \cup {PRIMARY}
      /\ PRIMARY \notin Booted
  BY CountedSets
<1>2. /\ IsFiniteSet(Booted \cup {PRIMARY})
      /\ Cardinality(Booted \cup {PRIMARY}) = logic + 1
  BY <1>1, FS_AddElement DEF CountInv
<1>3. Arrived \in SUBSET (Booted \cup {PRIMARY})
  BY <1>1
<1>4. INITED <= logic + 1
  BY <1>2, <1>3, FS_Subset DEF CountInv
<1>5. ASSUME PRIMARY \notin Arrived
      PROVE  INITED <= logic
  <2>1. Arrived \in SUBSET Booted
    BY <1>1, <1>5
  <2>2. QED
    BY <1>1, <2>1, FS_Subset DEF CountInv
<1>6. QED
  BY <1>4, <1>5

\* When the wait of start_secondary_cpus is over, every booted CPU has arrived.
LEMMA WaitedForAll ==
  ASSUME TypeOK, StartInv, BootedInv, CountInv,
         pc[PRIMARY] = "wait", CpuUp
  PROVE  \A c \in CPU \ {PRIMARY} : pc[c] # "entry"
<1>1. PRIMARY \notin Arrived
  BY DEF Arrived
<1>2. Arrived \in SUBSET Booted /\ IsFiniteSet(Booted)
  BY <1>1, CountedSets
<1>3. Cardinality(Booted) = Cardinality(Arrived)
  BY <1>1, InitedBound DEF CountInv, CpuUp, TypeOK
<1>4. Booted = Arrived
  BY <1>2, <1>3, FS_Subset
<1>5. QED
  BY <1>4 DEF StartInv, Booted, Arrived

\* Only after the primary CPU arrived can INITED_CPUS be CPU_NUM.
LEMMA BarrierNeedsPrimary ==
  ASSUME TypeOK, StartInv, BootedInv, CountInv, init_smp_ok
  PROVE  PRIMARY \in Arrived
<1>1. logic <= CPU_NUM - 1 /\ INITED = CPU_NUM
  BY CpuNumAssumption DEF TypeOK, init_smp_ok
<1>2. QED
  BY <1>1, InitedBound, CpuNumAssumption DEF TypeOK

-----------------------------------------------------------------------------
(* IInv is an inductive invariant.                                         *)

\* The primary CPU starts alone (main.rs:30-32).
LEMMA InitIInv == Init => IInv
<1>. SUFFICES ASSUME Init PROVE IInv
  OBVIOUS
<1>. USE CpuNumAssumption, PrimaryAssumption, NoStackAssumption DEF Init
<1>1. TypeOK
  <2>1. PRIMARY \in CPU
    BY DEF CPU
  <2>2. pc \in [CPU -> PrimaryPc \cup SecondaryPc]
    BY DEF PrimaryPc, SecondaryPc
  <2>3. pc[PRIMARY] \in PrimaryPc
    BY <2>1 DEF PrimaryPc
  <2>4. \A c \in CPU \ {PRIMARY} : pc[c] \in SecondaryPc
    BY DEF SecondaryPc
  <2>5. i \in 0 .. CPU_NUM /\ logic \in 0 .. CPU_NUM - 1 /\ INITED \in 0 .. CPU_NUM
    OBVIOUS
  <2>6. /\ given \in [CPU -> Stack \cup {NoStack}]
        /\ stack \in [CPU -> Stack \cup {NoStack}]
        /\ timer \in [CPU -> {"off", "armed", "pending", "lost"}]
    OBVIOUS
  <2>7. QED
    BY <2>2, <2>3, <2>4, <2>5, <2>6 DEF TypeOK
<1>2. LoopInv /\ BootedInv /\ StartInv /\ SlotInv /\ StackInv /\ HandlerInv
  BY DEF LoopInv, BootedInv, StartInv, SlotInv, StackInv, HandlerInv, CPU
<1>3. Booted = {} /\ Arrived = {}
  BY DEF Booted, Arrived
<1>4. CountInv
  BY <1>3, FS_EmptySet DEF CountInv
<1>5. QED
  BY <1>1, <1>2, <1>4 DEF IInv

\* The steps that neither boot a CPU nor change INITED_CPUS keep the counts.
LEMMA CountKept ==
  ASSUME CountInv, UNCHANGED <<given, logic, INITED>>, Arrived' = Arrived
  PROVE  CountInv'
<1>1. Booted' = Booted
  BY DEF Booted
<1>2. QED
  BY <1>1 DEF CountInv

\* Every step of a CPU or a timer keeps the invariant (mp.rs:12-49,
\* init.rs:11-32, irq.rs:9-40).
LEMMA NextIInv == IInv /\ [Next]_vars => IInv'
<1>. SUFFICES ASSUME IInv, [Next]_vars PROVE IInv'
  OBVIOUS
<1>. USE CpuNumAssumption, PrimaryAssumption, NoStackAssumption, SlotAssumption
     DEF IInv
<1>p. PRIMARY \in CPU /\ CPU \subseteq Nat
  BY DEF CPU
<1>1. CASE PrimaryInit
  <2>1. TypeOK'
    BY <1>1, <1>p DEF PrimaryInit, Goto, bootVars, TypeOK, PrimaryPc
  <2>2. (LoopInv /\ BootedInv /\ StartInv /\ SlotInv /\ StackInv /\ HandlerInv)'
    BY <1>1, <1>p DEF PrimaryInit, Goto, bootVars, TypeOK, LoopInv, NeedsBoot,
       BootedInv, StartInv, SlotInv, StackInv, HandlerInv
  <2>3. Arrived' = Arrived
    BY <1>1, <1>p DEF PrimaryInit, Goto, TypeOK, Arrived
  <2>4. CountInv'
    BY <1>1, <2>3, CountKept DEF PrimaryInit, bootVars
  <2>5. QED
    BY <2>1, <2>2, <2>4
<1>2. CASE SkipCpu
  <2>1. TypeOK'
    BY <1>2, <1>p DEF SkipCpu, irqVars, TypeOK
  <2>2. (LoopInv /\ BootedInv /\ StartInv /\ SlotInv /\ StackInv /\ HandlerInv)'
    BY <1>2, <1>p DEF SkipCpu, irqVars, TypeOK, LoopInv, NeedsBoot,
       BootedInv, StartInv, SlotInv, StackInv, HandlerInv
  <2>3. Arrived' = Arrived
    BY <1>2 DEF SkipCpu, Arrived
  <2>4. CountInv'
    BY <1>2, <2>3, CountKept DEF SkipCpu
  <2>5. QED
    BY <2>1, <2>2, <2>4
<1>3. CASE PassStack
  <2>1. TypeOK'
    BY <1>3, <1>p DEF PassStack, NeedsBoot, Goto, irqVars, TypeOK, PrimaryPc, Stack
  <2>2. (LoopInv /\ BootedInv /\ StartInv /\ SlotInv /\ StackInv /\ HandlerInv)'
    BY <1>3, <1>p DEF PassStack, Goto, irqVars, TypeOK, LoopInv, NeedsBoot,
       BootedInv, StartInv, SlotInv, StackInv, HandlerInv
  <2>3. Arrived' = Arrived
    BY <1>3, <1>p DEF PassStack, Goto, TypeOK, Arrived
  <2>4. CountInv'
    BY <1>3, <2>3, CountKept DEF PassStack
  <2>5. QED
    BY <2>1, <2>2, <2>4
<1>4. CASE StartCpu
  <2>1. /\ i \in CPU /\ i # PRIMARY /\ i < CPU_NUM /\ logic < CPU_NUM - 1
        /\ given[i] = NoStack /\ pc[i] = "off"
    BY <1>4, <1>p DEF StartCpu, LoopInv, NeedsBoot, TypeOK, CPU, BootedInv, StartInv
  <2>2. TypeOK'
    BY <1>4, <1>p, <2>1 DEF StartCpu, irqVars, TypeOK, PrimaryPc, SecondaryPc, Stack
  <2>3. (LoopInv /\ StartInv /\ StackInv /\ HandlerInv)'
    BY <1>4, <1>p, <2>1 DEF StartCpu, irqVars, TypeOK, LoopInv, StartInv, StackInv, HandlerInv
  <2>4. BootedInv'
    BY <1>4, <1>p, <2>1 DEF StartCpu, irqVars, TypeOK, BootedInv, Stack
  <2>5. SlotInv'
    BY <1>4, <1>p, <2>1 DEF StartCpu, irqVars, TypeOK, SlotInv
  <2>6. CountInv'
    <3>1. Booted' = Booted \cup {i} /\ i \notin Booted
      BY <1>4, <2>1 DEF StartCpu, TypeOK, Booted
    <3>2. Arrived' = Arrived
      BY <1>4, <1>p, <2>1 DEF StartCpu, TypeOK, Arrived
    <3>3. Cardinality(Booted') = Cardinality(Booted) + 1
      BY <3>1, CountedSets, FS_AddElement
    <3>4. QED
      BY <1>4, <3>2, <3>3 DEF StartCpu, CountInv
  <2>7. QED
    BY <2>2, <2>3, <2>4, <2>5, <2>6
<1>5. CASE WaitCpu
  <2>1. \A c \in CPU \ {PRIMARY} : pc[c] # "entry"
    BY <1>5, WaitedForAll DEF WaitCpu
  <2>2. TypeOK'
    BY <1>5, <1>p DEF WaitCpu, Goto, irqVars, TypeOK, PrimaryPc, LoopInv
  <2>3. (LoopInv /\ BootedInv /\ StartInv /\ SlotInv /\ StackInv /\ HandlerInv)'
    BY <1>5, <1>p, <2>1 DEF WaitCpu, Goto, irqVars, TypeOK, LoopInv, NeedsBoot,
       BootedInv, StartInv, SlotInv, StackInv, HandlerInv
  <2>4. Arrived' = Arrived
    BY <1>5, <1>p DEF WaitCpu, Goto, TypeOK, Arrived
  <2>5. CountInv'
    BY <1>5, <2>4, CountKept DEF WaitCpu
  <2>6. QED
    BY <2>2, <2>3, <2>5
<1>6. CASE LoopEnd
  <2>1. TypeOK'
    BY <1>6, <1>p DEF LoopEnd, Goto, bootVars, irqVars, TypeOK, PrimaryPc
  <2>2. (LoopInv /\ BootedInv /\ StartInv /\ SlotInv /\ StackInv /\ HandlerInv)'
    BY <1>6, <1>p DEF LoopEnd, Goto, bootVars, irqVars, TypeOK, LoopInv, NeedsBoot,
       BootedInv, StartInv, SlotInv, StackInv, HandlerInv
  <2>3. Arrived' = Arrived
    BY <1>6, <1>p DEF LoopEnd, Goto, TypeOK, Arrived
  <2>4. CountInv'
    BY <1>6, <2>3, CountKept DEF LoopEnd, bootVars
  <2>5. QED
    BY <2>1, <2>2, <2>4
<1>7. CASE RegisterTimer
  <2>1. TypeOK'
    BY <1>7, <1>p DEF RegisterTimer, Goto, bootVars, TypeOK, PrimaryPc
  <2>2. (LoopInv /\ BootedInv /\ StartInv /\ SlotInv /\ StackInv /\ HandlerInv)'
    BY <1>7, <1>p DEF RegisterTimer, Goto, bootVars, TypeOK, LoopInv, NeedsBoot,
       BootedInv, StartInv, SlotInv, StackInv, HandlerInv
  <2>3. Arrived' = Arrived
    BY <1>7, <1>p DEF RegisterTimer, Goto, TypeOK, Arrived
  <2>4. CountInv'
    BY <1>7, <2>3, CountKept DEF RegisterTimer, bootVars
  <2>5. QED
    BY <2>1, <2>2, <2>4
<1>8. CASE PrimaryEnableIrqs
  <2>1. TypeOK'
    BY <1>8, <1>p DEF PrimaryEnableIrqs, Goto, bootVars, TypeOK, PrimaryPc
  <2>2. (LoopInv /\ BootedInv /\ StartInv /\ SlotInv /\ StackInv /\ HandlerInv)'
    BY <1>8, <1>p DEF PrimaryEnableIrqs, Goto, bootVars, TypeOK, LoopInv, NeedsBoot,
       BootedInv, StartInv, SlotInv, StackInv, HandlerInv
  <2>3. Arrived' = Arrived
    BY <1>8, <1>p DEF PrimaryEnableIrqs, Goto, TypeOK, Arrived
  <2>4. CountInv'
    BY <1>8, <2>3, CountKept DEF PrimaryEnableIrqs, bootVars
  <2>5. QED
    BY <2>1, <2>2, <2>4
<1>9. CASE SystemOff
  <2>1. TypeOK'
    BY <1>9, <1>p DEF SystemOff, Goto, bootVars, irqVars, TypeOK, PrimaryPc
  <2>2. (LoopInv /\ BootedInv /\ StartInv /\ SlotInv /\ StackInv /\ HandlerInv)'
    BY <1>9, <1>p DEF SystemOff, Goto, bootVars, irqVars, TypeOK, LoopInv, NeedsBoot,
       BootedInv, StartInv, SlotInv, StackInv, HandlerInv
  <2>3. Arrived' = Arrived
    BY <1>9, <1>p DEF SystemOff, Goto, TypeOK, Arrived
  <2>4. CountInv'
    BY <1>9, <2>3, CountKept DEF SystemOff, bootVars
  <2>5. QED
    BY <2>1, <2>2, <2>4
<1>10. CASE PrimaryPass
  <2>1. TypeOK'
    BY <1>10, <1>p DEF PrimaryPass, Goto, bootVars, irqVars, TypeOK, PrimaryPc
  <2>2. (LoopInv /\ BootedInv /\ StartInv /\ SlotInv /\ StackInv /\ HandlerInv)'
    BY <1>10, <1>p DEF PrimaryPass, Goto, bootVars, irqVars, TypeOK, LoopInv, NeedsBoot,
       BootedInv, StartInv, SlotInv, StackInv, HandlerInv
  <2>3. Arrived' = Arrived
    BY <1>10, <1>p DEF PrimaryPass, Goto, TypeOK, Arrived
  <2>4. CountInv'
    BY <1>10, <2>3, CountKept DEF PrimaryPass, bootVars
  <2>5. QED
    BY <2>1, <2>2, <2>4
<1>11. ASSUME NEW c \in CPU, FetchAdd(c) PROVE IInv'
  <2>1. c \notin Arrived /\ Arrived' = Arrived \cup {c}
    BY <1>11 DEF FetchAdd, Goto, TypeOK, Arrived
  <2>2. (LoopInv /\ BootedInv /\ StartInv /\ SlotInv /\ StackInv /\ HandlerInv)'
    BY <1>11, <1>p DEF FetchAdd, Goto, bootVars, irqVars, TypeOK, LoopInv, NeedsBoot,
       BootedInv, StartInv, SlotInv, StackInv, HandlerInv
  <2>3. CountInv'
    <3>1. Cardinality(Arrived') = Cardinality(Arrived) + 1
      BY <2>1, CountedSets, FS_AddElement
    <3>2. Booted' = Booted
      BY <1>11 DEF FetchAdd, bootVars, Booted
    <3>3. QED
      BY <1>11, <3>1, <3>2 DEF FetchAdd, bootVars, CountInv
  <2>4. INITED' \in 0 .. CPU_NUM
    <3>1. INITED' = INITED + 1 /\ UNCHANGED <<given, logic>>
      BY <1>11 DEF FetchAdd, bootVars
    <3>2. CASE c = PRIMARY
      BY <2>1, <3>1, <3>2, InitedBound DEF TypeOK
    <3>3. CASE c # PRIMARY
      <4>1. /\ IsFiniteSet(Booted)
            /\ Arrived \subseteq Booted \cup {PRIMARY}
            /\ PRIMARY \notin Booted
        BY CountedSets
      <4>2. c \in Booted
        BY <1>11, <3>3 DEF FetchAdd, StartInv, Booted
      <4>3. Arrived' \in SUBSET (Booted \cup {PRIMARY})
        BY <2>1, <4>1, <4>2
      <4>4. /\ IsFiniteSet(Booted \cup {PRIMARY})
            /\ Cardinality(Booted \cup {PRIMARY}) = logic + 1
        BY <4>1, FS_AddElement DEF CountInv
      <4>5. Cardinality(Arrived') <= logic + 1
        BY <4>3, <4>4, FS_Subset
      <4>6. QED
        BY <2>3, <3>1, <4>5 DEF CountInv, TypeOK
    <3>4. QED
      BY <3>2, <3>3
  <2>5. TypeOK'
    BY <1>11, <1>p, <2>4 DEF FetchAdd, Goto, bootVars, irqVars, TypeOK, PrimaryPc, SecondaryPc
  <2>6. QED
    BY <2>2, <2>3, <2>5
<1>12. ASSUME NEW c \in CPU \ {PRIMARY}, SecondaryPass(c) PROVE IInv'
  <2>1. handler
    BY <1>12, BarrierNeedsPrimary DEF SecondaryPass, HandlerInv, Arrived, TypeOK, PrimaryPc
  <2>2. TypeOK'
    BY <1>12, <1>p DEF SecondaryPass, Goto, bootVars, TypeOK, SecondaryPc
  <2>3. (LoopInv /\ BootedInv /\ StartInv /\ SlotInv /\ StackInv /\ HandlerInv)'
    BY <1>12, <1>p, <2>1 DEF SecondaryPass, Goto, bootVars, TypeOK, LoopInv, NeedsBoot,
       BootedInv, StartInv, SlotInv, StackInv, HandlerInv
  <2>4. Arrived' = Arrived
    BY <1>12 DEF SecondaryPass, Goto, TypeOK, Arrived
  <2>5. CountInv'
    BY <1>12, <2>4, CountKept DEF SecondaryPass, bootVars
  <2>6. QED
    BY <2>2, <2>3, <2>5
<1>13. ASSUME NEW c \in CPU \ {PRIMARY}, SecondaryEntry(c) PROVE IInv'
  <2>1. given[c] # NoStack /\ given[c] \in Stack /\ (SHARED_SLOT => slot = given[c])
    BY <1>13 DEF SecondaryEntry, StartInv, SlotInv, TypeOK
  <2>2. TypeOK'
    BY <1>13, <1>p, <2>1 DEF SecondaryEntry, Goto, bootVars, irqVars, TypeOK, SecondaryPc
  <2>3. (LoopInv /\ BootedInv /\ StartInv /\ SlotInv /\ StackInv /\ HandlerInv)'
    BY <1>13, <1>p, <2>1 DEF SecondaryEntry, Goto, bootVars, irqVars, TypeOK, LoopInv,
       NeedsBoot, BootedInv, StartInv, SlotInv, StackInv, HandlerInv
  <2>4. Arrived' = Arrived
    BY <1>13 DEF SecondaryEntry, Goto, TypeOK, Arrived
  <2>5. CountInv'
    BY <1>13, <2>4, CountKept DEF SecondaryEntry, bootVars
  <2>6. QED
    BY <2>2, <2>3, <2>5
<1>14. ASSUME NEW c \in CPU \ {PRIMARY}, SecondaryInit(c) PROVE IInv'
  <2>1. TypeOK'
    BY <1>14, <1>p DEF SecondaryInit, Goto, bootVars, TypeOK, SecondaryPc
  <2>2. (LoopInv /\ BootedInv /\ StartInv /\ SlotInv /\ StackInv /\ HandlerInv)'
    BY <1>14, <1>p DEF SecondaryInit, Goto, bootVars, TypeOK, LoopInv,
       NeedsBoot, BootedInv, StartInv, SlotInv, StackInv, HandlerInv
  <2>3. Arrived' = Arrived
    BY <1>14 DEF SecondaryInit, Goto, TypeOK, Arrived
  <2>4. CountInv'
    BY <1>14, <2>3, CountKept DEF SecondaryInit, bootVars
  <2>5. QED
    BY <2>1, <2>2, <2>4
<1>15. ASSUME NEW c \in CPU, TimerExpires(c) \/ TimerIrq(c) PROVE IInv'
  <2>1. UNCHANGED <<broken, pc, i, logic, slot, given, stack, INITED, handler, irqs>>
    BY <1>15 DEF TimerExpires, TimerIrq, bootVars
  <2>2. TypeOK'
    BY <1>15, <2>1 DEF TimerExpires, TimerIrq, TypeOK
  <2>3. (LoopInv /\ BootedInv /\ StartInv /\ SlotInv /\ StackInv /\ HandlerInv)'
    BY <2>1 DEF LoopInv, NeedsBoot, BootedInv, StartInv, SlotInv, StackInv, HandlerInv
  <2>4. Arrived' = Arrived
    BY <2>1 DEF Arrived
  <2>5. CountInv'
    BY <2>1, <2>4, CountKept
  <2>6. QED
    BY <2>2, <2>3, <2>5
<1>16. CASE UNCHANGED vars
  <2>1. UNCHANGED <<broken, pc, i, logic, slot, given, stack, INITED, handler, irqs,
                    timer>>
    BY <1>16 DEF vars
  <2>2. TypeOK'
    BY <2>1 DEF TypeOK
  <2>3. (LoopInv /\ BootedInv /\ StartInv /\ SlotInv /\ StackInv /\ HandlerInv)'
    BY <2>1 DEF LoopInv, NeedsBoot, BootedInv, StartInv, SlotInv, StackInv, HandlerInv
  <2>4. Arrived' = Arrived
    BY <2>1 DEF Arrived
  <2>5. CountInv'
    BY <2>1, <2>4, CountKept
  <2>6. QED
    BY <2>2, <2>3, <2>5
<1>17. QED
  BY <1>p, <1>1, <1>2, <1>3, <1>4, <1>5, <1>6, <1>7, <1>8, <1>9, <1>10, <1>11, <1>12,
     <1>13, <1>14, <1>15, <1>16 DEF Next, PrimaryStep, SecondaryStep

\* The invariant holds for any number of CPUs and any boot CPU.
THEOREM Invariance == Spec => []IInv
BY InitIInv, NextIInv, PTL DEF Spec

-----------------------------------------------------------------------------
(* The properties.                                                         *)

\* Whatever the boot CPU's hardware id, start_secondary_cpus stays inside
\* SECONDARY_BOOT_STACK and INITED_CPUS never exceeds CPU_NUM.
THEOREM TypeCorrect == Spec => []TypeOK
<1>1. IInv => TypeOK
  BY DEF IInv
<1>2. QED
  BY <1>1, Invariance, PTL

\* No two CPUs ever run on the same boot stack, and each runs on the one that
\* cpu_boot was given for it, although all of them read it from one cell.
THEOREM StacksArePrivate == Spec => []PrivateStacks
<1>1. IInv => PrivateStacks
  BY DEF IInv, StackInv, BootedInv, PrivateStacks
<1>2. QED
  BY <1>1, Invariance, PTL

\* Interrupts are enabled on no CPU before the timer handler is registered.
THEOREM HandlerComesFirst == Spec => []HandlerBeforeIrqs
<1>1. IInv => HandlerBeforeIrqs
  BY DEF IInv, HandlerInv, HandlerBeforeIrqs
<1>2. QED
  BY <1>1, Invariance, PTL

-----------------------------------------------------------------------------
(* The timers.                                                             *)

\* No tick is lost, and the timer is off only on a CPU whose init_kernel is
\* not over: it cannot take interrupts yet.
TimerInv ==
    \A c \in CPU :
        /\ timer[c] # "lost"
        /\ timer[c] = "off" => pc[c] \in {"off", "entry", "init_kernel"} /\ c \notin irqs

\* init_later(_secondary) arms the timer before the CPU goes on, and the
\* handler that arms it again is there when interrupts are on.
LEMMA NextTimerInv == IInv /\ TimerInv /\ [Next]_vars => TimerInv'
<1>. SUFFICES ASSUME IInv, TimerInv, [Next]_vars PROVE TimerInv'
  OBVIOUS
<1>p. PRIMARY \in CPU /\ TypeOK
  BY DEF CPU, IInv
<1>1. ASSUME NEW c \in CPU, NEW l, pc[c] \notin {"off", "entry", "init_kernel"},
             Goto(c, l), timer' = timer, irqs' \in {irqs, irqs \cup {c}}
      PROVE  TimerInv'
  BY <1>1, <1>p DEF Goto, TypeOK, TimerInv
<1>2. CASE \/ PassStack \/ WaitCpu \/ LoopEnd \/ RegisterTimer \/ PrimaryEnableIrqs
           \/ SystemOff \/ PrimaryPass
  BY <1>1, <1>2, <1>p DEF PassStack, WaitCpu, LoopEnd, RegisterTimer, PrimaryEnableIrqs,
     SystemOff, PrimaryPass, irqVars
<1>3. ASSUME NEW c \in CPU, FetchAdd(c) \/ (c # PRIMARY /\ SecondaryPass(c))
      PROVE  TimerInv'
  BY <1>1, <1>3 DEF FetchAdd, SecondaryPass, irqVars
<1>4. ASSUME NEW c \in CPU, (c = PRIMARY /\ PrimaryInit) \/ (c # PRIMARY /\ SecondaryInit(c))
      PROVE  TimerInv'
  <2>1. timer' = [timer EXCEPT ![c] = "armed"] /\ irqs' = irqs
    BY <1>4 DEF PrimaryInit, SecondaryInit
  <2>2. \A d \in CPU \ {c} : pc'[d] = pc[d]
    BY <1>4, <1>p DEF PrimaryInit, SecondaryInit, Goto, TypeOK
  <2>3. QED
    BY <2>1, <2>2, <1>p DEF TimerInv, TypeOK
<1>5. CASE StartCpu
  <2>1. i \in CPU \ {PRIMARY} /\ pc[i] = "off"
    BY <1>5, <1>p, CpuNumAssumption DEF StartCpu, LoopInv, NeedsBoot, TypeOK, CPU, IInv,
       BootedInv, StartInv
  <2>2. /\ timer' = timer /\ irqs' = irqs
        /\ \A c \in CPU \ {PRIMARY, i} : pc'[c] = pc[c]
        /\ pc'[i] \in {"off", "entry"}
    BY <1>5, <1>p, <2>1 DEF StartCpu, irqVars, TypeOK
  <2>3. timer[PRIMARY] # "off"
    BY <1>5, <1>p DEF StartCpu, TimerInv
  <2>4. QED
    BY <2>2, <2>3 DEF TimerInv
<1>6. ASSUME NEW c \in CPU, SecondaryEntry(c) PROVE TimerInv'
  <2>1. /\ timer' = timer /\ irqs' = irqs
        /\ pc[c] = "entry" /\ pc' = [pc EXCEPT ![c] = "init_kernel"]
    BY <1>6 DEF SecondaryEntry, Goto, irqVars
  <2>2. QED
    BY <2>1, <1>p DEF TimerInv, TypeOK
<1>7. ASSUME NEW c \in CPU, TimerExpires(c) PROVE TimerInv'
  BY <1>7, <1>p DEF TimerExpires, TimerInv, TypeOK
<1>8. ASSUME NEW c \in CPU, TimerIrq(c) PROVE TimerInv'
  <2>1. handler
    BY <1>8 DEF TimerIrq, IInv, HandlerInv
  <2>2. QED
    BY <1>8, <1>p, <2>1 DEF TimerIrq, TimerInv, TypeOK
<1>9. CASE SkipCpu \/ UNCHANGED vars
  BY <1>9 DEF SkipCpu, vars, irqVars, TimerInv
<1>10. QED
  BY <1>p, <1>2, <1>3, <1>4, <1>5, <1>6, <1>7, <1>8, <1>9
     DEF Next, PrimaryStep, SecondaryStep

\* On a CPU that takes interrupts ticks keep coming, for any number of CPUs.
THEOREM TicksKeepComing == Spec => []TicksGoOn
<1>1. Init => TimerInv
  BY DEF Init, TimerInv
<1>2. IInv /\ TimerInv => TicksGoOn
  BY DEF IInv, TypeOK, TimerInv, TicksGoOn
<1>3. QED
  BY <1>1, <1>2, Invariance, NextTimerInv, PTL DEF Spec

-----------------------------------------------------------------------------
(* A CPU that fails to start.                                              *)

\* It stays where it is, so it never arrives and the count stays behind.
BrokenInv == /\ \A c \in broken \cap CPU : pc[c] = "off"
             /\ FailureBlocksPrimary

\* The wait of mp.rs:24-26 does not end with a CPU missing.
LEMMA MissingCpu ==
  ASSUME IInv, BrokenInv, pc[PRIMARY] = "wait", CpuUp,
         NEW c \in broken \cap CPU
  PROVE  given[c] = NoStack
<1>1. PRIMARY \notin Arrived
  BY DEF Arrived
<1>2. Arrived \in SUBSET Booted /\ IsFiniteSet(Booted)
  BY <1>1, CountedSets DEF IInv
<1>3. Cardinality(Booted) = Cardinality(Arrived)
  BY <1>1, InitedBound DEF IInv, CountInv, CpuUp, TypeOK
<1>4. Booted = Arrived
  BY <1>2, <1>3, FS_Subset
<1>5. c \notin Arrived
  BY DEF BrokenInv, Arrived
<1>6. QED
  BY <1>4, <1>5 DEF Booted

\* Every step keeps a CPU that failed off and the primary CPU waiting for it.
LEMMA NextBrokenInv == IInv /\ BrokenInv /\ [Next]_vars => BrokenInv'
<1>. SUFFICES ASSUME IInv, BrokenInv, [Next]_vars PROVE BrokenInv'
  OBVIOUS
<1>p. PRIMARY \in CPU /\ CPU \subseteq Nat /\ TypeOK /\ PRIMARY \notin broken
  BY PrimaryAssumption, BrokenAssumption, CpuNumAssumption DEF CPU, IInv, TypeOK
<1>1. ASSUME UNCHANGED <<broken, given>>,
             \A c \in broken \cap CPU : pc'[c] = pc[c],
             pc[PRIMARY] = "wait" => pc'[PRIMARY] = "wait"
      PROVE  BrokenInv'
  BY <1>1 DEF BrokenInv, FailureBlocksPrimary
<1>2. ASSUME NEW l, pc[PRIMARY] # "wait", Goto(PRIMARY, l), UNCHANGED <<broken, given>>
      PROVE  BrokenInv'
  BY <1>1, <1>2, <1>p DEF Goto, TypeOK
<1>3. CASE \/ PrimaryInit \/ PassStack \/ LoopEnd \/ RegisterTimer
           \/ PrimaryEnableIrqs \/ SystemOff \/ PrimaryPass
  BY <1>2, <1>3 DEF PrimaryInit, PassStack, LoopEnd, RegisterTimer, PrimaryEnableIrqs,
     SystemOff, PrimaryPass, bootVars
<1>4. CASE SkipCpu
  BY <1>1, <1>4 DEF SkipCpu
<1>5. CASE StartCpu
  <2>1. i \in CPU \ {PRIMARY} /\ pc[i] = "off"
    BY <1>5, <1>p, CpuNumAssumption DEF StartCpu, LoopInv, NeedsBoot, TypeOK, CPU, IInv,
       BootedInv, StartInv
  <2>2. pc'[PRIMARY] = "wait" /\ broken' = broken
    BY <1>5, <1>p, <2>1 DEF StartCpu, TypeOK
  <2>3. \A c \in broken \cap CPU : pc'[c] = pc[c]
    BY <1>5, <1>p, <2>1 DEF StartCpu, TypeOK
  <2>4. QED
    BY <2>2, <2>3 DEF BrokenInv, FailureBlocksPrimary
<1>6. CASE WaitCpu
  <2>1. \A c \in broken \cap CPU : given[c] = NoStack
    BY <1>6, MissingCpu DEF WaitCpu
  <2>2. /\ UNCHANGED <<broken, given>>
        /\ \A c \in broken \cap CPU : pc'[c] = pc[c]
    BY <1>6, <1>p DEF WaitCpu, Goto, TypeOK
  <2>3. QED
    BY <2>1, <2>2 DEF BrokenInv, FailureBlocksPrimary
<1>7. ASSUME NEW c \in CPU, NEW l, pc[c] # "off", pc[PRIMARY] # "wait" \/ c # PRIMARY,
             Goto(c, l), UNCHANGED <<broken, given>>
      PROVE  BrokenInv'
  <2>1. c \notin broken
    BY <1>7 DEF BrokenInv
  <2>2. QED
    BY <1>1, <1>7, <1>p, <2>1 DEF Goto, TypeOK
<1>8. ASSUME NEW c \in CPU, FetchAdd(c) PROVE BrokenInv'
  BY <1>7, <1>8 DEF FetchAdd, bootVars
<1>9. ASSUME NEW c \in CPU \ {PRIMARY},
             SecondaryPass(c) \/ SecondaryEntry(c) \/ SecondaryInit(c)
      PROVE  BrokenInv'
  BY <1>7, <1>9 DEF SecondaryPass, SecondaryEntry, SecondaryInit, bootVars
<1>10. ASSUME NEW c \in CPU, TimerExpires(c) \/ TimerIrq(c) PROVE BrokenInv'
  BY <1>1, <1>10 DEF TimerExpires, TimerIrq, bootVars
<1>11. CASE UNCHANGED vars
  BY <1>1, <1>11 DEF vars
<1>12. QED
  BY <1>p, <1>3, <1>4, <1>5, <1>6, <1>8, <1>9, <1>10, <1>11
     DEF Next, PrimaryStep, SecondaryStep

\* With a CPU that fails to start the kernel hangs in start_secondary_cpus: it
\* never goes on with fewer CPUs, for any number of CPUs and of failures.
THEOREM FailureBlocks == Spec => []FailureBlocksPrimary
<1>1. Init => BrokenInv
  BY PrimaryAssumption, BrokenAssumption DEF Init, BrokenInv, FailureBlocksPrimary
<1>2. BrokenInv => FailureBlocksPrimary
  BY DEF BrokenInv
<1>3. QED
  BY <1>1, <1>2, NextBrokenInv, Invariance, PTL DEF Spec

-----------------------------------------------------------------------------
(* SmpBoot implements BringUp.  On top of IInv the simulation needs to     *)
(* know that only the CPUs of Secondary are booted, that a CPU which went  *)
(* past the barrier left nobody behind it, and which CPUs have a stack.    *)

\* With the boot CPU outside the ids of the kernel, logic_cpu_id is the loop
\* variable and its own limit ends the booting one iteration early.
LogicInv == PRIMARY >= CPU_NUM =>
    logic = IF i >= CPU_NUM - 1 THEN CPU_NUM - 1
            ELSE IF pc[PRIMARY] = "wait" THEN i + 1 ELSE i

SecondaryInv == Booted \subseteq Secondary

BarrierInv == Released # {} => Arrived = Secondary \cup {PRIMARY}

FreshInv == \A c \in CPU \ {PRIMARY} :
                stack[c] = NoStack <=> pc[c] \in {"off", "entry"}

SimInv == LogicInv /\ SecondaryInv /\ BarrierInv /\ FreshInv

\* Secondary has one element for every boot stack of mp.rs:7-9.
LEMMA SecondaryCount ==
  /\ Secondary \subseteq CPU \ {PRIMARY}
  /\ IsFiniteSet(Secondary \cup {PRIMARY})
  /\ Cardinality(Secondary \cup {PRIMARY}) = CPU_NUM
<1>. USE CpuNumAssumption, PrimaryAssumption
<1>1. Secondary \subseteq CPU \ {PRIMARY}
  BY DEF Secondary, CPU
<1>2. CASE PRIMARY < CPU_NUM
  <2>1. Secondary \cup {PRIMARY} = 0 .. CPU_NUM - 1
    BY <1>2 DEF Secondary
  <2>2. IsFiniteSet(0 .. CPU_NUM - 1) /\ Cardinality(0 .. CPU_NUM - 1) = CPU_NUM
    BY FS_Interval
  <2>3. QED
    BY <1>1, <2>1, <2>2
<1>3. CASE PRIMARY >= CPU_NUM
  <2>1. Secondary = 0 .. CPU_NUM - 2 /\ PRIMARY \notin Secondary
    BY <1>3 DEF Secondary
  <2>2. IsFiniteSet(0 .. CPU_NUM - 2) /\ Cardinality(0 .. CPU_NUM - 2) = CPU_NUM - 1
    BY FS_Interval
  <2>3. IsFiniteSet(Secondary) /\ Cardinality(Secondary) = CPU_NUM - 1
    BY <2>1, <2>2
  <2>4. /\ IsFiniteSet(Secondary \cup {PRIMARY})
        /\ Cardinality(Secondary \cup {PRIMARY}) = Cardinality(Secondary) + 1
    BY <2>1, <2>3, FS_AddElement
  <2>5. QED
    BY <1>1, <2>3, <2>4
<1>4. QED
  BY <1>2, <1>3

\* A CPU that finds INITED_CPUS = CPU_NUM knows that all CPUs have arrived.
LEMMA BarrierComplete ==
  ASSUME IInv, SimInv, init_smp_ok
  PROVE  Arrived = Secondary \cup {PRIMARY}
<1>1. Arrived \in SUBSET (Secondary \cup {PRIMARY})
  BY CountedSets DEF IInv, SimInv, SecondaryInv
<1>2. Cardinality(Arrived) = Cardinality(Secondary \cup {PRIMARY})
  BY SecondaryCount DEF IInv, CountInv, init_smp_ok
<1>3. QED
  BY <1>1, <1>2, SecondaryCount, FS_Subset

\* No secondary CPU has been started at first (mp.rs:12-14).
LEMMA InitSimInv == Init => SimInv
<1>. SUFFICES ASSUME Init PROVE SimInv
  OBVIOUS
<1>1. Booted = {} /\ Released = {}
  BY DEF Init, Booted, Released
<1>2. LogicInv /\ FreshInv
  BY CpuNumAssumption, PrimaryAssumption DEF Init, LogicInv, FreshInv, CPU
<1>3. QED
  BY <1>1, <1>2 DEF SimInv, SecondaryInv, BarrierInv

\* The loop of start_secondary_cpus goes through the CPUs in order and skips
\* none that it should start (mp.rs:12-29).
LEMMA NextSimInv == IInv /\ SimInv /\ [Next]_vars => SimInv'
<1>. SUFFICES ASSUME IInv, SimInv, [Next]_vars PROVE SimInv'
  OBVIOUS
<1>. USE CpuNumAssumption, PrimaryAssumption, NoStackAssumption
<1>p. PRIMARY \in CPU /\ CPU \subseteq Nat /\ TypeOK /\ LoopInv
  BY DEF CPU, IInv
<1>1. ASSUME UNCHANGED <<i, logic, given>>,
             pc'[PRIMARY] = "wait" <=> pc[PRIMARY] = "wait"
      PROVE  LogicInv' /\ SecondaryInv'
  BY <1>1 DEF SimInv, LogicInv, SecondaryInv, Booted
<1>2. ASSUME Arrived' = Arrived, Released' = Released
      PROVE  BarrierInv'
  BY <1>2 DEF SimInv, BarrierInv
<1>3. CASE PrimaryInit
  <2>1. Arrived' = Arrived /\ Released' = Released
    BY <1>3, <1>p DEF PrimaryInit, Goto, TypeOK, Arrived, Released
  <2>2. FreshInv'
    BY <1>3, <1>p DEF PrimaryInit, Goto, TypeOK, SimInv, FreshInv
  <2>3. QED
    BY <1>1, <1>2, <1>3, <1>p, <2>1, <2>2 DEF PrimaryInit, Goto, bootVars, TypeOK, SimInv
<1>4. CASE SkipCpu
  <2>1. UNCHANGED <<pc, logic, given, stack>> /\ i' = i + 1 /\ i < CPU_NUM /\ ~NeedsBoot
    BY <1>4 DEF SkipCpu
  <2>2. Arrived' = Arrived /\ Released' = Released
    BY <2>1 DEF Arrived, Released
  <2>3. FreshInv' /\ SecondaryInv'
    BY <2>1 DEF SimInv, FreshInv, SecondaryInv, Booted
  <2>4. LogicInv'
    BY <1>4, <1>p, <2>1 DEF SkipCpu, SimInv, LogicInv, NeedsBoot, TypeOK
  <2>5. QED
    BY <1>2, <2>2, <2>3, <2>4 DEF SimInv
<1>5. CASE PassStack
  <2>1. Arrived' = Arrived /\ Released' = Released
    BY <1>5, <1>p DEF PassStack, Goto, TypeOK, Arrived, Released
  <2>2. FreshInv'
    BY <1>5, <1>p DEF PassStack, Goto, TypeOK, SimInv, FreshInv
  <2>3. QED
    BY <1>1, <1>2, <1>5, <1>p, <2>1, <2>2 DEF PassStack, Goto, TypeOK, SimInv
<1>6. CASE StartCpu
  <2>1. /\ i \in CPU \ {PRIMARY} /\ i < CPU_NUM /\ logic < CPU_NUM - 1
        /\ given[i] = NoStack /\ pc[i] = "off"
    BY <1>6, <1>p DEF StartCpu, LoopInv, NeedsBoot, TypeOK, CPU, IInv, BootedInv, StartInv
  <2>2. Arrived' = Arrived /\ Released' = Released
    BY <1>6, <1>p, <2>1 DEF StartCpu, TypeOK, Arrived, Released
  <2>3. FreshInv'
    BY <1>6, <1>p, <2>1 DEF StartCpu, TypeOK, SimInv, FreshInv
  <2>4. LogicInv'
    BY <1>6, <1>p, <2>1 DEF StartCpu, TypeOK, SimInv, LogicInv
  <2>5. i \in Secondary
    BY <1>6, <1>p, <2>1 DEF StartCpu, TypeOK, SimInv, LogicInv, Secondary
  <2>6. Booted' = Booted \cup {i}
    BY <1>6, <1>p, <2>1 DEF StartCpu, TypeOK, Booted
  <2>7. QED
    BY <1>2, <2>2, <2>3, <2>4, <2>5, <2>6 DEF SimInv, SecondaryInv
<1>7. CASE WaitCpu
  <2>1. Arrived' = Arrived /\ Released' = Released
    BY <1>7, <1>p DEF WaitCpu, Goto, TypeOK, Arrived, Released
  <2>2. FreshInv'
    BY <1>7, <1>p DEF WaitCpu, Goto, TypeOK, SimInv, FreshInv
  <2>3. LogicInv'
    BY <1>7, <1>p DEF WaitCpu, Goto, TypeOK, SimInv, LogicInv
  <2>4. SecondaryInv'
    BY <1>7 DEF WaitCpu, SimInv, SecondaryInv, Booted
  <2>5. QED
    BY <1>2, <2>1, <2>2, <2>3, <2>4 DEF SimInv
<1>8. CASE LoopEnd
  <2>1. Arrived' = Arrived /\ Released' = Released
    BY <1>8, <1>p DEF LoopEnd, Goto, TypeOK, Arrived, Released
  <2>2. FreshInv'
    BY <1>8, <1>p DEF LoopEnd, Goto, TypeOK, SimInv, FreshInv
  <2>3. QED
    BY <1>1, <1>2, <1>8, <1>p, <2>1, <2>2 DEF LoopEnd, Goto, bootVars, TypeOK, SimInv
<1>9. CASE RegisterTimer
  <2>1. Arrived' = Arrived /\ Released' = Released
    BY <1>9, <1>p DEF RegisterTimer, Goto, TypeOK, Arrived, Released
  <2>2. FreshInv'
    BY <1>9, <1>p DEF RegisterTimer, Goto, TypeOK, SimInv, FreshInv
  <2>3. QED
    BY <1>1, <1>2, <1>9, <1>p, <2>1, <2>2 DEF RegisterTimer, Goto, bootVars, TypeOK, SimInv
<1>10. CASE PrimaryEnableIrqs
  <2>1. Arrived' = Arrived /\ Released' = Released
    BY <1>10, <1>p DEF PrimaryEnableIrqs, Goto, TypeOK, Arrived, Released
  <2>2. FreshInv'
    BY <1>10, <1>p DEF PrimaryEnableIrqs, Goto, TypeOK, SimInv, FreshInv
  <2>3. QED
    BY <1>1, <1>2, <1>10, <1>p, <2>1, <2>2 DEF PrimaryEnableIrqs, Goto, bootVars, TypeOK, SimInv
<1>11. CASE SystemOff
  <2>1. Arrived' = Arrived /\ Released' = Released
    BY <1>11, <1>p DEF SystemOff, Goto, TypeOK, Arrived, Released
  <2>2. FreshInv'
    BY <1>11, <1>p DEF SystemOff, Goto, TypeOK, SimInv, FreshInv
  <2>3. QED
    BY <1>1, <1>2, <1>11, <1>p, <2>1, <2>2 DEF SystemOff, Goto, bootVars, TypeOK, SimInv
<1>12. CASE PrimaryPass
  <2>1. Arrived' = Arrived
    BY <1>12, <1>p DEF PrimaryPass, Goto, TypeOK, Arrived
  <2>2. BarrierInv'
    BY <1>12, <2>1, BarrierComplete DEF PrimaryPass, BarrierInv
  <2>3. FreshInv'
    BY <1>12, <1>p DEF PrimaryPass, Goto, TypeOK, SimInv, FreshInv
  <2>4. QED
    BY <1>1, <1>12, <1>p, <2>2, <2>3 DEF PrimaryPass, Goto, bootVars, TypeOK, SimInv
<1>13. ASSUME NEW c \in CPU, FetchAdd(c) PROVE SimInv'
  <2>1. c \notin Arrived /\ Released' = Released
    BY <1>13 DEF FetchAdd, Goto, TypeOK, Arrived, Released
  <2>2. c \in Secondary \cup {PRIMARY}
    BY <1>13 DEF FetchAdd, IInv, StartInv, SimInv, SecondaryInv, Booted
  <2>3. BarrierInv'
    BY <2>1, <2>2 DEF SimInv, BarrierInv
  <2>4. FreshInv'
    BY <1>13, <1>p DEF FetchAdd, Goto, TypeOK, SimInv, FreshInv
  <2>5. QED
    BY <1>1, <1>13, <1>p, <2>3, <2>4 DEF FetchAdd, Goto, bootVars, TypeOK, SimInv
<1>14. ASSUME NEW c \in CPU \ {PRIMARY}, SecondaryPass(c) PROVE SimInv'
  <2>1. Arrived' = Arrived
    BY <1>14 DEF SecondaryPass, Goto, TypeOK, Arrived
  <2>2. BarrierInv'
    BY <1>14, <2>1, BarrierComplete DEF SecondaryPass, BarrierInv
  <2>3. FreshInv'
    BY <1>14, <1>p DEF SecondaryPass, Goto, TypeOK, SimInv, FreshInv
  <2>4. QED
    BY <1>1, <1>14, <1>p, <2>2, <2>3 DEF SecondaryPass, Goto, bootVars, TypeOK, SimInv
<1>15. ASSUME NEW c \in CPU \ {PRIMARY}, SecondaryEntry(c) PROVE SimInv'
  <2>1. given[c] \in Stack /\ (SHARED_SLOT => slot = given[c])
    BY <1>15 DEF SecondaryEntry, IInv, StartInv, SlotInv, TypeOK
  <2>2. Arrived' = Arrived /\ Released' = Released
    BY <1>15 DEF SecondaryEntry, Goto, TypeOK, Arrived, Released
  <2>3. FreshInv'
    BY <1>15, <1>p, <2>1 DEF SecondaryEntry, Goto, TypeOK, SimInv, FreshInv, Stack
  <2>4. QED
    BY <1>1, <1>2, <1>15, <1>p, <2>2, <2>3 DEF SecondaryEntry, Goto, bootVars, TypeOK, SimInv
<1>16. ASSUME NEW c \in CPU \ {PRIMARY}, SecondaryInit(c) PROVE SimInv'
  <2>1. Arrived' = Arrived /\ Released' = Released
    BY <1>16 DEF SecondaryInit, Goto, TypeOK, Arrived, Released
  <2>2. FreshInv'
    BY <1>16, <1>p DEF SecondaryInit, Goto, TypeOK, SimInv, FreshInv
  <2>3. QED
    BY <1>1, <1>2, <1>16, <1>p, <2>1, <2>2 DEF SecondaryInit, Goto, bootVars, TypeOK, SimInv
<1>17. ASSUME UNCHANGED <<pc, i, logic, given, stack>> PROVE SimInv'
  <2>1. Arrived' = Arrived /\ Released' = Released
    BY <1>17 DEF Arrived, Released
  <2>2. FreshInv'
    BY <1>17 DEF SimInv, FreshInv
  <2>3. QED
    BY <1>1, <1>2, <1>17, <2>1, <2>2 DEF SimInv
<1>18. ASSUME NEW c \in CPU, TimerExpires(c) \/ TimerIrq(c) PROVE SimInv'
  BY <1>17, <1>18 DEF TimerExpires, TimerIrq, bootVars
<1>19. CASE UNCHANGED vars
  BY <1>17, <1>19 DEF vars
<1>20. QED
  BY <1>p, <1>3, <1>4, <1>5, <1>6, <1>7, <1>8, <1>9, <1>10, <1>11, <1>12, <1>13,
     <1>14, <1>15, <1>16, <1>18, <1>19 DEF Next, PrimaryStep, SecondaryStep

\* The initial states of the kernel are initial states of BringUp.
LEMMA InitBringUp == Init => BU!Init
<1>. SUFFICES ASSUME Init PROVE BU!Init
  OBVIOUS
<1>1. Secondary \subseteq CPU
  BY SecondaryCount
<1>2. Arrived = {} /\ Released = {}
  BY DEF Init, Arrived, Released
<1>3. QED
  BY <1>1, <1>2 DEF Init, BU!Init

\* The mapped variables, as functions on Secondary.
givenS == [c \in Secondary |-> given[c]]
stackS == [c \in Secondary |-> stack[c]]

\* Every step of the kernel is a step of BringUp or leaves its state alone:
\* StartCpu boots a CPU (mp.rs:20), FetchAdd is an arrival (mp.rs:35,
\* main.rs:46), PrimaryPass and SecondaryPass are releases (main.rs:50-52,
\* mp.rs:39-41).
LEMMA NextBringUp == IInv /\ SimInv /\ [Next]_vars => [BU!Next]_(BU!vars)
<1>. SUFFICES ASSUME IInv, SimInv, [Next]_vars PROVE [BU!Next]_(BU!vars)
  OBVIOUS
<1>. USE CpuNumAssumption, PrimaryAssumption, NoStackAssumption
<1>p. /\ PRIMARY \in CPU /\ TypeOK
      /\ Secondary \subseteq CPU \ {PRIMARY}
  BY SecondaryCount DEF CPU, IInv
<1>1. ASSUME UNCHANGED <<given, stack>>, Arrived' = Arrived, Released' = Released
      PROVE  UNCHANGED BU!vars
  BY <1>1 DEF BU!vars
<1>2. ASSUME PrimaryInit \/ SkipCpu \/ PassStack \/ WaitCpu \/ LoopEnd
             \/ RegisterTimer \/ PrimaryEnableIrqs \/ SystemOff
      PROVE  UNCHANGED BU!vars
  <2>1. UNCHANGED <<given, stack>>
    BY <1>2 DEF PrimaryInit, SkipCpu, PassStack, WaitCpu, LoopEnd, RegisterTimer,
       PrimaryEnableIrqs, SystemOff, bootVars
  <2>2. Arrived' = Arrived /\ Released' = Released
    BY <1>2, <1>p DEF PrimaryInit, SkipCpu, PassStack, WaitCpu, LoopEnd, RegisterTimer,
       PrimaryEnableIrqs, SystemOff, Goto, TypeOK, Arrived, Released
  <2>3. QED
    BY <1>1, <2>1, <2>2
<1>3. CASE StartCpu
  <2>1. /\ i \in CPU \ {PRIMARY} /\ i < CPU_NUM /\ logic < CPU_NUM - 1
        /\ given[i] = NoStack /\ pc[i] = "off"
    BY <1>3, <1>p DEF StartCpu, LoopInv, NeedsBoot, CPU, IInv, BootedInv, StartInv, TypeOK
  <2>2. Arrived' = Arrived /\ Released' = Released
    BY <1>3, <1>p, <2>1 DEF StartCpu, TypeOK, Arrived, Released
  <2>3. i \in Secondary /\ logic \in Stack
    BY <1>3, <1>p, <2>1 DEF StartCpu, TypeOK, SimInv, LogicInv, Secondary, Stack
  <2>4. \A d \in Secondary : given[d] # logic
    BY <1>p DEF IInv, BootedInv, TypeOK
  <2>5. givenS' = [givenS EXCEPT ![i] = logic] /\ givenS[i] = NoStack /\ UNCHANGED stackS
    BY <1>3, <1>p, <2>1, <2>3 DEF StartCpu, TypeOK, givenS, stackS
  <2>6. PICK c \in Secondary, s \in Stack : c = i /\ s = logic
    BY <2>3
  <2>7. BU!Boot(c, s)
    BY <2>2, <2>4, <2>5, <2>6 DEF BU!Boot, givenS, stackS
  <2>8. QED
    BY <2>7 DEF BU!Next
<1>4. ASSUME NEW c \in CPU \ {PRIMARY}, SecondaryEntry(c) PROVE BU!Next
  <2>1. /\ c \in Secondary /\ given[c] # NoStack /\ stack[c] = NoStack
        /\ SHARED_SLOT => slot = given[c]
    BY <1>4 DEF SecondaryEntry, IInv, StartInv, SlotInv, SimInv, FreshInv, SecondaryInv, Booted
  <2>2. Arrived' = Arrived /\ Released' = Released
    BY <1>4 DEF SecondaryEntry, Goto, TypeOK, IInv, Arrived, Released
  <2>3. /\ stackS' = [stackS EXCEPT ![c] = givenS[c]]
        /\ givenS[c] # NoStack /\ stackS[c] = NoStack /\ UNCHANGED givenS
    BY <1>4, <1>p, <2>1 DEF SecondaryEntry, bootVars, TypeOK, givenS, stackS
  <2>4. BU!Enter(c)
    BY <2>2, <2>3 DEF BU!Enter, givenS, stackS
  <2>5. QED
    BY <2>1, <2>4 DEF BU!Next
<1>5. ASSUME NEW c \in CPU, FetchAdd(c) PROVE BU!Next
  <2>1. c \notin Arrived /\ Arrived' = Arrived \cup {c} /\ Released' = Released
    BY <1>5, <1>p DEF FetchAdd, Goto, TypeOK, Arrived, Released
  <2>2. c \in Secondary \cup {PRIMARY}
    BY <1>5 DEF FetchAdd, IInv, StartInv, SimInv, SecondaryInv, Booted
  <2>3. c = PRIMARY \/ stackS[c] # NoStack
    BY <1>5, <1>p, <2>2 DEF FetchAdd, SimInv, FreshInv, stackS
  <2>4. UNCHANGED <<givenS, stackS>>
    BY <1>5 DEF FetchAdd, bootVars, givenS, stackS
  <2>5. BU!Arrive(c)
    BY <2>1, <2>3, <2>4 DEF BU!Arrive, givenS, stackS
  <2>6. QED
    BY <2>2, <2>5 DEF BU!Next
<1>6. ASSUME NEW c \in CPU, (c = PRIMARY /\ PrimaryPass) \/ (c # PRIMARY /\ SecondaryPass(c))
      PROVE  BU!Next
  <2>p. pc[c] = "spin" /\ pc' \in {[pc EXCEPT ![c] = "busy_wait"], [pc EXCEPT ![c] = "idle"]}
    BY <1>6, <1>p DEF PrimaryPass, SecondaryPass, Goto
  <2>1. Arrived' = Arrived /\ c \notin Released /\ Released' = Released \cup {c}
    <3>1. CASE pc' = [pc EXCEPT ![c] = "busy_wait"]
      BY <3>1, <2>p, <1>p DEF TypeOK, Arrived, Released
    <3>2. CASE pc' = [pc EXCEPT ![c] = "idle"]
      BY <3>2, <2>p, <1>p DEF TypeOK, Arrived, Released
    <3>3. QED
      BY <3>1, <3>2, <2>p
  <2>2. Arrived = Secondary \cup {PRIMARY}
    BY <1>6, BarrierComplete DEF PrimaryPass, SecondaryPass
  <2>3. c \in Arrived
    BY <1>6 DEF PrimaryPass, SecondaryPass, Arrived
  <2>4. UNCHANGED <<givenS, stackS>>
    BY <1>6 DEF PrimaryPass, SecondaryPass, bootVars, givenS, stackS
  <2>5. BU!Release(c)
    BY <2>1, <2>2, <2>4 DEF BU!Release, givenS, stackS
  <2>6. QED
    BY <2>2, <2>3, <2>5 DEF BU!Next
<1>7. ASSUME NEW c \in CPU \ {PRIMARY}, SecondaryInit(c) PROVE UNCHANGED BU!vars
  <2>1. Arrived' = Arrived /\ Released' = Released
    BY <1>7, <1>p DEF SecondaryInit, Goto, TypeOK, Arrived, Released
  <2>2. QED
    BY <1>1, <1>7, <2>1 DEF SecondaryInit, bootVars
<1>8. ASSUME UNCHANGED <<pc, given, stack>> PROVE UNCHANGED BU!vars
  BY <1>1, <1>8 DEF Arrived, Released
<1>9. ASSUME NEW c \in CPU, TimerExpires(c) \/ TimerIrq(c) PROVE UNCHANGED BU!vars
  BY <1>8, <1>9 DEF TimerExpires, TimerIrq, bootVars
<1>10. CASE UNCHANGED vars
  BY <1>8, <1>10 DEF vars
<1>11. QED
  BY <1>p, <1>2, <1>3, <1>4, <1>5, <1>6, <1>7, <1>9, <1>10 DEF Next, PrimaryStep, SecondaryStep

\* The kernel implements the abstract bring-up.
THEOREM Refinement == Spec => BringUpSpec
<1>1. Spec => [](IInv /\ SimInv)
  BY InitIInv, NextIInv, InitSimInv, NextSimInv, PTL DEF Spec
<1>2. QED
  BY <1>1, InitBringUp, NextBringUp, PTL DEF Spec, BringUpSpec, BU!Spec
=============================================================================
