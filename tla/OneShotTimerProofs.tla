------------------------- MODULE OneShotTimerProofs -------------------------
(***************************************************************************)
(* The clock and the one-shot timer, for every length of a tick, every     *)
(* width of the counters, every deadline and every delay between the steps *)
(* of init_early and of set_oneshot_timer.                                 *)
(*                                                                         *)
(* A conversion to ticks and back loses less than a tick.  What has to be  *)
(* remembered between two steps is when the first of them was taken:       *)
(*   - the epoch offset is the difference of two rounded readings, the     *)
(*     second one `gap` after the first;                                   *)
(*   - the value to be programmed was computed from the clock at `read`.   *)
(***************************************************************************)
EXTENDS OneShotTimer, TLAPS

TypeInv ==
    /\ platform \in PLATFORM
    /\ now \in Nat
    /\ pc \in {"rdtsc", "rtc", "offset", "idle", "read", "program", "panic"}
    /\ INIT_TICK \in Nat
    /\ rtc \in Int /\ gap \in Nat /\ offset \in Int
    /\ deadline \in Nat /\ read \in Nat /\ value \in Nat
    /\ due \in Nat \cup {Never}

\* The counter never goes back behind its first reading, and the reading of
\* the clock is in the past.
PastInv == /\ read <= now
           /\ INIT_TICK <= nanos_to_ticks(now)
           /\ platform # "x86" => INIT_TICK = 0 /\ pc # "rdtsc"
           /\ pc \notin {"rdtsc", "rtc", "offset"} /\ platform = "x86"
                => INIT_TICK <= nanos_to_ticks(read)

\* The real-time clock was right when it was read, to a second.
RtcInv == pc = "offset" => /\ EPOCH + read - SEC < rtc
                           /\ rtc <= EPOCH + read
                           /\ INIT_TICK <= nanos_to_ticks(read)

\* The real time at which the counter was zero.
OffsetInv == Initialized /\ platform # "x86" =>
                 /\ EPOCH - SEC - gap < offset
                 /\ offset < EPOCH - gap + NPT

\* What is going to be programmed was computed at `read`.
Left == nanos_to_ticks(deadline) - nanos_to_ticks(read)
ValueInv ==
    pc = "program" =>
        /\ platform = "riscv64" => value = nanos_to_ticks(deadline)
        /\ platform = "arm" => value = IF Left > 0 THEN Left % W ELSE 0
        /\ platform = "loongarch64" => value = Left % W64
        /\ platform = "x86" =>
             LET time == ticks_to_nanos(nanos_to_ticks(read)) - ticks_to_nanos(INIT_TICK)
             IN  value = IF time < deadline THEN deadline - time ELSE 1

IInv == TypeInv /\ PastInv /\ RtcInv /\ OffsetInv /\ ValueInv

-----------------------------------------------------------------------------
(* Conversions.                                                            *)

LEMMA DivBounds ==
  ASSUME NEW n \in Nat, NEW q \in Nat \ {0}
  PROVE  /\ n \div q \in Nat
         /\ (n \div q) * q <= n
         /\ n < (n \div q) * q + q
OBVIOUS

LEMMA DivMonotonic ==
  ASSUME NEW m \in Nat, NEW n \in Nat, m <= n, NEW q \in Nat \ {0}
  PROVE  m \div q <= n \div q
<1> DEFINE a == m \div q
           b == n \div q
<1>1. /\ a \in Nat /\ b \in Nat
      /\ a * q <= m
      /\ n < b * q + q
  BY DivBounds
<1>2. SUFFICES ASSUME b + 1 <= a PROVE FALSE
  BY <1>1
<1>3. (b + 1) * q <= a * q
  BY <1>1, <1>2
<1>4. (b + 1) * q = b * q + q
  BY <1>1
<1> HIDE DEF a, b
<1> QED
  BY <1>1, <1>3, <1>4

LEMMA ModBounds ==
  ASSUME NEW n \in Int, NEW q \in Nat \ {0}
  PROVE  /\ n % q \in Nat
         /\ n >= 0 => n % q <= n
         /\ n >= 0 /\ n < q => n % q = n
OBVIOUS

\* A number of nanoseconds is a number of ticks and a part of a tick.
LEMMA Rounding ==
  ASSUME NEW n \in Nat
  PROVE  /\ nanos_to_ticks(n) \in Nat
         /\ ticks_to_nanos(nanos_to_ticks(n)) \in Nat
         /\ ticks_to_nanos(nanos_to_ticks(n)) <= n
         /\ n < ticks_to_nanos(nanos_to_ticks(n)) + NPT
<1>1. /\ n \div NPT \in Nat
      /\ (n \div NPT) * NPT <= n
      /\ n < (n \div NPT) * NPT + NPT
  BY DivBounds, NptAssumption
<1>2. (n \div NPT) * NPT \in Nat
  BY <1>1, NptAssumption
<1> QED
  BY <1>1, <1>2 DEF nanos_to_ticks, ticks_to_nanos

LEMMA TicksMonotonic ==
  ASSUME NEW m \in Nat, NEW n \in Nat, m <= n
  PROVE  nanos_to_ticks(m) <= nanos_to_ticks(n)
BY DivMonotonic, NptAssumption DEF nanos_to_ticks

LEMMA TicksType ==
  ASSUME NEW a \in Int
  PROVE  /\ ticks_to_nanos(a) \in Int
         /\ a >= 0 => ticks_to_nanos(a) \in Nat
<1>1. NPT \in Nat
  BY NptAssumption
<1>2. a * NPT \in Int /\ (a >= 0 => a * NPT \in Nat)
  BY <1>1
<1> QED
  BY <1>2 DEF ticks_to_nanos

\* ticks_to_nanos is linear and monotonic.
LEMMA TicksLinear ==
  ASSUME NEW a \in Int, NEW b \in Int
  PROVE  /\ ticks_to_nanos(a + b) = ticks_to_nanos(a) + ticks_to_nanos(b)
         /\ ticks_to_nanos(a - b) = ticks_to_nanos(a) - ticks_to_nanos(b)
         /\ a <= b => ticks_to_nanos(a) <= ticks_to_nanos(b)
<1>1. NPT \in Nat
  BY NptAssumption
<1>3. (a + b) * NPT = a * NPT + b * NPT
  BY <1>1
<1>4. (a - b) * NPT = a * NPT - b * NPT
  BY <1>1
<1>5. a <= b => a * NPT <= b * NPT
  BY <1>1
<1> QED
  BY <1>3, <1>4, <1>5 DEF ticks_to_nanos

-----------------------------------------------------------------------------
(* The invariant.                                                          *)

LEMMA Initially == Init => IInv
<1> SUFFICES ASSUME Init PROVE IInv
  OBVIOUS
<1>1. now \in Nat /\ nanos_to_ticks(now) \in Nat
  BY ClockAssumption, Rounding DEF Init
<1> QED
  BY <1>1 DEF Init, IInv, TypeInv, PastInv, RtcInv, OffsetInv, ValueInv, Initialized, Never

LEMMA ReadTscStep == IInv /\ ReadTsc => IInv'
<1> SUFFICES ASSUME IInv, ReadTsc PROVE IInv'
  OBVIOUS
<1>1. nanos_to_ticks(now) \in Nat
  BY Rounding DEF IInv, TypeInv
<1> QED
  BY <1>1 DEF IInv, TypeInv, PastInv, RtcInv, OffsetInv, ValueInv, Initialized, ReadTsc, timerVars

LEMMA ReadRtcStep == IInv /\ ReadRtc => IInv'
<1> SUFFICES ASSUME IInv, ReadRtc PROVE IInv'
  OBVIOUS
<1> USE DEF ReadRtc, timerVars
<1>1. /\ rtc' \in Int
      /\ EPOCH + now - SEC < rtc'
      /\ rtc' <= EPOCH + now
  <2>1. EPOCH + now \in Nat /\ now \in Nat
    BY ClockAssumption DEF IInv, TypeInv
  <2> DEFINE seconds == ((EPOCH + now) \div SEC) * SEC
  <2>2. /\ (EPOCH + now) \div SEC \in Nat
        /\ seconds <= EPOCH + now
        /\ EPOCH + now < seconds + SEC
    BY <2>1, DivBounds, ClockAssumption
  <2>3. seconds \in Int
    BY <2>2, ClockAssumption
  <2>4. rtc' = seconds
    OBVIOUS
  <2> HIDE DEF seconds, ReadRtc
  <2> QED
    BY <2>1, <2>2, <2>3, <2>4, ClockAssumption
<1> QED
  BY <1>1 DEF IInv, TypeInv, PastInv, RtcInv, OffsetInv, ValueInv, Initialized

\* The offset is the difference of the two readings; each has lost less than
\* its unit.
LEMMA SetOffsetStep == IInv /\ SetOffset => IInv'
<1> SUFFICES ASSUME IInv, SetOffset PROVE IInv'
  OBVIOUS
<1> USE DEF SetOffset, timerVars
<1>1. /\ now \in Nat /\ read \in Nat /\ read <= now /\ INIT_TICK \in Nat
      /\ rtc \in Int /\ EPOCH + read - SEC < rtc /\ rtc <= EPOCH + read
  BY DEF IInv, TypeInv, PastInv, RtcInv
<1>2. gap' \in Nat /\ gap' = now - read
  BY <1>1
<1>3. offset' \in Int
  <2>1. current_ticks \in Int
    BY <1>1, Rounding DEF current_ticks
  <2>2. ticks_to_nanos(INIT_TICK) \in Int /\ ticks_to_nanos(current_ticks) \in Int
    BY <1>1, <2>1, TicksType
  <2> QED
    BY <1>1, <2>2 DEF RtcOffset
<1>4. OffsetInv'
  <2> SUFFICES ASSUME platform # "x86"
               PROVE  /\ EPOCH - SEC - gap' < offset'
                      /\ offset' < EPOCH - gap' + NPT
    BY DEF OffsetInv
  <2>1. current_ticks = nanos_to_ticks(now)
    BY <1>1, Rounding DEF IInv, PastInv, current_ticks
  <2>2. offset' = rtc - ticks_to_nanos(nanos_to_ticks(now))
    BY <2>1 DEF RtcOffset
  <2>3. /\ ticks_to_nanos(nanos_to_ticks(now)) \in Nat
        /\ ticks_to_nanos(nanos_to_ticks(now)) <= now
        /\ now < ticks_to_nanos(nanos_to_ticks(now)) + NPT
    BY <1>1, Rounding
  <2> QED
    BY <1>1, <1>2, <2>2, <2>3, ClockAssumption, NptAssumption
<1> QED
  BY <1>1, <1>2, <1>3, <1>4 DEF IInv, TypeInv, PastInv, RtcInv, ValueInv

LEMMA CallStep == ASSUME NEW d \in DEADLINE, IInv, Call(d) PROVE IInv'
BY DeadlineAssumption
   DEF IInv, TypeInv, PastInv, RtcInv, OffsetInv, ValueInv, Initialized, Call, clockVars

LEMMA ReadClockStep == IInv /\ ReadClock => IInv'
<1> SUFFICES ASSUME IInv, ReadClock PROVE IInv'
  OBVIOUS
<1> USE DEF ReadClock, clockVars
<1>1. /\ now \in Nat /\ deadline \in Nat /\ INIT_TICK \in Nat
      /\ nanos_to_ticks(now) \in Nat /\ nanos_to_ticks(deadline) \in Nat
      /\ platform \in {"riscv64", "arm", "loongarch64", "x86"}
      /\ platform # "x86" => current_ticks = nanos_to_ticks(now)
  BY Rounding, PlatformAssumption DEF IInv, TypeInv, PastInv, current_ticks
<1> DEFINE left == nanos_to_ticks(deadline) - nanos_to_ticks(now)
           time == ticks_to_nanos(nanos_to_ticks(now)) - ticks_to_nanos(INIT_TICK)
<1>2. left \in Int /\ Left' = left
  BY <1>1 DEF Left, nanos_to_ticks
<1>3. left % W \in Nat /\ left % W64 \in Nat
  BY <1>2, ModBounds, WidthAssumption
<1>4. monotonic_time_nanos = time /\ time \in Int
  BY <1>1, TicksLinear, TicksType DEF monotonic_time_nanos, current_ticks
<1>5. X86Value = IF time < deadline THEN deadline - time ELSE 1
  BY <1>4 DEF X86Value
<1>6. ArmValue = (IF left > 0 THEN left % W ELSE 0) \/ platform # "arm"
  BY <1>1 DEF ArmValue
<1>7. LoongArchValue = left % W64 \/ platform # "loongarch64"
  BY <1>1 DEF LoongArchValue
<1>8. ValueInv'
  <2>1. time' = time
    BY DEF ticks_to_nanos, nanos_to_ticks
  <2>2. nanos_to_ticks(deadline)' = nanos_to_ticks(deadline)
        /\ ticks_to_nanos(nanos_to_ticks(read))' = ticks_to_nanos(nanos_to_ticks(now))
        /\ ticks_to_nanos(INIT_TICK)' = ticks_to_nanos(INIT_TICK)
    BY DEF ticks_to_nanos, nanos_to_ticks
  <2> HIDE DEF left, time
  <2> QED
    BY <1>1, <1>2, <1>5, <1>6, <1>7, <2>2 DEF ValueInv, time
<1>9. value' \in Nat
  <2> HIDE DEF left, time
  <2> QED
    BY <1>1, <1>3, <1>4, <1>5, <1>6, <1>7
<1>10. PastInv'
  <2>1. /\ nanos_to_ticks(now)' = nanos_to_ticks(now)
        /\ nanos_to_ticks(read)' = nanos_to_ticks(now)
    BY DEF nanos_to_ticks
  <2> QED
    BY <1>1, <2>1 DEF IInv, PastInv
<1> QED
  BY <1>1, <1>8, <1>9, <1>10 DEF IInv, TypeInv, RtcInv, OffsetInv, Initialized

LEMMA ProgramStep == IInv /\ Program => IInv'
<1> SUFFICES ASSUME IInv, Program PROVE IInv'
  OBVIOUS
<1> USE DEF Program, clockVars
<1>1. /\ now \in Nat /\ value \in Nat /\ INIT_TICK \in Nat
      /\ nanos_to_ticks(now) \in Nat
      /\ INIT_TICK <= nanos_to_ticks(now)
      /\ platform \in {"riscv64", "arm", "loongarch64", "x86"}
  BY Rounding, PlatformAssumption DEF IInv, TypeInv, PastInv
<1>2. current_ticks + value \in Nat
  BY <1>1 DEF current_ticks
<1>3. ticks_to_nanos(value) \in Nat /\ ticks_to_nanos(current_ticks + value) \in Nat
  BY <1>1, <1>2, TicksType
<1>4. due' \in Nat \cup {Never}
  BY <1>1, <1>3
<1> QED
  BY <1>4 DEF IInv, TypeInv, PastInv, RtcInv, OffsetInv, ValueInv, Initialized

LEMMA ElapseStep == IInv /\ Elapse => IInv'
<1> SUFFICES ASSUME IInv, Elapse PROVE IInv'
  OBVIOUS
<1> USE DEF Elapse, clockVars, timerVars
<1>1. now \in Nat /\ now + 1 \in Nat
  BY DEF IInv, TypeInv
<1>2. /\ nanos_to_ticks(now) \in Nat /\ nanos_to_ticks(now + 1) \in Nat
      /\ nanos_to_ticks(now) <= nanos_to_ticks(now + 1)
  BY <1>1, Rounding, TicksMonotonic
<1>3. PastInv'
  BY <1>1, <1>2 DEF IInv, TypeInv, PastInv, nanos_to_ticks
<1> QED
  BY <1>1, <1>3
     DEF IInv, TypeInv, RtcInv, OffsetInv, ValueInv, Left, Initialized,
         nanos_to_ticks, ticks_to_nanos

LEMMA GoesOffStep == IInv /\ GoesOff => IInv'
BY DEF IInv, TypeInv, PastInv, RtcInv, OffsetInv, ValueInv, Left, Initialized, GoesOff,
       clockVars, nanos_to_ticks, ticks_to_nanos

LEMMA Inductive == IInv /\ [Next]_vars => IInv'
<1> SUFFICES ASSUME IInv, [Next]_vars PROVE IInv'
  OBVIOUS
<1>1. CASE UNCHANGED vars
  BY <1>1 DEF vars, timerVars, clockVars, IInv, TypeInv, PastInv, RtcInv, OffsetInv,
              ValueInv, Left, Initialized, nanos_to_ticks, ticks_to_nanos
<1> QED
  BY <1>1, ReadTscStep, ReadRtcStep, SetOffsetStep, CallStep, ReadClockStep, ProgramStep,
     ElapseStep, GoesOffStep DEF Next

LEMMA Invariance == Spec => []IInv
BY Initially, Inductive, PTL DEF Spec

-----------------------------------------------------------------------------
(* The properties.                                                         *)

\* wall_time_nanos is right to a second, a tick and the time init_early took
\* between its two readings, on every platform but x86-pc.
THEOREM WallClockIsRight == Spec => []WallClock
<1>1. IInv => WallClock
  <2> SUFFICES ASSUME IInv, Initialized, platform # "x86" PROVE Accurate
    BY DEF WallClock
  <2> DEFINE ticks == ticks_to_nanos(nanos_to_ticks(now))
  <2>1. /\ now \in Nat /\ gap \in Nat /\ offset \in Int
        /\ EPOCH - SEC - gap < offset
        /\ offset < EPOCH - gap + NPT
    BY DEF IInv, TypeInv, OffsetInv
  <2>2. ticks \in Nat /\ ticks <= now /\ now < ticks + NPT
    BY <2>1, Rounding
  <2>3. wall_time_nanos = ticks + offset
    BY <2>1, Rounding DEF IInv, PastInv, wall_time_nanos, monotonic_time_nanos, current_ticks
  <2> HIDE DEF ticks
  <2> QED
    BY <2>1, <2>2, <2>3, ClockAssumption, NptAssumption DEF Accurate
<1> QED
  BY <1>1, Invariance, PTL

\* Only the second half of set_oneshot_timer goes from "program" to "idle".
LEMMA OnlyProgram == [Next]_vars /\ pc = "program" /\ pc' = "idle" => Program
BY DEF Next, vars, ReadTsc, ReadRtc, SetOffset, Call, ReadClock, Elapse, GoesOff

\* What the timer is set to, when the clock was read at `read` and the timer is
\* programmed now.
LEMMA Programmed ==
  ASSUME IInv, Program
  PROVE  LET end == ticks_to_nanos(nanos_to_ticks(deadline))
             was == ticks_to_nanos(nanos_to_ticks(read))
             is == ticks_to_nanos(nanos_to_ticks(now))
             init == ticks_to_nanos(INIT_TICK)
         IN  /\ platform = "riscv64" => due' = end
             /\ platform = "arm" =>
                  /\ Left > 0 => due' <= is + end - was
                  /\ Left > 0 /\ Left < W => due' = is + end - was
                  /\ Left <= 0 => due' = is /\ end <= was
             /\ platform = "loongarch64" => due' >= is + end - was \/ Left >= W64
             /\ platform = "x86" =>
                  due' = IF was - init < deadline THEN now + deadline - (was - init) ELSE now + 1
<1> USE DEF Program, clockVars
<1> DEFINE end == ticks_to_nanos(nanos_to_ticks(deadline))
           was == ticks_to_nanos(nanos_to_ticks(read))
           is == ticks_to_nanos(nanos_to_ticks(now))
           init == ticks_to_nanos(INIT_TICK)
<1>1. /\ now \in Nat /\ deadline \in Nat /\ read \in Nat /\ INIT_TICK \in Nat /\ value \in Nat
      /\ nanos_to_ticks(now) \in Nat /\ nanos_to_ticks(deadline) \in Nat
      /\ nanos_to_ticks(read) \in Nat
      /\ platform # "x86" => INIT_TICK = 0
  BY Rounding DEF IInv, TypeInv, PastInv
<1>2. Left \in Int /\ end \in Int /\ was \in Int /\ is \in Int /\ init \in Int
  BY <1>1, TicksType DEF Left
<1>3. ticks_to_nanos(Left) = end - was
  BY <1>1, TicksLinear DEF Left
<1>4. ASSUME platform # "x86"
      PROVE  ticks_to_nanos(current_ticks + value) = is + ticks_to_nanos(value)
  <2>1. current_ticks = nanos_to_ticks(now)
    BY <1>1, <1>4 DEF current_ticks
  <2> QED
    BY <1>1, <2>1, TicksLinear
<1>5. CASE platform = "riscv64"
  BY <1>1, <1>5 DEF IInv, ValueInv
<1>6. CASE platform = "arm"
  <2>1. due' = is + ticks_to_nanos(value) /\ ticks_to_nanos(value) \in Int
    BY <1>1, <1>4, <1>6, TicksType
  <2>2. ASSUME Left > 0
        PROVE  due' <= is + end - was /\ (Left < W => due' = is + end - was)
    <3>1. value = Left % W
      BY <1>1, <1>6, <2>2 DEF IInv, ValueInv
    <3>2. value <= Left /\ (Left < W => value = Left)
      BY <1>2, <2>2, <3>1, ModBounds, WidthAssumption
    <3>3. ticks_to_nanos(value) <= ticks_to_nanos(Left)
      BY <1>1, <1>2, <3>2, TicksLinear
    <3> HIDE DEF end, was, is, Program
    <3> QED
      BY <1>2, <1>3, <2>1, <3>2, <3>3
  <2>3. ASSUME Left <= 0
        PROVE  due' = is /\ end <= was
    <3>1. value = 0
      BY <1>1, <1>2, <1>6, <2>3 DEF IInv, ValueInv
    <3>2. ticks_to_nanos(0) = 0
      BY NptAssumption DEF ticks_to_nanos
    <3>3. nanos_to_ticks(deadline) <= nanos_to_ticks(read)
      BY <1>1, <2>3 DEF Left
    <3>4. end <= was
      BY <1>1, <3>3, TicksLinear
    <3> HIDE DEF end, was, is, Program
    <3> QED
      BY <1>2, <2>1, <3>1, <3>2, <3>4
  <2> QED
    BY <1>2, <1>6, <2>2, <2>3
<1>7. CASE platform = "loongarch64"
  <2>1. due' = is + ticks_to_nanos(value) /\ ticks_to_nanos(value) \in Int
    BY <1>1, <1>4, <1>7, TicksType
  <2>2. value = Left % W64
    BY <1>1, <1>7 DEF IInv, ValueInv
  <2>3. SUFFICES ASSUME Left < W64 PROVE due' >= is + end - was
    BY <1>2, <1>7, WidthAssumption
  <2>4. Left <= value
    BY <1>1, <1>2, <2>2, <2>3, ModBounds, WidthAssumption
  <2>5. ticks_to_nanos(Left) <= ticks_to_nanos(value)
    BY <1>1, <1>2, <2>4, TicksLinear
  <2> HIDE DEF end, was, is, Program
  <2> QED
    BY <1>2, <1>3, <2>1, <2>5
<1>8. CASE platform = "x86"
  <2>1. value = IF was - init < deadline THEN deadline - (was - init) ELSE 1
    BY <1>1, <1>8 DEF IInv, ValueInv
  <2>2. due' = IF value = 0 THEN Never ELSE now + value
    BY <1>8
  <2>3. due' = IF was - init < deadline THEN now + deadline - (was - init) ELSE now + 1
    <3> HIDE DEF end, was, is, init, Program
    <3> QED
      BY <1>1, <1>2, <2>1, <2>2
  <2> QED
    BY <1>8, <2>3
<1>9. platform \in {"riscv64", "arm", "loongarch64", "x86"}
  BY PlatformAssumption DEF IInv, TypeInv
<1> QED
  BY <1>5, <1>6, <1>7, <1>8, <1>9

\* set_oneshot_timer never stops the timer.
LEMMA Armed ==
  ASSUME IInv, Program
  PROVE  due' \in Nat
<1> USE DEF Program
<1>1. /\ now \in Nat /\ value \in Nat /\ INIT_TICK \in Nat /\ deadline \in Nat /\ read \in Nat
      /\ nanos_to_ticks(now) \in Nat
      /\ INIT_TICK <= nanos_to_ticks(now)
      /\ platform \in {"riscv64", "arm", "loongarch64", "x86"}
  BY Rounding, PlatformAssumption DEF IInv, TypeInv, PastInv
<1>2. current_ticks + value \in Nat
  BY <1>1 DEF current_ticks
<1>3. ticks_to_nanos(value) \in Nat /\ ticks_to_nanos(current_ticks + value) \in Nat
  BY <1>1, <1>2, TicksType
<1>4. ASSUME platform = "x86" PROVE value # 0
  <2> DEFINE time == ticks_to_nanos(nanos_to_ticks(read)) - ticks_to_nanos(INIT_TICK)
  <2>1. time \in Int
    BY <1>1, Rounding, TicksType
  <2>2. value = IF time < deadline THEN deadline - time ELSE 1
    BY <1>4 DEF IInv, ValueInv
  <2> HIDE DEF time
  <2> QED
    BY <1>1, <2>1, <2>2
<1> QED
  BY <1>1, <1>3, <1>4

\* The interrupt comes at the deadline, or at once if that has passed: at most
\* a tick and the time the call took too late.  The driver of loongarch64 does
\* not have this property: it subtracts without a comparison.
THEOREM TimerIsInTime == "loongarch64" \notin PLATFORM => (Spec => InTime)
<1> SUFFICES ASSUME "loongarch64" \notin PLATFORM PROVE Spec => InTime
  OBVIOUS
<1>1. IInv /\ [Next]_vars =>
        [pc = "program" /\ pc' = "idle" =>
           /\ due' # Never
           /\ due' <= Later(Deadline, now) + (now - read) + NPT]_vars
  <2> SUFFICES ASSUME IInv, Program
               PROVE  /\ due' # Never
                      /\ due' <= Later(Deadline, now) + (now - read) + NPT
    BY OnlyProgram
  <2> DEFINE end == ticks_to_nanos(nanos_to_ticks(deadline))
             was == ticks_to_nanos(nanos_to_ticks(read))
             is == ticks_to_nanos(nanos_to_ticks(now))
             init == ticks_to_nanos(INIT_TICK)
  <2>1. /\ now \in Nat /\ deadline \in Nat /\ read \in Nat /\ INIT_TICK \in Nat
        /\ read <= now
        /\ platform \in {"riscv64", "arm", "x86"}
        /\ platform # "x86" => INIT_TICK = 0
    BY PlatformAssumption DEF IInv, TypeInv, PastInv
  <2>2. /\ end \in Nat /\ end <= deadline
        /\ was \in Nat /\ was <= read /\ read < was + NPT
        /\ is \in Nat /\ is <= now
    BY <2>1, Rounding
  <2>3. init \in Nat /\ (platform # "x86" => init = 0)
    BY <2>1, TicksType, NptAssumption DEF ticks_to_nanos
  <2>4. /\ platform = "riscv64" => due' = end
        /\ platform = "arm" => /\ Left > 0 => due' <= is + end - was
                               /\ Left <= 0 => due' = is
        /\ platform = "x86" =>
             due' = IF was - init < deadline THEN now + deadline - (was - init) ELSE now + 1
    BY Programmed
  <2>5. due' \in Nat /\ due' # Never
    BY Armed DEF Never
  <2>6. Left \in Int /\ NPT \in Nat \ {0}
    BY <2>1, Rounding, NptAssumption DEF Left
  <2>7. Deadline = deadline + init
    BY DEF Deadline
  <2>8. /\ Later(Deadline, now) \in Nat
        /\ Deadline <= Later(Deadline, now)
        /\ now <= Later(Deadline, now)
    BY <2>1, <2>3, <2>7 DEF Later
  <2> HIDE DEF end, was, is, init
  <2>9. CASE platform = "riscv64"
    BY <2>1, <2>2, <2>3, <2>4, <2>5, <2>6, <2>7, <2>8, <2>9
  <2>10. CASE platform = "arm"
    BY <2>1, <2>2, <2>3, <2>4, <2>5, <2>6, <2>7, <2>8, <2>10
  <2>11. CASE platform = "x86"
    BY <2>1, <2>2, <2>3, <2>4, <2>5, <2>6, <2>7, <2>8, <2>11
  <2> QED
    BY <2>1, <2>9, <2>10, <2>11
<1> QED
  BY <1>1, Invariance, PTL DEF Spec, InTime

\* The interrupt does not come a tick or more before the deadline, on any
\* platform, if the time left fits into the count of its timer.
THEOREM TimerIsNotEarly == Spec => NotEarly
<1>1. IInv /\ [Next]_vars =>
        [pc = "program" /\ pc' = "idle" /\ FitsCount
           => due' = Never \/ due' > Deadline - NPT]_vars
  <2> SUFFICES ASSUME IInv, Program, FitsCount
               PROVE  due' > Deadline - NPT
    BY OnlyProgram
  <2> DEFINE end == ticks_to_nanos(nanos_to_ticks(deadline))
             was == ticks_to_nanos(nanos_to_ticks(read))
             is == ticks_to_nanos(nanos_to_ticks(now))
             init == ticks_to_nanos(INIT_TICK)
  <2>1. /\ now \in Nat /\ deadline \in Nat /\ read \in Nat /\ INIT_TICK \in Nat
        /\ read <= now
        /\ platform \in {"riscv64", "arm", "loongarch64", "x86"}
        /\ platform # "x86" => INIT_TICK = 0
    BY PlatformAssumption DEF IInv, TypeInv, PastInv
  <2>2. /\ end \in Nat /\ deadline < end + NPT
        /\ was \in Nat /\ was <= read
        /\ is \in Nat
    BY <2>1, Rounding
  <2>3. was <= is
    <3>1. /\ nanos_to_ticks(read) \in Nat /\ nanos_to_ticks(now) \in Nat
          /\ nanos_to_ticks(read) <= nanos_to_ticks(now)
      BY <2>1, Rounding, TicksMonotonic
    <3> QED
      BY <3>1, TicksLinear
  <2>4. init \in Nat /\ (platform # "x86" => init = 0)
    BY <2>1, TicksType, NptAssumption DEF ticks_to_nanos
  <2>5. Left \in Int /\ NPT \in Nat \ {0}
    BY <2>1, Rounding, NptAssumption DEF Left
  <2>6. /\ platform = "arm" => Left < W
        /\ platform = "loongarch64" => Left < W64
    BY DEF FitsCount, Left
  <2>7. /\ platform = "riscv64" => due' = end
        /\ platform = "arm" => /\ Left > 0 => due' = is + end - was
                               /\ Left <= 0 => due' = is /\ end <= was
        /\ platform = "loongarch64" => due' >= is + end - was
        /\ platform = "x86" =>
             due' = IF was - init < deadline THEN now + deadline - (was - init) ELSE now + 1
    BY <2>5, <2>6, Programmed, WidthAssumption
  <2>8. due' \in Nat
    BY Armed
  <2>9. Deadline = deadline + init
    BY DEF Deadline
  <2> HIDE DEF end, was, is, init
  <2>10. CASE platform = "riscv64"
    BY <2>1, <2>2, <2>4, <2>5, <2>7, <2>8, <2>9, <2>10
  <2>11. CASE platform = "arm"
    BY <2>1, <2>2, <2>3, <2>4, <2>5, <2>7, <2>8, <2>9, <2>11
  <2>12. CASE platform = "loongarch64"
    BY <2>1, <2>2, <2>3, <2>4, <2>5, <2>7, <2>8, <2>9, <2>12
  <2>13. CASE platform = "x86"
    BY <2>1, <2>2, <2>4, <2>5, <2>7, <2>8, <2>9, <2>13
  <2> QED
    BY <2>1, <2>10, <2>11, <2>12, <2>13
<1> QED
  BY <1>1, Invariance, PTL DEF Spec, NotEarly
=============================================================================
