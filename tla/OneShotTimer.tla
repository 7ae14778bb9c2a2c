---------------------------- MODULE OneShotTimer ----------------------------
(***************************************************************************)
(* TimeIf on the four kinds of platforms: the clock that init_early sets   *)
(* up and set_oneshot_timer, for one CPU and its timer.                    *)
(*                                                                         *)
(* init_early reads the real-time clock, which counts whole seconds, and   *)
(* the counter, and keeps their difference as the epoch offset.            *)
(* set_oneshot_timer first reads the clock and computes what to program,   *)
(* then programs the timer; time passes in between, also because the CPU   *)
(* may be interrupted there.                                               *)
(*                                                                         *)
(* Times are in nanoseconds since power-on, when the hardware counter      *)
(* starts; it advances once in NPT of them, so conversions to and from     *)
(* ticks round down.  The monotonic time of x86 starts at INIT_TICK, that  *)
(* of the others with the counter.  The timers are                         *)
(*                                                                         *)
(*   "riscv64"      a compare register: it goes off at a given tick;       *)
(*   "arm"          a 32 bit count of ticks, 0 goes off at once;           *)
(*   "loongarch64"  a wide count of ticks, 0 goes off at once;             *)
(*   "x86"          a 32 bit count of nanoseconds, 0 stops the timer.      *)
(*                                                                         *)
(* The 32 bit counts are counts modulo W, u64 arithmetic is modulo W64.    *)
(***************************************************************************)
EXTENDS Integers

CONSTANTS PLATFORM,     \* the platforms considered
          NPT,          \* nanoseconds per tick
          W,            \* 2^32
          W64,          \* 2^64
          SEC,          \* nanoseconds per second
          EPOCH,        \* the real time at power-on
          BOOT,         \* when init_early may be called
          DEADLINE,     \* the deadlines kernels ask for
          MAX_NOW       \* bound: time stops here

ASSUME PlatformAssumption == PLATFORM \subseteq {"riscv64", "arm", "loongarch64", "x86"}
ASSUME NptAssumption == NPT \in Nat \ {0}
ASSUME WidthAssumption == W \in Nat \ {0} /\ W64 \in Nat \ {0} /\ W <= W64
ASSUME ClockAssumption == SEC \in Nat \ {0} /\ EPOCH \in Nat /\ BOOT \subseteq Nat
ASSUME DeadlineAssumption == DEADLINE \subseteq Nat
ASSUME MaxAssumption == MAX_NOW \in Nat

Never == -1     \* the timer is stopped

VARIABLES
    platform,   \* the platform of this machine
    now,        \* the time
    pc,         \* where init_early or set_oneshot_timer is, or "idle"
    INIT_TICK,  \* the counter when x86 read it first, 0 elsewhere
    rtc,        \* init_early: what the real-time clock said
    gap,        \* the time from that to the reading of the counter
    offset,     \* RTC_EPOCHOFFSET_NANOS
    deadline,   \* its argument
    read,       \* the time at which it read the clock
    value,      \* what it is going to program
    due         \* when the timer goes off

timerVars == <<deadline, value, due>>
clockVars == <<INIT_TICK, rtc, gap, offset>>
vars == <<platform, now, pc, read, timerVars, clockVars>>

Init == /\ platform \in PLATFORM
        /\ now \in BOOT
        /\ pc = IF platform = "x86" THEN "rdtsc" ELSE "rtc"
        /\ INIT_TICK = 0
        /\ rtc = 0
        /\ gap = 0
        /\ offset = 0
        /\ deadline = 0
        /\ read = 0
        /\ value = 0
        /\ due = Never

nanos_to_ticks(n) == n \div NPT
ticks_to_nanos(t) == t * NPT

current_ticks == nanos_to_ticks(now) - INIT_TICK

-----------------------------------------------------------------------------
(* init_early.                                                             *)

\* `INIT_TICK = _rdtsc()`
ReadTsc == /\ pc = "rdtsc"
           /\ INIT_TICK' = nanos_to_ticks(now)
           /\ pc' = "rtc"
           /\ UNCHANGED <<platform, now, read, timerVars, rtc, gap, offset>>

\* get_unix_timestamp() * 1_000_000_000
ReadRtc == /\ pc = "rtc"
           /\ rtc' = ((EPOCH + now) \div SEC) * SEC
           /\ read' = now
           /\ pc' = "offset"
           /\ UNCHANGED <<platform, now, timerVars, INIT_TICK, gap, offset>>

\* Mutant: the time since the clock started is not subtracted.
RtcOffsetPlain == rtc

\* The time of day at which the monotonic clock started; x86 subtracts the
\* first value of its counter instead of the monotonic time.
RtcOffset == rtc - ticks_to_nanos(IF platform = "x86" THEN INIT_TICK ELSE current_ticks)

SetOffset == /\ pc = "offset"
             /\ offset' = RtcOffset
             /\ gap' = now - read
             /\ pc' = "idle"
             /\ UNCHANGED <<platform, now, read, timerVars, INIT_TICK, rtc>>

monotonic_time_nanos == ticks_to_nanos(current_ticks)
wall_time_nanos == monotonic_time_nanos + offset

-----------------------------------------------------------------------------
\* A kernel calls set_oneshot_timer(d), whether the timer is armed or not.
Call(d) == /\ pc = "idle"
           /\ deadline' = d
           /\ pc' = "read"
           /\ UNCHANGED <<platform, now, read, value, due, clockVars>>

\* Mutant: ticks are compared with nanoseconds.
ArmValueMixed == LET deadline_ticks == nanos_to_ticks(deadline)
                 IN  IF now < deadline_ticks THEN (deadline_ticks - now) % W ELSE 0

\* `interval as u32`, or 0 if the deadline has passed.
ArmValue == LET deadline_ticks == nanos_to_ticks(deadline)
            IN  IF current_ticks < deadline_ticks
                THEN (deadline_ticks - current_ticks) % W
                ELSE 0

\* A subtraction of u64 values, without a case for a deadline that has passed.
LoongArchValue == (nanos_to_ticks(deadline) - current_ticks) % W64

\* Mutant: a deadline that has passed stops the timer.
X86ValueStops == LET now_ns == monotonic_time_nanos
                 IN  IF now_ns < deadline THEN deadline - now_ns ELSE 0

\* The time left in ticks of the local APIC timer, which are nanoseconds, or 1
\* if the deadline has passed.
X86Value == LET now_ns == monotonic_time_nanos
            IN  IF now_ns < deadline THEN deadline - now_ns ELSE 1

\* The first half of set_oneshot_timer.
ReadClock ==
    /\ pc = "read"
    /\ read' = now
    /\ value' = CASE platform = "riscv64" -> nanos_to_ticks(deadline)
                  [] platform = "arm" -> ArmValue
                  [] platform = "loongarch64" -> LoongArchValue
                  [] platform = "x86" -> X86Value
    /\ pc' = IF platform = "x86" /\ X86Value >= W THEN "panic" ELSE "program"
    /\ UNCHANGED <<platform, now, deadline, due, clockVars>>

\* The second half: sbi_rt::set_timer, set_countdown, tcfg::set_init_val,
\* set_timer_initial.
Program ==
    /\ pc = "program"
    /\ due' = CASE platform = "riscv64" -> ticks_to_nanos(value)
                [] platform \in {"arm", "loongarch64"} -> ticks_to_nanos(current_ticks + value)
                [] platform = "x86" -> IF value = 0 THEN Never ELSE now + value
    /\ pc' = "idle"
    /\ UNCHANGED <<platform, now, deadline, read, value, clockVars>>

\* Time passes; an armed timer that is due goes off first.
Elapse == /\ now < MAX_NOW
          /\ due = Never \/ now < due
          /\ now' = now + 1
          /\ UNCHANGED <<platform, pc, read, timerVars, clockVars>>

GoesOff == /\ due # Never
           /\ due <= now
           /\ due' = Never
           /\ UNCHANGED <<platform, now, pc, deadline, read, value, clockVars>>

Next == ReadTsc \/ ReadRtc \/ SetOffset
        \/ (\E d \in DEADLINE : Call(d)) \/ ReadClock \/ Program \/ Elapse \/ GoesOff

Spec == Init /\ [][Next]_vars

-----------------------------------------------------------------------------
(* Properties.                                                             *)

Later(a, b) == IF a >= b THEN a ELSE b

\* When the monotonic time is `deadline`.
Deadline == deadline + ticks_to_nanos(INIT_TICK)

\* "A timer interrupt will be triggered at the specified monotonic time
\* deadline" (axplat time.rs:40-41): at the deadline or at once if that has
\* passed, at most a tick later and later only by the time the call itself took
\* (generic_timer.rs:28-39, x86-pc time.rs:106-118, riscv64 time.rs:66-68).
InTime ==
    [][pc = "program" /\ pc' = "idle" =>
         /\ due' # Never
         /\ due' <= Later(Deadline, now) + (now - read) + NPT]_vars

\* The time left fits into the count of the timer; the drivers of arm say so in
\* a debug_assert (generic_timer.rs:35), x86-pc panics otherwise.
FitsCount == platform \in {"arm", "loongarch64"} =>
                 nanos_to_ticks(deadline) - nanos_to_ticks(read)
                     < (IF platform = "arm" THEN W ELSE W64)

\* The interrupt does not come a tick or more before the deadline, although the
\* clock is rounded down to ticks and the deadline too.
NotEarly ==
    [][pc = "program" /\ pc' = "idle" /\ FitsCount
         => due' = Never \/ due' > Deadline - NPT]_vars

\* wall_time is the "nanoseconds elapsed since epoch" (axplat time.rs:56), as
\* exact as a clock of whole seconds, a counter of ticks and the time between
\* reading the two allow, and never ahead by a tick.
Accurate == LET behind == EPOCH + now - wall_time_nanos
            IN  -NPT < behind /\ behind < SEC + gap + NPT
Initialized == pc \notin {"rdtsc", "rtc", "offset"}

\* The time of day is right on the platforms other than x86-pc, whenever
\* init_early runs (pl031.rs:28-34, riscv64 time.rs:22-30, loongarch64
\* time.rs:74-79).
WallClock == Initialized /\ platform # "x86" => Accurate

\* The same of x86-pc (time.rs:42-47).
X86WallClock == Initialized /\ platform = "x86" => Accurate
=============================================================================
