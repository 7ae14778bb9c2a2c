--------------------------- MODULE MCOneShotTimer ---------------------------
(***************************************************************************)
(* Constants for model-checking OneShotTimer, with ticks of two            *)
(* nanoseconds, seconds of four, and time up to 14.                        *)
(***************************************************************************)
EXTENDS OneShotTimer

\* init_early runs right after power-on, or seconds later.
BootTimes == {1, 9}

\* Deadlines that a 32 bit count (W = 16) always reaches: before init_early,
\* while the model's time lasts, and after it.
NearDeadlines == 0 .. 15

\* The platforms that have a case for a deadline that has passed, and others.
Careful == {"riscv64", "arm", "x86"}
OnlyLoongArch == {"loongarch64"}
OnlyX86 == {"x86"}
=============================================================================
