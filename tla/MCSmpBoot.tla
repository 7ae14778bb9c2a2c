----------------------------- MODULE MCSmpBoot -----------------------------
(* Constants for model-checking SmpBoot.                                   *)
EXTENDS SmpBoot

\* On a machine with more CPUs than AX_CPU_NUM, the boot CPU may be one outside
\* the ids the kernel uses.
OutsidePrimary == 5

\* Every CPU starts, or one of the CPUs 0 to 2 does not.
OneMayFail == {{}, {0}, {1}, {2}}
=============================================================================
