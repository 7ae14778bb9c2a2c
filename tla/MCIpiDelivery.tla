---------------------------- MODULE MCIpiDelivery ----------------------------
(***************************************************************************)
(* Constants for model-checking IpiDelivery.                               *)
(***************************************************************************)
EXTENDS IpiDelivery

\* Each CPU sends to itself, to the other one and to all but itself.
TwoSenders == {0, 1}

\* The platforms that clear the pending bit before the handler runs, and the
\* one that clears it afterwards.
ClearingFirst == {"apic", "loongarch64"}
ClearingLast == {"riscv64"}
=============================================================================
