----------------------------- MODULE MCConsole -----------------------------
(***************************************************************************)
(* Constants for model-checking Console: two CPUs.  CPU 0 prints, may read *)
(* and takes the interrupts of the UART; CPU 1 prints, also in its timer   *)
(* interrupt, and once writes without CONSOLE_LOCK.                        *)
(***************************************************************************)
EXTENDS Console, TLC

AllUarts == {"pl011", "loong", "dw", "x86", "sbi"}
Threads == {"main0", "main1"}
Handlers == {"tick1"}
UartHandler == "uart0"

CpuOf == [main0 |-> 0, uart0 |-> 0, main1 |-> 1, tick1 |-> 1]

PrintLine == [op |-> "print", text |-> <<<<"a">>, <<"nl">>>>]
ReadOne == [op |-> "read", room |-> 1]
WriteLine == [op |-> "write", text |-> <<<<"a", "nl">>>>]

JobsOf == [main0 |-> <<PrintLine, ReadOne>>, main1 |-> <<PrintLine, WriteLine>>,
           tick1 |-> <<PrintLine>>, uart0 |-> <<>>]

Keys == <<"a", "nl">>
=============================================================================
