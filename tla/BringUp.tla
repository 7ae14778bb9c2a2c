------------------------------ MODULE BringUp ------------------------------
(***************************************************************************)
(* What bringing up the secondary CPUs promises, whatever the platform:    *)
(*                                                                         *)
(*   - a CPU that cpu_boot started runs on the stack its caller passed     *)
(*     for it (axplat/src/power.rs, "Bootstraps the given CPU core with    *)
(*     the given initial stack"), and no stack is passed twice;            *)
(*   - no CPU goes past the initialization barrier before every CPU of     *)
(*     the kernel has finished its initialization.                         *)
(*                                                                         *)
(* SmpBoot implements this specification.                                  *)
(***************************************************************************)
CONSTANTS Secondary,    \* the CPUs that have to be started
          Primary,      \* the CPU that starts them
          Stack,        \* the boot stacks of the secondary CPUs
          NoStack       \* no stack yet

VARIABLES given,        \* given[c]: the stack passed to cpu_boot(c, ...)
          stack,        \* stack[c]: the stack c runs on
          inited,       \* the CPUs that have finished their initialization
          released      \* the CPUs that went past the barrier

vars == <<given, stack, inited, released>>

Init == /\ given = [c \in Secondary |-> NoStack]
        /\ stack = [c \in Secondary |-> NoStack]
        /\ inited = {}
        /\ released = {}

\* cpu_boot(c, s), with a stack no other CPU was given.
Boot(c, s) == /\ given[c] = NoStack
              /\ \A d \in Secondary : given[d] # s
              /\ given' = [given EXCEPT ![c] = s]
              /\ UNCHANGED <<stack, inited, released>>

\* A started CPU switches to its stack.
Enter(c) == /\ given[c] # NoStack
            /\ stack[c] = NoStack
            /\ stack' = [stack EXCEPT ![c] = given[c]]
            /\ UNCHANGED <<given, inited, released>>

\* A CPU announces that its initialization is over.
Arrive(c) == /\ c = Primary \/ stack[c] # NoStack
             /\ c \notin inited
             /\ inited' = inited \cup {c}
             /\ UNCHANGED <<given, stack, released>>

\* A CPU goes past the barrier.
Release(c) == /\ inited = Secondary \cup {Primary}
              /\ c \notin released
              /\ released' = released \cup {c}
              /\ UNCHANGED <<given, stack, inited>>

Next == \/ \E c \in Secondary, s \in Stack : Boot(c, s)
        \/ \E c \in Secondary : Enter(c)
        \/ \E c \in Secondary \cup {Primary} : Arrive(c) \/ Release(c)

Spec == Init /\ [][Next]_vars
=============================================================================
