----------------------------- MODULE IpiDelivery -----------------------------
(***************************************************************************)
(* Inter-processor interrupts: send_ipi on the sending CPUs and handle on  *)
(* the receiving ones, under the one use IPIs have: a CPU posts work for   *)
(* others in their mailboxes, sends them an IPI, and their IPI handler     *)
(* does all the work it finds.                                             *)
(*                                                                         *)
(* A pending IPI is one bit: sending it twice before it is cleared is      *)
(* sending it once.  The platforms differ in when the bit is cleared, and  *)
(* in how IPIs are sent to several CPUs:                                   *)
(*                                                                         *)
(*   "apic"         by the acknowledge, before handle calls the handler    *)
(*                  (the end of interrupt only lets the next one in); all  *)
(*                  at once.  The local APIC of x86-pc, and the GIC;       *)
(*   "loongarch64"  by handle_ipi, which clears the status bits it has     *)
(*                  read and then calls the handler; one by one;           *)
(*   "riscv64"      by handle, after the handler has returned; one by one. *)
(***************************************************************************)
EXTENDS Integers

CONSTANTS CPU_NUM,      \* the number of CPUs
          SENDER,       \* the CPUs whose threads send IPIs
          PLATFORM      \* the platforms considered

ASSUME CpuNumAssumption == CPU_NUM \in Nat \ {0}
ASSUME SenderAssumption == SENDER \subseteq 0 .. CPU_NUM - 1
ASSUME PlatformAssumption == PLATFORM \subseteq {"apic", "loongarch64", "riscv64"}

CPU == 0 .. CPU_NUM - 1

VARIABLES
    platform,   \* the platform of this machine
    mailbox,    \* mailbox[c]: the CPUs whose work for c is not done yet
    todo,       \* todo[s]: the CPUs that send_ipi on s has still to signal
    pending,    \* the CPUs whose IPI is pending
    phase       \* phase[c]: where the IPI interrupt on c is

vars == <<platform, mailbox, todo, pending, phase>>

Init == /\ platform \in PLATFORM
        /\ mailbox = [c \in CPU |-> {}]
        /\ todo = [c \in CPU |-> {}]
        /\ pending = {}
        /\ phase = [c \in CPU |-> "idle"]

Goto(c, p) == phase' = [phase EXCEPT ![c] = p]

-----------------------------------------------------------------------------
(* The sending CPU, in thread context: its own interrupts come first.      *)

\* The CPUs of an IpiTarget: Current, Other and AllExceptCurrent.
Targets(s) == {{s}} \cup {{c} : c \in CPU \ {s}} \cup {CPU \ {s}}

\* A call of send_ipi, with the work it is about.
Post(s, T) == /\ phase[s] = "idle"
              /\ todo[s] = {}
              /\ mailbox' = [c \in CPU |-> IF c \in T THEN mailbox[c] \cup {s} ELSE mailbox[c]]
              /\ todo' = [todo EXCEPT ![s] = T]
              /\ UNCHANGED <<platform, pending, phase>>

\* `for i in 0..cpu_num`: the next CPU is signalled.
SendNext(s) == /\ platform # "apic"
               /\ phase[s] = "idle"
               /\ \E c \in todo[s] :
                    /\ \A d \in todo[s] : c <= d
                    /\ pending' = pending \cup {c}
                    /\ todo' = [todo EXCEPT ![s] = @ \ {c}]
               /\ UNCHANGED <<platform, mailbox, phase>>

\* AllExcludingSelf, AllOther: the interrupt controller signals them at once.
SendAll(s) == /\ platform = "apic"
              /\ phase[s] = "idle"
              /\ todo[s] # {}
              /\ pending' = pending \cup todo[s]
              /\ todo' = [todo EXCEPT ![s] = {}]
              /\ UNCHANGED <<platform, mailbox, phase>>

-----------------------------------------------------------------------------
(* The receiving CPU.  In phase "clear", handle_ipi has read a status other  *)
(* than zero.                                                              *)

\* The interrupt is taken.
Enter(c) == /\ phase[c] = "idle"
            /\ c \in pending
            /\ pending' = IF platform = "apic" THEN pending \ {c} ELSE pending
            /\ Goto(c, IF platform = "loongarch64" THEN "read" ELSE "handle")
            /\ UNCHANGED <<platform, mailbox, todo>>

\* handle_ipi: `status = iocsr_read_w(IOCSR_IPI_STATUS)`
ReadStatus(c) == /\ phase[c] = "read"
                 /\ Goto(c, IF c \in pending THEN "clear" ELSE "idle")
                 /\ UNCHANGED <<platform, mailbox, todo, pending>>

\* handle_ipi: `iocsr_write_w(IOCSR_IPI_CLEAR, status)`
ClearStatus(c) == /\ phase[c] = "clear"
                  /\ pending' = pending \ {c}
                  /\ Goto(c, "handle")
                  /\ UNCHANGED <<platform, mailbox, todo>>

\* Mutant: the handler does only one CPU's work, as if IPIs were counted.
RunHandlerOnce(c) == /\ phase[c] = "handle"
                     /\ IF mailbox[c] = {}
                        THEN UNCHANGED mailbox
                        ELSE \E s \in mailbox[c] : mailbox' = [mailbox EXCEPT ![c] = @ \ {s}]
                     /\ Goto(c, "return")
                     /\ UNCHANGED <<platform, todo, pending>>

\* HandlerTable::handle, or the pointer in IPI_HANDLER: the handler does all
\* the work it finds.
RunHandler(c) == /\ phase[c] = "handle"
                 /\ mailbox' = [mailbox EXCEPT ![c] = {}]
                 /\ Goto(c, "return")
                 /\ UNCHANGED <<platform, todo, pending>>

\* Mutant: the pending bit is cleared after the handler on every platform.
ReturnClears(c) == /\ phase[c] = "return"
                   /\ pending' = pending \ {c}
                   /\ Goto(c, "idle")
                   /\ UNCHANGED <<platform, mailbox, todo>>

\* End of interrupt; on riscv64, `sip::clear_ssoft()`.
Return(c) == /\ phase[c] = "return"
             /\ pending' = IF platform = "riscv64" THEN pending \ {c} ELSE pending
             /\ Goto(c, "idle")
             /\ UNCHANGED <<platform, mailbox, todo>>

-----------------------------------------------------------------------------
Next == \/ \E s \in SENDER : \/ \E T \in Targets(s) : Post(s, T)
                            \/ SendNext(s) \/ SendAll(s)
        \/ \E c \in CPU : \/ Enter(c) \/ ReadStatus(c) \/ ClearStatus(c)
                         \/ RunHandler(c) \/ Return(c)

Spec == Init /\ [][Next]_vars

(***************************************************************************)
(* Fairness: a pending interrupt is taken and its handling ends.  The      *)
(* sending thread is interrupted time and again but runs in between.       *)
(* Nobody has to post work.                                                *)
(***************************************************************************)
Fairness == \A c \in CPU : /\ WF_vars(Enter(c)) /\ WF_vars(ReadStatus(c))
                           /\ WF_vars(ClearStatus(c)) /\ WF_vars(RunHandler(c))
                           /\ WF_vars(Return(c))
                           /\ SF_vars(SendNext(c)) /\ SF_vars(SendAll(c))

FairSpec == Spec /\ Fairness

-----------------------------------------------------------------------------
(* Properties.                                                             *)

\* Every variable has its type (used by the proofs).
TypeOK == /\ platform \in PLATFORM
          /\ mailbox \in [CPU -> SUBSET CPU]
          /\ todo \in [CPU -> SUBSET CPU]
          /\ pending \subseteq CPU
          /\ phase \in [CPU -> {"idle", "read", "clear", "handle", "return"}]

\* No IPI is lost: whose work is not done yet is going to signal c, or the IPI
\* of c is pending, or the handler is still to run (loongarch64 irq.rs:33-46,
\* x86-pc apic.rs:150-156, gic.rs:53-70).
NoLostIpi ==
    \A c \in CPU : \A s \in mailbox[c] :
        c \in todo[s] \/ c \in pending \/ phase[c] \in {"clear", "handle"}

\* All work posted before an IPI is sent is done, "Sends an inter-processor
\* interrupt (IPI) to the specified target CPU or all CPUs" (axplat irq.rs:54).
Delivered == \A c \in CPU, s \in SENDER : s \in mailbox[c] ~> s \notin mailbox[c]
=============================================================================
