------------------------------ MODULE IrqTable ------------------------------
(***************************************************************************)
(* One line of an interrupt controller and its entry in the handler table: *)
(* the register, unregister and handle operations of IrqIf, as implemented *)
(* by arm-peripherals/src/gic.rs (x86-pc/src/apic.rs and the loongarch64   *)
(* crate have the same steps in the same order) and by                     *)
(* riscv64-qemu-virt/src/irq.rs.                                           *)
(*                                                                         *)
(* The entry and the enable bit of the line are two pieces of state, each  *)
(* updated atomically (a compare-and-swap; a write under the GIC lock) but *)
(* never together.  The contexts of Caller, which may be threads of        *)
(* several CPUs or interrupt handlers, call register and unregister at any *)
(* time; the device raises the line at any time.                           *)
(***************************************************************************)
EXTENDS Naturals

CONSTANTS Caller,       \* the contexts that register and unregister handlers
          Handler,      \* the handlers
          NoHandler,    \* the empty entry, a null pointer
          CONTROLLED    \* does set_enable reach the interrupt controller?

ASSUME HandlerAssumption == NoHandler \notin Handler
ASSUME ControlledAssumption == CONTROLLED \in BOOLEAN

VARIABLES table,        \* the entry of the line in IRQ_HANDLER_TABLE
          enabled,      \* is the line enabled in the interrupt controller?
          pc,           \* pc[t]: where t is inside register or unregister
          live,         \* the handlers whose registration succeeded and that
                        \* no call of unregister has returned since
          pending,      \* the device has raised the line
          phase,        \* how far the CPU serving the line is in handle
          running       \* the handler it has loaded from the table

tableVars == <<table, enabled, pc, live>>
lineVars == <<pending, phase, running>>
vars == <<table, enabled, pc, live, pending, phase, running>>

\* Without CONTROLLED the line cannot be turned off.
Init == /\ table = NoHandler
        /\ enabled = ~CONTROLLED
        /\ pc = [t \in Caller |-> "idle"]
        /\ live = {}
        /\ pending = FALSE
        /\ phase = "idle"
        /\ running = NoHandler

\* set_enable(irq, b)
set_enable(b) == enabled' = IF CONTROLLED THEN b ELSE enabled

-----------------------------------------------------------------------------
(* register(irq, h): insert the handler, then enable the line.             *)

\* Mutant: a plain store instead of the compare-and-swap.
RegisterHandlerStore(t, h) ==
    /\ pc[t] = "idle"
    /\ table' = h
    /\ live' = live \cup {h}
    /\ pc' = [pc EXCEPT ![t] = "enable"]
    /\ UNCHANGED <<enabled, lineVars>>

\* HandlerTable::register_handler, a compare-and-swap on an empty entry.
RegisterHandler(t, h) ==
    /\ pc[t] = "idle"
    /\ table = NoHandler
    /\ table' = h
    /\ live' = live \cup {h}
    /\ pc' = [pc EXCEPT ![t] = "enable"]
    /\ UNCHANGED <<enabled, lineVars>>

\* Mutant: the line is not enabled.
RegisterEnableForgotten(t) ==
    /\ pc[t] = "enable"
    /\ pc' = [pc EXCEPT ![t] = "idle"]
    /\ UNCHANGED <<table, enabled, live, lineVars>>

\* The second half of register: set_enable(irq, true).
RegisterEnable(t) ==
    /\ pc[t] = "enable"
    /\ set_enable(TRUE)
    /\ pc' = [pc EXCEPT ![t] = "idle"]
    /\ UNCHANGED <<table, live, lineVars>>

-----------------------------------------------------------------------------
(* unregister(irq): disable the line, then remove the handler.             *)

\* Mutant: the line is not disabled.
UnregisterDisableForgotten(t) ==
    /\ pc[t] = "idle"
    /\ pc' = [pc EXCEPT ![t] = "swap"]
    /\ UNCHANGED <<table, enabled, live, lineVars>>

\* The first half of unregister: set_enable(irq, false), whether or not there
\* is a handler to remove.
UnregisterDisable(t) ==
    /\ pc[t] = "idle"
    /\ set_enable(FALSE)
    /\ pc' = [pc EXCEPT ![t] = "swap"]
    /\ UNCHANGED <<table, live, lineVars>>

\* HandlerTable::unregister_handler: the entry is swapped with null and what
\* it held is returned.
UnregisterSwap(t) ==
    /\ pc[t] = "swap"
    /\ table' = NoHandler
    /\ live' = live \ {table}
    /\ pc' = [pc EXCEPT ![t] = "idle"]
    /\ UNCHANGED <<enabled, lineVars>>

-----------------------------------------------------------------------------
(* The line.                                                               *)

\* The device raises the line; the controller remembers it while disabled.
Raise == /\ ~pending
         /\ pending' = TRUE
         /\ UNCHANGED <<tableVars, phase, running>>

\* The controller signals the line and handle_irq acknowledges it; until the
\* end of interrupt it is signalled to nobody.
Ack == /\ pending
       /\ enabled
       /\ phase = "idle"
       /\ pending' = FALSE
       /\ phase' = "acked"
       /\ UNCHANGED <<tableVars, running>>

\* HandlerTable::handle loads the entry; if there is one it is called.
LoadHandler == /\ phase = "acked"
               /\ running' = table
               /\ phase' = "loaded"
               /\ UNCHANGED <<tableVars, pending>>

\* Mutant: no end of interrupt for an interrupt without a handler.
EoiHandledOnly == /\ phase = "loaded"
                  /\ running # NoHandler
                  /\ running' = NoHandler
                  /\ phase' = "idle"
                  /\ UNCHANGED <<tableVars, pending>>

\* The handler returns (or "Unhandled IRQ" was logged): end of interrupt.  The
\* special ids of gic.rs:64 (nothing pending any more) are left out: Ack takes
\* only an interrupt that is signalled.
Eoi == /\ phase = "loaded"
       /\ running' = NoHandler
       /\ phase' = "idle"
       /\ UNCHANGED <<tableVars, pending>>

-----------------------------------------------------------------------------
Next == \/ \E t \in Caller, h \in Handler : RegisterHandler(t, h)
        \/ \E t \in Caller : RegisterEnable(t) \/ UnregisterDisable(t) \/ UnregisterSwap(t)
        \/ Raise \/ Ack \/ LoadHandler \/ Eoi

Spec == Init /\ [][Next]_vars

\* A call that was made returns, and a signalled interrupt is taken and
\* finished.  Nobody has to make a call, no device has to raise its line.
Fairness == /\ \A t \in Caller : WF_vars(RegisterEnable(t)) /\ WF_vars(UnregisterSwap(t))
            /\ WF_vars(Ack) /\ WF_vars(LoadHandler) /\ WF_vars(Eoi)

FairSpec == Spec /\ Fairness

-----------------------------------------------------------------------------
(* Properties.                                                             *)

\* Every variable has its type (used by the proofs).
TypeOK == /\ table \in Handler \cup {NoHandler}
          /\ enabled \in BOOLEAN
          /\ pc \in [Caller -> {"idle", "enable", "swap"}]
          /\ live \subseteq Handler
          /\ pending \in BOOLEAN
          /\ phase \in {"idle", "acked", "loaded"}
          /\ running \in Handler \cup {NoHandler}

\* No call of register or unregister is in progress.
Quiescent == \A t \in Caller : pc[t] = "idle"

\* A registered handler is never left with its line disabled, however
\* registrations and unregistrations of several contexts interleave
\* (gic.rs:28-46): register enables after it inserts, and who disables also
\* removes.
RegisteredIsEnabled == Quiescent /\ table # NoHandler => enabled

\* No registration is lost and no handler is returned twice: the handlers whose
\* registration succeeded and that unregister has not returned are the one in
\* the table (gic.rs:30, 45).
LiveIsTable == live = {table} \ {NoHandler}

\* An interrupt that finds a registered handler is acknowledged unless the
\* handler is removed first: no interleaving leaves the line off for ever.
RaisedIsServed == (pending /\ table # NoHandler) ~> (~pending \/ table = NoHandler)

\* "It also disables the IRQ if the unregistration succeeds" (axplat
\* irq.rs:43-44): when unregister returns a handler, the line is off.
UnregisterDisables ==
    [][\A t \in Caller :
         pc[t] = "swap" /\ pc'[t] = "idle" /\ table # NoHandler => ~enabled']_vars
=============================================================================
