--------------------------- MODULE IrqTableProofs ---------------------------
(***************************************************************************)
(* register and unregister for any number of concurrent callers.           *)
(*                                                                         *)
(* Whoever disables the line removes the handler afterwards, and whoever   *)
(* inserts a handler enables the line afterwards.  So a handler that is in *)
(* the table while its line is off has a call in progress that will either *)
(* turn the line on or take the handler out.                               *)
(***************************************************************************)
EXTENDS IrqTable, TLAPS

IInv == /\ TypeOK
        /\ table # NoHandler => enabled \/ \E t \in Caller : pc[t] \in {"enable", "swap"}
        /\ ~CONTROLLED => enabled
        /\ LiveIsTable

\* The line starts without a handler and without calls in progress
\* (gic.rs:13-16).
LEMMA InitIInv == Init => IInv
BY HandlerAssumption, ControlledAssumption DEF Init, IInv, TypeOK, LiveIsTable

\* Every half of register and unregister keeps the invariant (gic.rs:28-46).
LEMMA NextIInv == IInv /\ [Next]_vars => IInv'
<1>. SUFFICES ASSUME IInv, [Next]_vars PROVE IInv'
  OBVIOUS
<1>. USE HandlerAssumption DEF IInv
<1>1. ASSUME NEW t \in Caller, NEW h \in Handler, RegisterHandler(t, h) PROVE IInv'
  BY <1>1 DEF RegisterHandler, lineVars, TypeOK, LiveIsTable
<1>2. ASSUME NEW t \in Caller, RegisterEnable(t) PROVE IInv'
  BY <1>2, ControlledAssumption DEF RegisterEnable, set_enable, lineVars, TypeOK, LiveIsTable
<1>3. ASSUME NEW t \in Caller, UnregisterDisable(t) PROVE IInv'
  BY <1>3, ControlledAssumption DEF UnregisterDisable, set_enable, lineVars, TypeOK, LiveIsTable
<1>4. ASSUME NEW t \in Caller, UnregisterSwap(t) PROVE IInv'
  BY <1>4 DEF UnregisterSwap, lineVars, TypeOK, LiveIsTable
<1>5. CASE Raise
  BY <1>5 DEF Raise, tableVars, TypeOK, LiveIsTable
<1>6. CASE Ack
  BY <1>6 DEF Ack, tableVars, TypeOK, LiveIsTable
<1>7. CASE LoadHandler
  BY <1>7 DEF LoadHandler, tableVars, TypeOK, LiveIsTable
<1>8. CASE Eoi
  BY <1>8 DEF Eoi, tableVars, TypeOK, LiveIsTable
<1>9. CASE UNCHANGED vars
  BY <1>9 DEF vars, TypeOK, LiveIsTable
<1>10. QED
  BY <1>1, <1>2, <1>3, <1>4, <1>5, <1>6, <1>7, <1>8, <1>9 DEF Next

\* The invariant holds for any number of contexts and handlers.
THEOREM Invariance == Spec => []IInv
BY InitIInv, NextIInv, PTL DEF Spec

\* When no call is in progress, the line of a registered handler is enabled,
\* for any number of callers registering and unregistering at once.
THEOREM RegisteredLineIsOn == Spec => []RegisteredIsEnabled
<1>1. IInv => RegisteredIsEnabled
  BY DEF IInv, TypeOK, RegisteredIsEnabled, Quiescent
<1>2. QED
  BY <1>1, Invariance, PTL

\* No successful registration is overwritten or returned twice.
THEOREM NoRegistrationLost == Spec => []LiveIsTable
<1>1. IInv => LiveIsTable
  BY DEF IInv
<1>2. QED
  BY <1>1, Invariance, PTL

-----------------------------------------------------------------------------
(* Calls that do not overlap.                                              *)

NoOverlap == \A t, u \in Caller : pc[t] # "idle" /\ pc[u] # "idle" => t = u

\* Between the two halves of unregister the line is off.
OffInside == \A t \in Caller : pc[t] = "swap" => ~enabled

\* Only the end of a register that overlaps an unregister could turn the line
\* on in the middle of it (gic.rs:31 between gic.rs:44 and 45).
LEMMA OffInsideKept ==
    ASSUME CONTROLLED, IInv, NoOverlap, OffInside, [Next]_vars
    PROVE  OffInside'
<1>. USE DEF IInv, TypeOK, OffInside
<1>1. ASSUME NEW t \in Caller, NEW h \in Handler, RegisterHandler(t, h) PROVE OffInside'
  BY <1>1 DEF RegisterHandler
<1>2. ASSUME NEW t \in Caller, RegisterEnable(t) PROVE OffInside'
  BY <1>2 DEF RegisterEnable, NoOverlap
<1>3. ASSUME NEW t \in Caller, UnregisterDisable(t) PROVE OffInside'
  BY <1>3 DEF UnregisterDisable, set_enable
<1>4. ASSUME NEW t \in Caller, UnregisterSwap(t) PROVE OffInside'
  BY <1>4 DEF UnregisterSwap
<1>5. CASE Raise \/ Ack \/ LoadHandler \/ Eoi
  BY <1>5 DEF Raise, Ack, LoadHandler, Eoi, tableVars
<1>6. CASE UNCHANGED vars
  BY <1>6 DEF vars
<1>7. QED
  BY <1>1, <1>2, <1>3, <1>4, <1>5, <1>6 DEF Next

\* unregister does what it documents (axplat irq.rs:43-44) for any number of
\* callers, as long as their calls do not overlap and the controller can be
\* reached; with overlapping calls TLC shows that it does not.
THEOREM UnregisterAlone ==
    ASSUME CONTROLLED
    PROVE  Spec /\ []NoOverlap => UnregisterDisables
<1>1. Init => OffInside
  BY DEF Init, OffInside
<1>2. IInv /\ NoOverlap /\ OffInside /\ [Next]_vars => OffInside'
  BY OffInsideKept
<1>3. ASSUME IInv, OffInside, [Next]_vars
      PROVE  [\A t \in Caller :
                pc[t] = "swap" /\ pc'[t] = "idle" /\ table # NoHandler => ~enabled']_vars
  <2>1. SUFFICES ASSUME Next, NEW t \in Caller, pc[t] = "swap", pc'[t] = "idle"
                 PROVE  ~enabled'
    BY <1>3
  <2>2. ~enabled
    BY <1>3, <2>1 DEF OffInside
  <2>3. enabled' = enabled
    BY <1>3, <2>1 DEF IInv, TypeOK, Next, RegisterHandler, RegisterEnable, UnregisterDisable,
                      UnregisterSwap, Raise, Ack, LoadHandler, Eoi, tableVars
  <2>4. QED
    BY <2>2, <2>3
<1>4. QED
  BY <1>1, <1>2, <1>3, Invariance, PTL DEF Spec, UnregisterDisables
=============================================================================
