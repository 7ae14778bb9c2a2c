-------------------------- MODULE IpiDeliveryProofs --------------------------
(***************************************************************************)
(* On a platform that clears the pending bit of an IPI before it calls the *)
(* handler, no IPI is lost, whatever the number of CPUs and of senders.    *)
(***************************************************************************)
EXTENDS IpiDelivery, TLAPS

IInv == TypeOK /\ NoLostIpi

\* No work is posted at first.
LEMMA InitIInv == Init => IInv
BY CpuNumAssumption DEF Init, IInv, TypeOK, NoLostIpi

\* Posting work and signalling its targets, one by one or at once, keeps the
\* invariant: the work is covered by todo until its IPI is pending.
LEMMA SendIInv ==
    ASSUME IInv, NEW s \in CPU,
           (\E T \in Targets(s) : Post(s, T)) \/ SendNext(s) \/ SendAll(s)
    PROVE  IInv'
<1>. USE DEF IInv
<1>p. /\ mailbox \in [CPU -> SUBSET CPU] /\ todo \in [CPU -> SUBSET CPU]
      /\ pending \subseteq CPU /\ phase' = phase
      /\ platform \in PLATFORM /\ platform' = platform
  BY DEF TypeOK, Post, SendNext, SendAll
<1>1. CASE \E T \in Targets(s) : Post(s, T)
  <2>1. PICK T \in Targets(s) : Post(s, T)
    BY <1>1
  <2>2. T \subseteq CPU
    BY DEF Targets
  <2>3. /\ mailbox' = [c \in CPU |-> IF c \in T THEN mailbox[c] \cup {s} ELSE mailbox[c]]
        /\ todo' = [todo EXCEPT ![s] = T] /\ todo[s] = {} /\ pending' = pending
    BY <2>1 DEF Post
  <2>4. TypeOK'
    BY <2>2, <2>3, <1>p DEF TypeOK
  <2>5. ASSUME NEW c \in CPU, NEW q \in mailbox'[c]
        PROVE  c \in todo'[q] \/ c \in pending' \/ phase'[c] \in {"clear", "handle"}
    <3>1. q \in CPU
      BY <2>4, <2>5 DEF TypeOK
    <3>2. CASE c \in T /\ q = s
      BY <3>2, <2>3, <1>p
    <3>3. CASE ~(c \in T /\ q = s)
      <4>1. q \in mailbox[c]
        BY <3>3, <2>3, <2>5
      <4>2. c \in todo[q] \/ c \in pending \/ phase[c] \in {"clear", "handle"}
        BY <4>1 DEF NoLostIpi
      <4>3. c \in todo[q] => q # s /\ todo'[q] = todo[q]
        BY <2>3, <3>1, <1>p
      <4>. QED  BY <4>2, <4>3, <2>3, <1>p
    <3>. QED  BY <3>2, <3>3
  <2>. QED  BY <2>4, <2>5 DEF NoLostIpi
<1>2. CASE SendNext(s) \/ SendAll(s)
  <2>1. PICK T \in SUBSET CPU : /\ pending' = pending \cup T
                                /\ todo' = [todo EXCEPT ![s] = @ \ T]
                                /\ mailbox' = mailbox
    <3>1. CASE SendNext(s)
      <4>1. PICK c \in todo[s] : /\ pending' = pending \cup {c}
                                 /\ todo' = [todo EXCEPT ![s] = @ \ {c}]
        BY <3>1 DEF SendNext
      <4>2. {c} \in SUBSET CPU /\ mailbox' = mailbox
        BY <3>1, <1>p DEF SendNext
      <4>. QED  BY <4>1, <4>2
    <3>2. CASE SendAll(s)
      <4>1. todo[s] \ todo[s] = {} /\ todo[s] \in SUBSET CPU
        BY <1>p
      <4>. QED  BY <4>1, <3>2 DEF SendAll
    <3>. QED  BY <3>1, <3>2, <1>2
  <2>2. TypeOK'
    BY <2>1, <1>p DEF TypeOK
  <2>3. NoLostIpi'
    BY <2>1, <1>p DEF NoLostIpi
  <2>. QED  BY <2>2, <2>3
<1>. QED  BY <1>1, <1>2

\* Taking and handling an IPI keeps the invariant, if the bit is cleared before
\* the handler runs.
LEMMA ReceiveIInv ==
    ASSUME "riscv64" \notin PLATFORM, IInv, NEW c \in CPU,
           Enter(c) \/ ReadStatus(c) \/ ClearStatus(c) \/ RunHandler(c) \/ Return(c)
    PROVE  IInv'
<1>. USE DEF IInv, TypeOK, Goto
<1>1. CASE Enter(c)
  BY <1>1 DEF Enter, NoLostIpi
<1>2. CASE ReadStatus(c)
  BY <1>2 DEF ReadStatus, NoLostIpi
<1>3. CASE ClearStatus(c)
  BY <1>3 DEF ClearStatus, NoLostIpi
<1>4. CASE RunHandler(c)
  BY <1>4 DEF RunHandler, NoLostIpi
<1>5. CASE Return(c)
  BY <1>5 DEF Return, NoLostIpi
<1>. QED  BY <1>1, <1>2, <1>3, <1>4, <1>5

\* No IPI is lost on x86-pc, loongarch64 and the GIC platforms (apic.rs:150-156,
\* loongarch64 irq.rs:33-46, gic.rs:53-70): work that is not done yet still has
\* an interrupt to come.
THEOREM NoIpiLost ==
    ASSUME "riscv64" \notin PLATFORM
    PROVE  Spec => []NoLostIpi
<1>1. IInv /\ [Next]_vars => IInv'
  <2>. SUFFICES ASSUME IInv, [Next]_vars PROVE IInv'
    OBVIOUS
  <2>1. SENDER \subseteq CPU
    BY SenderAssumption DEF CPU
  <2>2. ASSUME NEW s \in SENDER,
               (\E T \in Targets(s) : Post(s, T)) \/ SendNext(s) \/ SendAll(s)
        PROVE  IInv'
    BY <2>1, <2>2, SendIInv
  <2>3. ASSUME NEW c \in CPU,
               Enter(c) \/ ReadStatus(c) \/ ClearStatus(c) \/ RunHandler(c) \/ Return(c)
        PROVE  IInv'
    BY <2>3, ReceiveIInv
  <2>4. CASE UNCHANGED vars
    BY <2>4 DEF vars, IInv, TypeOK, NoLostIpi
  <2>. QED  BY <2>2, <2>3, <2>4 DEF Next
<1>2. IInv => NoLostIpi
  BY DEF IInv
<1>. QED  BY <1>1, <1>2, InitIInv, PTL DEF Spec
=============================================================================
