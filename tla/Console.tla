------------------------------ MODULE Console ------------------------------
(***************************************************************************)
(* The console: console_print! of axplat on top of write_bytes of the      *)
(* platforms, several CPUs and their interrupt handlers printing, and the  *)
(* interrupt handler of the PL011 that echoes what is typed.               *)
(*                                                                         *)
(* __simple_print holds CONSOLE_LOCK while the formatter calls write_str   *)
(* once for every piece of text.  Below it each UART has a lock of its     *)
(* own, which write_bytes takes                                            *)
(*                                                                         *)
(*   "pl011"  once, also when a kernel calls it without CONSOLE_LOCK;      *)
(*   "loong"  for each character, as "dw" and "x86" do; what the UART does *)
(*            not take is not sent again;                                  *)
(*   "sbi"    not at all: the firmware takes some of the bytes at a time.  *)
(*                                                                         *)
(* Both locks are SpinNoIrq: a CPU that waits for one or holds one takes   *)
(* no interrupt.  A context is a thread or an interrupt handler of a CPU;  *)
(* the handler, once it has begun, runs to its end before the thread goes  *)
(* on.                                                                     *)
(***************************************************************************)
EXTENDS Integers, Sequences, FiniteSets, SequencesExt

CONSTANTS Platforms,   \* the UARTs considered
          Thread,      \* contexts: threads,
          Handler,     \*   interrupt handlers that print,
          Uart,        \*   and the interrupt handler of the PL011
          Cpu,         \* the CPU of each context
          Jobs,        \* Jobs[x]: what context x calls, in this order
          INPUT,       \* the characters that are typed
          MAX_RW_SIZE, \* bytes of one call of the SBI console
          MAX_LOST,    \* bound: bytes the UART does not take
          None

Context == Thread \cup Handler \cup {Uart}
Byte == {"a", "cr", "nl"}

ASSUME PlatformsAssumption == Platforms \subseteq {"pl011", "loong", "dw", "x86", "sbi"}
ASSUME ContextAssumption == /\ None \notin Context
                            /\ Uart \notin Thread \cup Handler
                            /\ Thread \cap Handler = {}
ASSUME InputAssumption == INPUT \in Seq(Byte)
ASSUME SizeAssumption == MAX_RW_SIZE \in Nat \ {0}
ASSUME LostAssumption == MAX_LOST \in Nat

\* Text to print comes in pieces; write_bytes is called with one.
Call == [op : {"print", "write"}, text : Seq(Seq(Byte))] \cup [op : {"read"}, room : Nat]
ASSUME JobsAssumption ==
    \A x \in Context :
        /\ Jobs[x] \in Seq(Call)
        /\ \A n \in 1 .. Len(Jobs[x]) : Jobs[x][n].op = "write" => Len(Jobs[x][n].text) = 1

VARIABLES
    platform,  \* the UART of this machine
    pc,        \* where each context is
    turn,      \* turn[x]: the number of calls x has made
    pieces,    \* pieces[x]: the text that write_fmt has still to write
    bytes,     \* bytes[x]: what write_bytes has still to write
    raw,       \* raw[x]: what goes out under the UART lock held by x
    console,   \* the owner of CONSOLE_LOCK
    uart,      \* the owner of the UART's lock
    wire,      \* what the UART was handed: the byte, who wrote it in which
               \* call, and whether the UART took it
    rx,        \* the characters received and not yet read
    typed,     \* the number of characters typed
    irq,       \* is the receive interrupt raised?
    receive    \* irq_handler: is_receive_interrupt

vars == <<platform, pc, turn, pieces, bytes, raw, console, uart, wire, rx, typed, irq, receive>>
inputVars == <<rx, typed, irq, receive>>

Init == /\ platform \in Platforms
        /\ pc = [x \in Context |-> "idle"]
        /\ turn = [x \in Context |-> 0]
        /\ pieces = [x \in Context |-> <<>>]
        /\ bytes = [x \in Context |-> <<>>]
        /\ raw = [x \in Context |-> <<>>]
        /\ console = None
        /\ uart = None
        /\ wire = <<>>
        /\ rx = <<>>
        /\ typed = 0
        /\ irq = FALSE
        /\ receive = FALSE

Job(x) == Jobs[x][turn[x]]
Goto(x, l) == pc' = [pc EXCEPT ![x] = l]

\* Who x goes back to when write_bytes is done.
Caller(x) == IF x = Uart THEN "getchar" ELSE IF Job(x).op = "print" THEN "piece" ELSE "idle"

-----------------------------------------------------------------------------
(* Interrupts.                                                             *)

Siblings(x) == {y \in Context \ {x} : Cpu[y] = Cpu[x]}

\* Mutant: the locks leave interrupts enabled.
IrqsOnAlways(x) == \A y \in Siblings(x) \ Thread : pc[y] = "idle"

\* The CPU of x takes an interrupt: no handler is running on it, and its thread
\* is not inside `lock()` or between it and the end of the guard.
IrqsOn(x) == \A y \in Siblings(x) :
                 \/ pc[y] = "idle"
                 \/ y \in Thread /\ console # y /\ pc[y] \in {"write", "read"}

\* A thread does not run while a handler runs on its CPU.
Runs(x) == x \in Thread => \A y \in Siblings(x) \ Thread : pc[y] = "idle"

\* The next call of x: console_print!, write_bytes or read_bytes.
Begin(x) == /\ x # Uart
            /\ pc[x] = "idle"
            /\ turn[x] < Len(Jobs[x])
            /\ IF x \in Handler THEN IrqsOn(x) ELSE Runs(x)
            /\ turn' = [turn EXCEPT ![x] = @ + 1]
            /\ LET job == Jobs[x][turn[x] + 1] IN
                 /\ pieces' = [pieces EXCEPT ![x] = IF job.op = "print" THEN job.text ELSE <<>>]
                 /\ bytes' = [bytes EXCEPT ![x] = IF job.op = "write" THEN job.text[1] ELSE <<>>]
                 /\ Goto(x, IF job.op = "print" THEN "console" ELSE job.op)
            /\ UNCHANGED <<platform, raw, console, uart, wire, inputVars>>

-----------------------------------------------------------------------------
(* __simple_print.                                                         *)

\* Mutant: the print does not wait for CONSOLE_LOCK.
LockConsoleFree(x) == /\ pc[x] = "console"
                      /\ console' = x
                      /\ Goto(x, "piece")
                      /\ UNCHANGED <<platform, turn, pieces, bytes, raw, uart, wire, inputVars>>

LockConsole(x) == /\ pc[x] = "console"
                  /\ console = None
                  /\ console' = x
                  /\ Goto(x, "piece")
                  /\ UNCHANGED <<platform, turn, pieces, bytes, raw, uart, wire, inputVars>>

\* write_fmt: the next write_str.
NextPiece(x) == /\ pc[x] = "piece"
                /\ pieces[x] # <<>>
                /\ bytes' = [bytes EXCEPT ![x] = Head(pieces[x])]
                /\ pieces' = [pieces EXCEPT ![x] = Tail(@)]
                /\ Goto(x, "write")
                /\ UNCHANGED <<platform, turn, raw, console, uart, wire, inputVars>>

\* Mutant: the guard is forgotten.
UnlockConsoleNever(x) == /\ pc[x] = "piece"
                         /\ pieces[x] = <<>>
                         /\ Goto(x, "idle")
                         /\ UNCHANGED <<platform, turn, pieces, bytes, raw, console, uart, wire, inputVars>>

UnlockConsole(x) == /\ pc[x] = "piece"
                    /\ pieces[x] = <<>>
                    /\ console' = None
                    /\ Goto(x, "idle")
                    /\ UNCHANGED <<platform, turn, pieces, bytes, raw, uart, wire, inputVars>>

-----------------------------------------------------------------------------
(* write_bytes of the platforms.                                           *)

\* What putchar sends for a byte.
Convert(b) == CASE platform \in {"pl011", "loong"} /\ b = "nl" -> <<"cr", "nl">>
                [] platform = "dw" /\ b \in {"cr", "nl"} -> <<"cr", "nl">>
                [] OTHER -> <<b>>

\* `for c in bytes` is over.
WriteEnd(x) == /\ pc[x] = "write"
               /\ bytes[x] = <<>>
               /\ Goto(x, Caller(x))
               /\ UNCHANGED <<platform, turn, pieces, bytes, raw, console, uart, wire, inputVars>>

\* UART.lock() is called: from here on the CPU takes no interrupt.
WaitUart(x) == /\ pc[x] = "write"
               /\ platform # "sbi"
               /\ bytes[x] # <<>>
               /\ Goto(x, "uart")
               /\ UNCHANGED <<platform, turn, pieces, bytes, raw, console, uart, wire, inputVars>>

\* putchar is called with the next byte.
PutChar(x) == /\ raw' = [raw EXCEPT ![x] = Convert(Head(bytes[x]))]
              /\ bytes' = [bytes EXCEPT ![x] = Tail(@)]

\* Mutant: the UART is used without its lock.
LockUartFree(x) == /\ pc[x] = "uart"
                   /\ uart' = x
                   /\ PutChar(x)
                   /\ Goto(x, "put")
                   /\ UNCHANGED <<platform, turn, pieces, console, wire, inputVars>>

LockUart(x) == /\ pc[x] = "uart"
               /\ uart = None
               /\ uart' = x
               /\ PutChar(x)
               /\ Goto(x, "put")
               /\ UNCHANGED <<platform, turn, pieces, console, wire, inputVars>>

Sent(x, s, ok) ==
    [n \in 1 .. Len(s) |-> [byte |-> s[n], by |-> x, turn |-> turn[x], taken |-> ok]]

\* Does the UART take a byte?  The other drivers wait until it does; on
\* loongarch64 `let _ = uart.put(c)` drops a byte that comes too early.
Lost == {n \in DOMAIN wire : ~wire[n].taken}
Takes == IF platform = "loong" /\ Cardinality(Lost) < MAX_LOST THEN BOOLEAN ELSE {TRUE}

\* The PL011 keeps its guard for all the bytes, the others take one for each.
SameGuard(x) == platform = "pl011" /\ bytes[x] # <<>>

\* The registers of the UART are handed one byte of what putchar sends; then
\* comes the next putchar, or the end of the guard.
Put(x) == /\ pc[x] = "put"
          /\ \E ok \in Takes : wire' = wire \o Sent(x, <<Head(raw[x])>>, ok)
          /\ \/ /\ Len(raw[x]) > 1
                /\ raw' = [raw EXCEPT ![x] = Tail(@)]
                /\ UNCHANGED <<pc, bytes, uart>>
             \/ /\ Len(raw[x]) = 1
                /\ SameGuard(x)
                /\ PutChar(x)
                /\ UNCHANGED <<pc, uart>>
             \/ /\ Len(raw[x]) = 1
                /\ ~SameGuard(x)
                /\ raw' = [raw EXCEPT ![x] = <<>>]
                /\ uart' = None
                /\ Goto(x, "write")
                /\ UNCHANGED bytes
          /\ UNCHANGED <<platform, turn, pieces, console, inputVars>>

\* Mutant: the bytes the firmware did not take are not written again.
SbiWriteOnce(x) == /\ pc[x] = "write"
                   /\ platform = "sbi"
                   /\ bytes[x] # <<>>
                   /\ LET most == IF Len(bytes[x]) < MAX_RW_SIZE THEN Len(bytes[x]) ELSE MAX_RW_SIZE
                      IN  \E n \in 0 .. most :
                            /\ wire' = wire \o Sent(x, SubSeq(bytes[x], 1, n), TRUE)
                            /\ bytes' = [bytes EXCEPT ![x] = SubSeq(@, most + 1, Len(@))]
                   /\ UNCHANGED <<platform, pc, turn, pieces, raw, console, uart, inputVars>>

\* try_write_bytes: the firmware takes n bytes of the buffer, maybe none.
SbiWrite(x) == /\ pc[x] = "write"
               /\ platform = "sbi"
               /\ bytes[x] # <<>>
               /\ LET most == IF Len(bytes[x]) < MAX_RW_SIZE THEN Len(bytes[x]) ELSE MAX_RW_SIZE
                  IN  \E n \in 0 .. most :
                        /\ wire' = wire \o Sent(x, SubSeq(bytes[x], 1, n), TRUE)
                        /\ bytes' = [bytes EXCEPT ![x] = SubSeq(@, n + 1, Len(@))]
               /\ UNCHANGED <<platform, pc, turn, pieces, raw, console, uart, inputVars>>

-----------------------------------------------------------------------------
(* Input.                                                                  *)

\* The hardware: a character arrives.
Receive == /\ typed < Len(INPUT)
           /\ typed' = typed + 1
           /\ rx' = Append(rx, INPUT[typed + 1])
           /\ irq' = TRUE
           /\ UNCHANGED <<platform, pc, turn, pieces, bytes, raw, console, uart, wire, receive>>

\* The hardware: reading the last character withdraws the interrupt.
PopRx == /\ rx' = Tail(rx)
         /\ irq' = (irq /\ Len(rx) > 1)

\* read_bytes: getchar, under the lock of the UART, for as long as there is
\* input and room; the firmware does the same in one call on sbi.
ReadBytes(x) ==
    /\ pc[x] = "read"
    /\ uart = None \/ platform = "sbi"
    /\ IF rx = <<>> \/ Len(bytes[x]) = Job(x).room
       THEN /\ Goto(x, "idle")
            /\ bytes' = [bytes EXCEPT ![x] = <<>>]
            /\ UNCHANGED <<rx, irq>>
       ELSE /\ bytes' = [bytes EXCEPT ![x] = Append(@, Head(rx))]
            /\ PopRx
            /\ UNCHANGED pc
    /\ UNCHANGED <<platform, turn, pieces, raw, console, uart, wire, typed, receive>>

\* Mutant: the interrupt is acknowledged when the input has been read.
EchoOrderLate == [status |-> "getchar", getchar |-> "ack", ack |-> "idle"]

\* The parts of irq_handler, each under the lock, and which one comes next.
EchoOrder == [status |-> "ack", ack |-> "getchar", getchar |-> "idle"]

UartIrq == /\ platform = "pl011"
           /\ irq
           /\ pc[Uart] = "idle"
           /\ IrqsOn(Uart)
           /\ Goto(Uart, "status")
           /\ UNCHANGED <<platform, turn, pieces, bytes, raw, console, uart, wire, inputVars>>

IsReceiveInterrupt == /\ pc[Uart] = "status"
                      /\ uart = None
                      /\ receive' = irq
                      /\ Goto(Uart, EchoOrder.status)
                      /\ UNCHANGED <<platform, turn, pieces, bytes, raw, console, uart, wire, rx, typed, irq>>

AckInterrupts == /\ pc[Uart] = "ack"
                 /\ uart = None
                 /\ irq' = FALSE
                 /\ Goto(Uart, IF receive THEN EchoOrder.ack ELSE "idle")
                 /\ UNCHANGED <<platform, turn, pieces, bytes, raw, console, uart, wire, rx, typed, receive>>

\* `while let Some(c) = getchar()`: putchar(c), or the end of the handler.
Echo == /\ pc[Uart] = "getchar"
        /\ uart = None
        /\ IF rx = <<>>
           THEN /\ Goto(Uart, EchoOrder.getchar)
                /\ UNCHANGED <<bytes, rx, irq>>
           ELSE /\ bytes' = [bytes EXCEPT ![Uart] = <<Head(rx)>>]
                /\ PopRx
                /\ Goto(Uart, "write")
        /\ UNCHANGED <<platform, turn, pieces, raw, console, uart, wire, typed, receive>>

-----------------------------------------------------------------------------
Step(x) == /\ Runs(x)
           /\ \/ LockConsole(x) \/ NextPiece(x) \/ UnlockConsole(x)
              \/ WriteEnd(x) \/ WaitUart(x) \/ LockUart(x) \/ Put(x)
              \/ SbiWrite(x) \/ ReadBytes(x)

EchoStep == UartIrq \/ IsReceiveInterrupt \/ AckInterrupts \/ Echo

Next == (\E x \in Context : Begin(x) \/ Step(x)) \/ EchoStep \/ Receive

Spec == Init /\ [][Next]_vars

(***************************************************************************)
(* Fairness: a CPU keeps executing what it has begun and takes the UART's  *)
(* interrupt once it can; the firmware takes a byte sooner or later.       *)
(* Nobody has to begin a call or to type.  The spin locks need not be fair *)
(* because every context makes a bounded number of calls.                  *)
(***************************************************************************)
FairSpec == Spec /\ (\A x \in Context : WF_vars(Step(x))) /\ WF_vars(EchoStep)

-----------------------------------------------------------------------------
(* Properties.                                                             *)

\* Every variable has its type, and a lock has an owner only while that context
\* is between lock() and the end of its guard (console.rs:48-50).
TypeOK ==
    /\ platform \in Platforms
    /\ pc \in [Context -> {"idle", "console", "piece", "write", "uart", "put",
                           "read", "status", "ack", "getchar"}]
    /\ \A x \in Context : /\ turn[x] \in 0 .. Len(Jobs[x])
                          /\ bytes[x] \in Seq(Byte) /\ raw[x] \in Seq(Byte)
    /\ console = None \/ (console \in Thread \cup Handler /\ pc[console] \in {"piece", "write", "uart", "put"})
    /\ uart = None \/ (uart \in Context /\ pc[uart] = "put")
    /\ rx \in Seq(Byte) /\ typed \in 0 .. Len(INPUT)
    /\ irq \in BOOLEAN /\ receive \in BOOLEAN

\* "prevent mixed output from concurrent execution" (axplat console.rs:26): no
\* other print puts a byte between two bytes of one, although the text goes out
\* in pieces, on some platforms under one lock for each character, and prints
\* also come from interrupt handlers.
IsPrint(e) == e.by # Uart /\ Jobs[e.by][e.turn].op = "print"
SameCall(e, f) == e.by = f.by /\ e.turn = f.turn
NoMixing ==
    \A k, l, m \in DOMAIN wire :
        k < l /\ l < m /\ IsPrint(wire[k]) /\ IsPrint(wire[l]) /\ SameCall(wire[k], wire[m])
            => SameCall(wire[k], wire[l])

\* A line feed always comes right behind the carriage return that was sent for
\* it, also when the echo of the UART's interrupt handler (pl011.rs:59-68) or a
\* kernel that calls write_bytes without CONSOLE_LOCK writes in between.  On
\* loongarch64 (console.rs:21-24) that is so of what the UART is handed; either
\* of the two may be dropped.  Elsewhere both have gone out.
LineEnds ==
    platform \in {"pl011", "loong", "dw"} =>
        \A n \in DOMAIN wire : wire[n].byte = "nl" =>
            /\ n > 1
            /\ wire[n - 1].byte = "cr" /\ SameCall(wire[n - 1], wire[n])
            /\ platform # "loong" => wire[n - 1].taken /\ wire[n].taken

\* A call that has returned has handed all of its text to the UART, once and in
\* order, although the firmware takes only part of it at a time (riscv64
\* console.rs:26-39).  Except on loongarch64, whose driver does not ask whether
\* the UART took a byte (console.rs:22-26), all of it has gone out.
Encode(s) == FlattenSeq([n \in 1 .. Len(s) |-> Convert(s[n])])
Handed(x, k) == FlattenSeq([n \in 1 .. Len(wire) |->
                               IF wire[n].by = x /\ wire[n].turn = k THEN <<wire[n].byte>> ELSE <<>>])
Written(x, k) == FlattenSeq([n \in 1 .. Len(wire) |->
                                IF wire[n].by = x /\ wire[n].turn = k /\ wire[n].taken
                                THEN <<wire[n].byte>> ELSE <<>>])
Returned(x, k) == Jobs[x][k].op # "read" /\ (k < turn[x] \/ pc[x] = "idle")
Text(x, k) == FlattenSeq(Jobs[x][k].text)
AllOut ==
    \A x \in Thread \cup Handler : \A k \in 1 .. turn[x] :
        Returned(x, k) => /\ Handed(x, k) = Encode(Text(x, k))
                          /\ platform # "loong" => Written(x, k) = Encode(Text(x, k))

\* A running interrupt handler never finds a lock held by a thread of its own
\* CPU, which could not release it before the handler ends: the locks disable
\* interrupts before they are taken (SpinNoIrq, axplat console.rs:27,
\* pl011.rs:8).
NoSelfDeadlock ==
    \A x \in Handler \cup {Uart} : pc[x] # "idle" =>
        \A y \in Siblings(x) \cap Thread : console # y /\ uart # y

\* No call waits for ever: an interrupt handler never waits for a lock that the
\* thread it has interrupted holds, because the locks disable interrupts
\* (SpinNoIrq, axplat console.rs:27, pl011.rs:8).
EveryCallEnds == \A x \in Context : pc[x] # "idle" ~> pc[x] = "idle"

\* What is typed is echoed, every character once and in order: again and again
\* the echo on the wire catches up with what has been typed, because a character
\* that arrives while irq_handler (pl011.rs:59-68) is at work is taken by it or
\* interrupts again.  A kernel that reads the console takes characters away.
HasRead == \E x \in Thread : \E k \in 1 .. turn[x] : Jobs[x][k].op = "read"
Echoed == Written(Uart, 0) = Encode(SubSeq(INPUT, 1, typed))
InputIsEchoed == platform = "pl011" => []<>(Echoed \/ HasRead)
=============================================================================
