--------------------------- MODULE ConsoleProofs ---------------------------
(***************************************************************************)
(* The console, for every number of CPUs, threads and interrupt handlers,  *)
(* every sequence of calls they make and every text.                       *)
(*                                                                         *)
(* The base is mutual exclusion: the owner of CONSOLE_LOCK is the context  *)
(* that is inside a print, the owner of the UART's lock the one that is    *)
(* sending.  On it rest                                                    *)
(*   - LineEnds: between the two characters of a line end the UART's lock  *)
(*     is held, so the last byte handed over is still the carriage return; *)
(*   - NoMixing: a print that has been followed by a byte of another one   *)
(*     has released CONSOLE_LOCK for good;                                 *)
(*   - AllOut: what a call has handed to the UART, what it holds and what  *)
(*     it has still to fetch are together its text, at every moment; and   *)
(*     the UART takes all of it except on loongarch64.                     *)
(***************************************************************************)
EXTENDS Console, SequenceLemmas, SequenceTheorems, TLAPS

Label == {"idle", "console", "piece", "write", "uart", "put", "read", "status", "ack", "getchar"}

TypeInv ==
    /\ platform \in Platforms
    /\ pc \in [Context -> Label]
    /\ turn \in [Context -> Nat]
    /\ \A x \in Context : turn[x] <= Len(Jobs[x])
    /\ pieces \in [Context -> Seq(Seq(Byte))]
    /\ bytes \in [Context -> Seq(Byte)]
    /\ raw \in [Context -> Seq(Byte)]
    /\ console \in Context \cup {None}
    /\ uart \in Context \cup {None}
    /\ wire \in Seq([byte : Byte, by : Context, turn : Nat, taken : BOOLEAN])
    /\ rx \in Seq(Byte)
    /\ typed \in 0 .. Len(INPUT)
    /\ irq \in BOOLEAN
    /\ receive \in BOOLEAN

\* Which call a context is in, where it is.
PlaceInv ==
    /\ pc[Uart] \notin {"console", "piece", "read"}
    /\ \A x \in Context \ {Uart} :
         /\ pc[x] \notin {"status", "ack", "getchar"}
         /\ pc[x] # "idle" => turn[x] > 0
         /\ pc[x] \in {"console", "piece"} => Job(x).op = "print"
         /\ pc[x] \in {"write", "uart", "put"} => Job(x).op \in {"print", "write"}
         /\ pc[x] = "read" => Job(x).op = "read"

\* The text that is left, where it is.
TextInv ==
    /\ \A x \in Context : /\ pc[x] = "put" <=> raw[x] # <<>>
                          /\ pc[x] = "uart" => bytes[x] # <<>>
    /\ \A x \in Context \ {Uart} :
         /\ pc[x] \in {"idle", "console", "piece"} => bytes[x] = <<>>
         /\ pc[x] = "idle" => pieces[x] = <<>>
         /\ pc[x] # "idle" /\ Job(x).op # "print" => pieces[x] = <<>>

\* The owners of the locks.
Printing(x) == /\ x # Uart
               /\ pc[x] \in {"piece", "write", "uart", "put"}
               /\ Job(x).op = "print"
LockInv == \A x \in Context : /\ console = x <=> Printing(x)
                              /\ uart = x <=> pc[x] = "put"

IInv == TypeInv /\ PlaceInv /\ TextInv /\ LockInv

\* Only on loongarch64 is a byte lost.
TakenInv == platform # "loong" => \A n \in DOMAIN wire : wire[n].taken

\* What goes out next, where "\n" is sent as two characters.
CarriageReturn(x, e) == e.byte = "cr" /\ e.by = x /\ e.turn = turn[x]
LineInv ==
    platform \in {"pl011", "loong", "dw"} =>
        \A x \in Context : pc[x] = "put" =>
            \/ Len(raw[x]) = 1 /\ raw[x][1] # "nl"
            \/ raw[x] = <<"cr", "nl">>
            \/ raw[x] = <<"nl">> /\ wire # <<>> /\ CarriageReturn(x, wire[Len(wire)])

\* LineEnds without what the UART has taken.
LinePairs ==
    platform \in {"pl011", "loong", "dw"} =>
        \A n \in DOMAIN wire : wire[n].byte = "nl" =>
            n > 1 /\ wire[n - 1].byte = "cr" /\ SameCall(wire[n - 1], wire[n])

\* A print that has been followed by another one is over.
Active(e) == console = e.by /\ turn[e.by] = e.turn
ClosedInv ==
    /\ \A n \in DOMAIN wire : wire[n].turn <= turn[wire[n].by]
    /\ \A n \in DOMAIN wire : pc[wire[n].by] = "console" => wire[n].turn # turn[wire[n].by]
    /\ \A k, l \in DOMAIN wire :
         k < l /\ IsPrint(wire[k]) /\ IsPrint(wire[l]) /\ ~SameCall(wire[k], wire[l])
             => ~Active(wire[k])

\* Convert, Encode and Handed, as functions of the variables they read.
ConvertOn(p) == [b \in Byte |-> CASE p \in {"pl011", "loong"} /\ b = "nl" -> <<"cr", "nl">>
                                  [] p = "dw" /\ b \in {"cr", "nl"} -> <<"cr", "nl">>
                                  [] OTHER -> <<b>>]
EncodeOn(p, s) == FlatMap(ConvertOn(p), s)
Entry == [byte : Byte, by : Context, turn : Nat, taken : BOOLEAN]
OfCall(x, k) == [e \in Entry |-> IF e.by = x /\ e.turn = k THEN <<e.byte>> ELSE <<>>]
HandedOn(w, x, k) == FlatMap(OfCall(x, k), w)

RestOn(p, r, b, q) == r \o (EncodeOn(p, b) \o EncodeOn(p, FlattenSeq(q)))

\* What the UART was handed, what is being sent, and what is left.
OutInv ==
    \A x \in Context \ {Uart} :
        turn[x] > 0 /\ Job(x).op # "read" =>
            HandedOn(wire, x, turn[x]) \o RestOn(platform, raw[x], bytes[x], pieces[x])
                = EncodeOn(platform, FlattenSeq(Job(x).text))

\* The calls before the current one.
DoneInv ==
    \A x \in Context \ {Uart} : \A k \in 1 .. turn[x] - 1 :
        Jobs[x][k].op # "read" =>
            HandedOn(wire, x, k) = EncodeOn(platform, FlattenSeq(Jobs[x][k].text))

-----------------------------------------------------------------------------
(* Facts about the parts of the model.                                     *)

LEMMA UartContext == Uart \in Context
BY DEF Context

LEMMA TailMore ==
  ASSUME NEW s \in Seq(Byte), Len(s) > 1
  PROVE  Tail(s) \in Seq(Byte) \ {<<>>}
<1>1. Tail(s) \in Seq(Byte) /\ Len(Tail(s)) = Len(s) - 1 /\ Len(s) \in Nat
  OBVIOUS
<1>2. Len(Tail(s)) # 0
  BY <1>1
<1>3. Len(<<>>) = 0
  BY EmptySeq
<1> QED
  BY <1>1, <1>2, <1>3, Zenon

LEMMA TailLast ==
  ASSUME NEW s \in Seq(Byte), Len(s) = 1
  PROVE  Tail(s) = <<>>
<1>1. ASSUME NEW t \in Seq(Byte), NEW n \in Nat \ {0}, Len(t) = n
      PROVE  Tail(t) \in Seq(Byte) /\ Len(Tail(t)) = n - 1
  BY <1>1
<1>2. Tail(s) \in Seq(Byte) /\ Len(Tail(s)) = 1 - 1
  BY <1>1
<1>3. ASSUME NEW t \in Seq(Byte), Len(t) = 0 PROVE t = <<>>
  BY <1>3, EmptySeq
<1>4. 1 - 1 = 0
  OBVIOUS
<1> QED
  BY <1>2, <1>3, <1>4, Zenon

LEMMA JobFacts ==
  ASSUME NEW x \in Context, NEW n \in Nat \ {0}, n <= Len(Jobs[x])
  PROVE  /\ Jobs[x][n].op \in {"print", "write", "read"}
         /\ Jobs[x][n].op # "read" => Jobs[x][n].text \in Seq(Seq(Byte))
         /\ Jobs[x][n].op = "write" => Len(Jobs[x][n].text) = 1
<1>1. Jobs[x] \in Seq(Call) /\ n \in 1 .. Len(Jobs[x])
  BY JobsAssumption
<1>2. Jobs[x][n] \in Call
  BY <1>1
<1>3. Jobs[x][n].op = "write" => Len(Jobs[x][n].text) = 1
  BY <1>1, JobsAssumption
<1> QED
  BY <1>2, <1>3 DEF Call

LEMMA ConvertType ==
  ASSUME NEW b \in Byte
  PROVE  /\ Convert(b) \in Seq(Byte)
         /\ Convert(b) # <<>>
         /\ Convert(b) = <<b>> \/ Convert(b) = <<"cr", "nl">>
<1>1. Convert(b) = <<b>> \/ Convert(b) = <<"cr", "nl">>
  BY DEF Convert
<1>2. <<b>> \in Seq(Byte) /\ <<b>> # <<>>
  OBVIOUS
<1>3. <<"cr", "nl">> \in Seq(Byte) /\ <<"cr", "nl">> # <<>>
  BY DEF Byte
<1> QED
  BY <1>1, <1>2, <1>3

LEMMA SentType ==
  ASSUME NEW x \in Context, NEW s \in Seq(Byte), NEW ok \in BOOLEAN, turn \in [Context -> Nat]
  PROVE  /\ Sent(x, s, ok) \in Seq(Entry)
         /\ Len(Sent(x, s, ok)) = Len(s)
         /\ \A n \in 1 .. Len(s) :
              Sent(x, s, ok)[n] = [byte |-> s[n], by |-> x, turn |-> turn[x], taken |-> ok]
BY DEF Sent, Entry

LEMMA WireGrows ==
  ASSUME NEW x \in Context, NEW s \in Seq(Byte), NEW ok \in BOOLEAN, turn \in [Context -> Nat],
         wire \in Seq(Entry), wire' = wire \o Sent(x, s, ok)
  PROVE  /\ wire' \in Seq(Entry)
         /\ Len(wire') = Len(wire) + Len(s)
         /\ \A n \in 1 .. Len(wire) : wire'[n] = wire[n]
         /\ \A n \in Len(wire) + 1 .. Len(wire') :
              wire'[n] = [byte |-> s[n - Len(wire)], by |-> x, turn |-> turn[x], taken |-> ok]
<1>1. /\ Sent(x, s, ok) \in Seq(Entry)
      /\ Len(Sent(x, s, ok)) = Len(s)
      /\ \A n \in 1 .. Len(s) :
           Sent(x, s, ok)[n] = [byte |-> s[n], by |-> x, turn |-> turn[x], taken |-> ok]
  BY SentType
<1>2. /\ wire \o Sent(x, s, ok) \in Seq(Entry)
      /\ Len(wire \o Sent(x, s, ok)) = Len(wire) + Len(s)
      /\ Len(wire) \in Nat /\ Len(s) \in Nat
  <2> HIDE DEF Entry
  <2> QED
    BY <1>1, ConcatProperties, LenProperties
<1>3. \A n \in 1 .. Len(wire) : wire'[n] = wire[n]
  BY <1>1, <1>2
<1>4. ASSUME NEW n \in Len(wire) + 1 .. Len(wire')
      PROVE  wire'[n] = [byte |-> s[n - Len(wire)], by |-> x, turn |-> turn[x], taken |-> ok]
  <2>1. n - Len(wire) \in 1 .. Len(s)
    BY <1>2
  <2>2. wire'[n] = Sent(x, s, ok)[n - Len(wire)]
    BY <1>1, <1>2, <2>1
  <2> QED
    BY <1>1, <2>1, <2>2
<1> QED
  BY <1>2, <1>3, <1>4

\* What a byte handed to the UART leaves on the wire.
LEMMA PutSends ==
  ASSUME NEW x \in Context, Put(x)
  PROVE  \E ok \in BOOLEAN : /\ platform # "loong" => ok
                             /\ wire' = wire \o Sent(x, <<Head(raw[x])>>, ok)
<1>1. PICK ok \in Takes : wire' = wire \o Sent(x, <<Head(raw[x])>>, ok)
  BY DEF Put
<1>2. ok \in BOOLEAN /\ (platform # "loong" => ok)
  BY DEF Takes
<1> QED
  BY <1>1, <1>2

-----------------------------------------------------------------------------
(* The base invariant, one lemma for each action.                          *)

LEMMA InitIInv == Init => IInv
<1> SUFFICES ASSUME Init PROVE IInv
  OBVIOUS
<1> USE DEF Init
<1>1. TypeInv
  <2>1. \A x \in Context : Len(Jobs[x]) \in Nat
    BY JobsAssumption
  <2>2. Len(INPUT) \in Nat
    BY InputAssumption
  <2>3. irq \in BOOLEAN /\ receive \in BOOLEAN
    OBVIOUS
  <2>4. /\ pc \in [Context -> Label]
        /\ turn \in [Context -> Nat]
        /\ \A x \in Context : turn[x] <= Len(Jobs[x])
        /\ typed \in 0 .. Len(INPUT)
    BY <2>1, <2>2 DEF Label
  <2>5. /\ pieces \in [Context -> Seq(Seq(Byte))]
        /\ bytes \in [Context -> Seq(Byte)]
        /\ raw \in [Context -> Seq(Byte)]
        /\ rx \in Seq(Byte)
    OBVIOUS
  <2>6. wire \in Seq([byte : Byte, by : Context, turn : Nat, taken : BOOLEAN])
    OBVIOUS
  <2> QED
    BY <2>3, <2>4, <2>5, <2>6 DEF TypeInv
<1>2. PlaceInv /\ TextInv
  BY UartContext DEF PlaceInv, TextInv
<1>3. LockInv
  BY ContextAssumption DEF LockInv, Printing
<1> QED
  BY <1>1, <1>2, <1>3 DEF IInv

LEMMA BeginIInv == ASSUME NEW x \in Context, IInv, Begin(x) PROVE IInv'
<1> USE DEF Begin, Goto, inputVars
<1> DEFINE job == Jobs[x][turn[x] + 1]
<1>1. /\ turn[x] + 1 \in Nat \ {0} /\ turn[x] + 1 <= Len(Jobs[x])
      /\ turn' = [turn EXCEPT ![x] = turn[x] + 1]
  BY SMTT(30), JobsAssumption DEF IInv, TypeInv
<1>2. /\ job.op \in {"print", "write", "read"}
      /\ job.op # "read" => job.text \in Seq(Seq(Byte))
      /\ job.op = "write" => Len(job.text) = 1
  BY <1>1, JobFacts
<1>3. job.op = "write" => job.text[1] \in Seq(Byte)
  BY <1>2
<1>4. /\ pieces' = [pieces EXCEPT ![x] = IF job.op = "print" THEN job.text ELSE <<>>]
      /\ bytes' = [bytes EXCEPT ![x] = IF job.op = "write" THEN job.text[1] ELSE <<>>]
      /\ pc' = [pc EXCEPT ![x] = IF job.op = "print" THEN "console" ELSE job.op]
      /\ Job(x)' = job
      /\ x # Uart /\ pc[x] = "idle"
      /\ UNCHANGED <<platform, raw, console, uart, wire, rx, typed, irq, receive>>
  BY <1>1 DEF Job, IInv, TypeInv
<1>5. \A y \in Context \ {x} : Job(y)' = Job(y)
  BY <1>1 DEF Job, IInv, TypeInv
<1> HIDE DEF job, Begin
<1>6. TypeInv'
  <2>1. /\ pc' \in [Context -> Label]
        /\ turn' \in [Context -> Nat]
        /\ \A y \in Context : turn'[y] <= Len(Jobs[y])
    BY <1>1, <1>2, <1>4 DEF IInv, TypeInv, Label
  <2>2. /\ pieces' \in [Context -> Seq(Seq(Byte))]
        /\ bytes' \in [Context -> Seq(Byte)]
    <3>1. pieces \in [Context -> Seq(Seq(Byte))] /\ bytes \in [Context -> Seq(Byte)]
      BY DEF IInv, TypeInv
    <3>2. /\ (IF job.op = "print" THEN job.text ELSE <<>>) \in Seq(Seq(Byte))
          /\ (IF job.op = "write" THEN job.text[1] ELSE <<>>) \in Seq(Byte)
      BY <1>2, <1>3
    <3> HIDE DEF job
    <3> QED
      BY ONLY <1>4, <3>1, <3>2
  <2> QED
    BY <1>4, <2>1, <2>2 DEF IInv, TypeInv
<1>7. PlaceInv'
  <2>1. pc'[Uart] = pc[Uart]
    BY <1>4, UartContext DEF IInv, TypeInv
  <2>2. ASSUME NEW y \in Context \ {Uart, x}
        PROVE  pc'[y] = pc[y] /\ turn'[y] = turn[y] /\ Job(y)' = Job(y)
    BY <1>1, <1>4, <1>5 DEF IInv, TypeInv
  <2>3. /\ pc'[x] = IF job.op = "print" THEN "console" ELSE job.op
        /\ turn'[x] > 0
    BY <1>1, <1>4 DEF IInv, TypeInv
  <2> QED
    BY <1>2, <1>4, <2>1, <2>2, <2>3 DEF IInv, PlaceInv
<1>8. TextInv'
  BY <1>1, <1>2, <1>4, <1>5 DEF IInv, TypeInv, TextInv
<1>9. LockInv'
  BY <1>1, <1>2, <1>4, <1>5 DEF IInv, TypeInv, LockInv, Printing
<1> QED
  BY <1>6, <1>7, <1>8, <1>9 DEF IInv

LEMMA LockConsoleIInv == ASSUME NEW x \in Context, IInv, LockConsole(x) PROVE IInv'
<1> USE DEF LockConsole, Goto, inputVars
<1>1. \A y \in Context : Job(y)' = Job(y)
  BY DEF Job
<1>2. TypeInv'
  BY DEF IInv, TypeInv, Label
<1>3. PlaceInv' /\ TextInv'
  BY <1>1, UartContext DEF IInv, TypeInv, PlaceInv, TextInv
<1>4. LockInv'
  BY <1>1, ContextAssumption DEF IInv, TypeInv, PlaceInv, LockInv, Printing
<1> QED
  BY <1>2, <1>3, <1>4 DEF IInv

LEMMA NextPieceIInv == ASSUME NEW x \in Context, IInv, NextPiece(x) PROVE IInv'
<1> USE DEF NextPiece, Goto, inputVars
<1>1. \A y \in Context : Job(y)' = Job(y)
  BY DEF Job
<1>2. Head(pieces[x]) \in Seq(Byte) /\ Tail(pieces[x]) \in Seq(Seq(Byte))
  BY DEF IInv, TypeInv
<1>3. TypeInv'
  BY <1>2 DEF IInv, TypeInv, Label
<1>4. PlaceInv' /\ TextInv'
  BY <1>1, UartContext DEF IInv, TypeInv, PlaceInv, TextInv
<1>5. LockInv'
  BY <1>1 DEF IInv, TypeInv, PlaceInv, LockInv, Printing
<1> QED
  BY <1>3, <1>4, <1>5 DEF IInv

LEMMA UnlockConsoleIInv == ASSUME NEW x \in Context, IInv, UnlockConsole(x) PROVE IInv'
<1> USE DEF UnlockConsole, Goto, inputVars
<1>1. \A y \in Context : Job(y)' = Job(y)
  BY DEF Job
<1>2. TypeInv'
  BY DEF IInv, TypeInv, Label
<1>3. PlaceInv' /\ TextInv'
  BY <1>1, UartContext DEF IInv, TypeInv, PlaceInv, TextInv
<1>4. LockInv'
  BY <1>1, ContextAssumption DEF IInv, TypeInv, PlaceInv, LockInv, Printing
<1> QED
  BY <1>2, <1>3, <1>4 DEF IInv

LEMMA WriteEndIInv == ASSUME NEW x \in Context, IInv, WriteEnd(x) PROVE IInv'
<1> USE DEF WriteEnd, Goto, Caller, inputVars
<1>1. \A y \in Context : Job(y)' = Job(y)
  BY DEF Job
<1>2. TypeInv'
  BY DEF IInv, TypeInv, Label
<1>3. PlaceInv' /\ TextInv'
  BY <1>1, UartContext DEF IInv, TypeInv, PlaceInv, TextInv
<1>4. LockInv'
  BY <1>1 DEF IInv, TypeInv, PlaceInv, LockInv, Printing
<1> QED
  BY <1>2, <1>3, <1>4 DEF IInv

LEMMA WaitUartIInv == ASSUME NEW x \in Context, IInv, WaitUart(x) PROVE IInv'
<1> USE DEF WaitUart, Goto, inputVars
<1>1. \A y \in Context : Job(y)' = Job(y)
  BY DEF Job
<1>2. TypeInv'
  BY DEF IInv, TypeInv, Label
<1>3. PlaceInv' /\ TextInv'
  BY <1>1, UartContext DEF IInv, TypeInv, PlaceInv, TextInv
<1>4. LockInv'
  BY <1>1 DEF IInv, TypeInv, PlaceInv, LockInv, Printing
<1> QED
  BY <1>2, <1>3, <1>4 DEF IInv

LEMMA LockUartIInv == ASSUME NEW x \in Context, IInv, LockUart(x) PROVE IInv'
<1> USE DEF LockUart, PutChar, Goto, inputVars
<1>1. \A y \in Context : Job(y)' = Job(y)
  BY DEF Job
<1>2. /\ Head(bytes[x]) \in Byte /\ Tail(bytes[x]) \in Seq(Byte)
      /\ bytes[x] # <<>>
  BY DEF IInv, TypeInv, TextInv
<1>3. Convert(Head(bytes[x])) \in Seq(Byte) /\ Convert(Head(bytes[x])) # <<>>
  BY <1>2, ConvertType
<1>4. TypeInv'
  BY <1>2, <1>3 DEF IInv, TypeInv, Label
<1>5. PlaceInv' /\ TextInv'
  BY <1>1, <1>3, UartContext DEF IInv, TypeInv, PlaceInv, TextInv
<1>6. LockInv'
  BY <1>1, ContextAssumption DEF IInv, TypeInv, PlaceInv, LockInv, Printing
<1> QED
  BY <1>4, <1>5, <1>6 DEF IInv

\* A byte goes out while there are more, or another character to send.
LEMMA PutOnIInv ==
  ASSUME NEW x \in Context, IInv, Put(x), UNCHANGED <<pc, uart>>,
         NEW s \in Seq(Byte) \ {<<>>}, raw' = [raw EXCEPT ![x] = s],
         NEW t \in Seq(Byte), bytes' = [bytes EXCEPT ![x] = t]
  PROVE  IInv'
<1> USE DEF Put, Goto, inputVars
<1>1. \A y \in Context : Job(y)' = Job(y)
  BY DEF Job
<1>2. wire' \in Seq(Entry)
  <2>1. <<Head(raw[x])>> \in Seq(Byte)
    BY DEF IInv, TypeInv, TextInv
  <2>2. PICK ok \in BOOLEAN : wire' = wire \o Sent(x, <<Head(raw[x])>>, ok)
    BY PutSends
  <2> QED
    BY <2>1, <2>2, WireGrows DEF IInv, TypeInv, Entry
<1>3. TypeInv'
  BY <1>2 DEF IInv, TypeInv, Entry
<1>4. PlaceInv' /\ TextInv'
  BY <1>1, UartContext DEF IInv, TypeInv, PlaceInv, TextInv
<1>5. LockInv'
  BY <1>1 DEF IInv, TypeInv, LockInv, Printing
<1> QED
  BY <1>3, <1>4, <1>5 DEF IInv

LEMMA PutIInv == ASSUME NEW x \in Context, IInv, Put(x) PROVE IInv'
<1> USE DEF Put, Goto, inputVars
<1>1. CASE Len(raw[x]) > 1 /\ UNCHANGED <<pc, bytes, uart>> /\ raw' = [raw EXCEPT ![x] = Tail(@)]
  <2>1. Tail(raw[x]) \in Seq(Byte) \ {<<>>}
    BY <1>1, TailMore DEF IInv, TypeInv
  <2>2. bytes' = [bytes EXCEPT ![x] = bytes[x]] /\ bytes[x] \in Seq(Byte)
    BY <1>1 DEF IInv, TypeInv
  <2> QED
    BY <1>1, <2>1, <2>2, PutOnIInv
<1>2. CASE SameGuard(x) /\ PutChar(x) /\ UNCHANGED <<pc, uart>>
  <2>1. /\ Head(bytes[x]) \in Byte /\ Tail(bytes[x]) \in Seq(Byte)
    BY <1>2 DEF IInv, TypeInv, SameGuard
  <2>2. Convert(Head(bytes[x])) \in Seq(Byte) \ {<<>>}
    BY <2>1, ConvertType
  <2> QED
    BY <1>2, <2>1, <2>2, PutOnIInv DEF PutChar
<1>3. CASE /\ raw' = [raw EXCEPT ![x] = <<>>]
           /\ uart' = None
           /\ Goto(x, "write")
           /\ UNCHANGED bytes
  <2>1. \A y \in Context : Job(y)' = Job(y)
    BY DEF Job
  <2>2. wire' \in Seq(Entry)
    <3>1. <<Head(raw[x])>> \in Seq(Byte)
      BY DEF IInv, TypeInv, TextInv
    <3>2. PICK ok \in BOOLEAN : wire' = wire \o Sent(x, <<Head(raw[x])>>, ok)
      BY PutSends
    <3> QED
      BY <3>1, <3>2, WireGrows DEF IInv, TypeInv, Entry
  <2>3. TypeInv'
    <3>1. raw' \in [Context -> Seq(Byte)] /\ uart' \in Context \cup {None}
      BY <1>3 DEF IInv, TypeInv
    <3>2. pc' \in [Context -> Label]
      BY <1>3 DEF IInv, TypeInv, Goto, Label
    <3> QED
      BY <1>3, <2>2, <3>1, <3>2 DEF IInv, TypeInv, Entry
  <2>4. PlaceInv' /\ TextInv'
    BY <1>3, <2>1, UartContext DEF IInv, TypeInv, PlaceInv, TextInv
  <2>5. LockInv'
    BY <1>3, <2>1, ContextAssumption DEF IInv, TypeInv, LockInv, Printing
  <2> QED
    BY <2>3, <2>4, <2>5 DEF IInv
<1> QED
  BY <1>1, <1>2, <1>3

LEMMA SubSeqType ==
  ASSUME NEW s \in Seq(Byte), NEW n \in 0 .. Len(s)
  PROVE  /\ SubSeq(s, 1, n) \in Seq(Byte)
         /\ SubSeq(s, n + 1, Len(s)) \in Seq(Byte)
<1>1. Len(s) \in Nat /\ \A i \in 1 .. Len(s) : s[i] \in Byte
  OBVIOUS
<1> QED
  BY <1>1, SubSeqProperties

LEMMA SubSeqSplit ==
  ASSUME NEW s \in Seq(Byte), NEW n \in 0 .. Len(s)
  PROVE  s = SubSeq(s, 1, n) \o SubSeq(s, n + 1, Len(s))
<1>1. Len(s) \in Nat
  OBVIOUS
<1>2. SubSeq(s, 1, Len(s)) = s
  OBVIOUS
<1>3. SubSeq(s, 1, n) \o SubSeq(s, n + 1, Len(s)) = SubSeq(s, 1, Len(s))
  <2>1. 1 \in 1 .. Len(s) + 1 /\ n \in 1 - 1 .. Len(s) /\ Len(s) \in n .. Len(s)
    BY <1>1
  <2> QED
    BY <2>1, ConcatAdjacentSubSeq
<1> QED
  BY <1>2, <1>3

\* The firmware takes at most all the bytes.
LEMMA SbiTakes ==
  ASSUME NEW x \in Context, IInv, SbiWrite(x)
  PROVE  \E n \in 0 .. Len(bytes[x]) :
           /\ wire' = wire \o Sent(x, SubSeq(bytes[x], 1, n), TRUE)
           /\ bytes' = [bytes EXCEPT ![x] = SubSeq(bytes[x], n + 1, Len(bytes[x]))]
<1> DEFINE most == IF Len(bytes[x]) < MAX_RW_SIZE THEN Len(bytes[x]) ELSE MAX_RW_SIZE
<1>1. PICK n \in 0 .. most :
           /\ wire' = wire \o Sent(x, SubSeq(bytes[x], 1, n), TRUE)
           /\ bytes' = [bytes EXCEPT ![x] = SubSeq(@, n + 1, Len(@))]
  BY DEF SbiWrite
<1>2. bytes[x] \in Seq(Byte) /\ Len(bytes[x]) \in Nat
  BY DEF IInv, TypeInv
<1>3. n \in 0 .. Len(bytes[x])
  BY <1>2, SizeAssumption
<1> QED
  BY <1>1, <1>3

LEMMA SbiWriteIInv == ASSUME NEW x \in Context, IInv, SbiWrite(x) PROVE IInv'
<1> USE DEF SbiWrite, inputVars
<1>1. \A y \in Context : Job(y)' = Job(y)
  BY DEF Job
<1>2. PICK n \in 0 .. Len(bytes[x]) :
        /\ wire' = wire \o Sent(x, SubSeq(bytes[x], 1, n), TRUE)
        /\ bytes' = [bytes EXCEPT ![x] = SubSeq(bytes[x], n + 1, Len(bytes[x]))]
  BY SbiTakes
<1>3. SubSeq(bytes[x], 1, n) \in Seq(Byte) /\ SubSeq(bytes[x], n + 1, Len(bytes[x])) \in Seq(Byte)
  BY <1>2, SubSeqType DEF IInv, TypeInv
<1>4. wire' \in Seq(Entry)
  BY <1>2, <1>3, WireGrows DEF IInv, TypeInv, Entry
<1>5. TypeInv'
  BY <1>2, <1>3, <1>4 DEF IInv, TypeInv, Entry
<1>6. PlaceInv' /\ TextInv'
  BY <1>1, <1>2, UartContext DEF IInv, TypeInv, PlaceInv, TextInv
<1>7. LockInv'
  BY <1>1 DEF IInv, TypeInv, LockInv, Printing
<1> QED
  BY <1>5, <1>6, <1>7 DEF IInv

LEMMA ReadBytesIInv == ASSUME NEW x \in Context, IInv, ReadBytes(x) PROVE IInv'
<1>1. /\ \A y \in Context : Job(y)' = Job(y)
      /\ pc[x] = "read"
      /\ UNCHANGED <<platform, turn, pieces, raw, console, uart, wire, typed, receive>>
  BY DEF ReadBytes, Job
<1>2. x # Uart
  BY <1>1 DEF IInv, PlaceInv
<1>3. irq' \in BOOLEAN
  BY DEF ReadBytes, PopRx, IInv, TypeInv
<1>4. CASE /\ pc' = [pc EXCEPT ![x] = "idle"]
           /\ bytes' = [bytes EXCEPT ![x] = <<>>]
           /\ UNCHANGED rx
  <2>1. TypeInv'
    BY SMTT(30), <1>1, <1>3, <1>4 DEF IInv, TypeInv, Label
  <2>2. PlaceInv' /\ TextInv'
    <3>1. pieces[x] = <<>>
      BY <1>1, <1>2 DEF IInv, PlaceInv, TextInv
    <3> QED
      BY <1>1, <1>2, <1>4, <3>1, UartContext DEF IInv, TypeInv, PlaceInv, TextInv
  <2>3. LockInv'
    BY <1>1, <1>4 DEF IInv, TypeInv, PlaceInv, LockInv, Printing
  <2> QED
    BY <2>1, <2>2, <2>3 DEF IInv
<1>5. CASE /\ rx # <<>>
           /\ bytes' = [bytes EXCEPT ![x] = Append(@, Head(rx))]
           /\ rx' = Tail(rx)
           /\ UNCHANGED pc
  <2>1. /\ Tail(rx) \in Seq(Byte)
        /\ Append(bytes[x], Head(rx)) \in Seq(Byte)
    BY <1>5 DEF IInv, TypeInv
  <2>2. TypeInv'
    BY <1>1, <1>3, <1>5, <2>1 DEF IInv, TypeInv
  <2>3. PlaceInv' /\ TextInv'
    BY <1>1, <1>2, <1>5, UartContext DEF IInv, TypeInv, PlaceInv, TextInv
  <2>4. LockInv'
    BY <1>1, <1>5 DEF IInv, TypeInv, LockInv, Printing
  <2> QED
    BY <2>2, <2>3, <2>4 DEF IInv
<1> QED
  BY <1>4, <1>5 DEF ReadBytes, PopRx, Goto

\* The steps of irq_handler and of the hardware: they move no context but Uart,
\* which is in no call.
LEMMA EchoIInv ==
  ASSUME IInv, EchoStep \/ Receive
  PROVE  IInv'
<1> USE DEF Goto, inputVars
<1>1. /\ UNCHANGED <<platform, turn, pieces, raw, console, uart, wire>>
      /\ \A y \in Context : Job(y)' = Job(y)
  BY DEF EchoStep, UartIrq, IsReceiveInterrupt, AckInterrupts, Echo, Receive, Job
<1>2. /\ pc[Uart] \notin {"put", "uart"} \/ UNCHANGED pc
      /\ \/ UNCHANGED pc
         \/ \E l \in {"status", "ack", "getchar", "idle", "write"} : pc' = [pc EXCEPT ![Uart] = l]
  BY DEF EchoStep, UartIrq, IsReceiveInterrupt, AckInterrupts, Echo, Receive, EchoOrder
<1>3. \/ UNCHANGED bytes
      \/ /\ \E b \in Byte : bytes' = [bytes EXCEPT ![Uart] = <<b>>]
         /\ pc[Uart] = "getchar"
  BY DEF EchoStep, UartIrq, IsReceiveInterrupt, AckInterrupts, Echo, Receive, IInv, TypeInv
<1>4. irq' \in BOOLEAN /\ receive' \in BOOLEAN
  BY DEF EchoStep, UartIrq, IsReceiveInterrupt, AckInterrupts, Echo, Receive, PopRx, IInv, TypeInv
<1>5. rx' \in Seq(Byte) /\ typed' \in 0 .. Len(INPUT)
  <2>1. rx \in Seq(Byte) /\ typed \in 0 .. Len(INPUT) /\ Len(INPUT) \in Nat
    BY InputAssumption DEF IInv, TypeInv
  <2>2. CASE EchoStep
    <3>1. typed' = typed /\ (rx' = rx \/ (rx # <<>> /\ rx' = Tail(rx)))
      BY <2>2 DEF EchoStep, UartIrq, IsReceiveInterrupt, AckInterrupts, Echo, PopRx
    <3> QED
      BY <2>1, <3>1
  <2>3. CASE Receive
    <3>1. typed + 1 \in 1 .. Len(INPUT)
      BY <2>1, <2>3 DEF Receive
    <3>2. INPUT[typed + 1] \in Byte
      BY <3>1, InputAssumption
    <3> QED
      BY <2>1, <2>3, <3>1, <3>2 DEF Receive
  <2> QED
    BY <2>2, <2>3
<1>6. TypeInv'
  <2>1. pc' \in [Context -> Label]
    BY <1>2 DEF IInv, TypeInv, Label
  <2>2. bytes' \in [Context -> Seq(Byte)]
    <3>1. \A b \in Byte : <<b>> \in Seq(Byte)
      OBVIOUS
    <3> QED
      BY <1>3, <3>1 DEF IInv, TypeInv
  <2> QED
    BY <1>1, <1>4, <1>5, <2>1, <2>2 DEF IInv, TypeInv
<1>7. PlaceInv'
  BY <1>1, <1>2, UartContext DEF IInv, TypeInv, PlaceInv
<1>8. TextInv'
  <2>1. ASSUME NEW y \in Context \ {Uart} PROVE pc'[y] = pc[y] /\ bytes'[y] = bytes[y]
    BY <1>2, <1>3 DEF IInv, TypeInv
  <2>2. /\ pc'[Uart] = "put" <=> pc[Uart] = "put"
        /\ pc'[Uart] = "uart" => pc[Uart] = "uart" /\ bytes'[Uart] = bytes[Uart]
    BY <1>2, <1>3, UartContext DEF IInv, TypeInv
  <2> QED
    BY <1>1, <2>1, <2>2, UartContext DEF IInv, TextInv
<1>9. LockInv'
  BY <1>1, <1>2, UartContext DEF IInv, TypeInv, LockInv, Printing
<1> QED
  BY <1>6, <1>7, <1>8, <1>9 DEF IInv

LEMMA NextIInv == IInv /\ [Next]_vars => IInv'
<1> SUFFICES ASSUME IInv, [Next]_vars PROVE IInv'
  OBVIOUS
<1>1. CASE UNCHANGED vars
  BY <1>1 DEF vars, inputVars, IInv, TypeInv, PlaceInv, TextInv, LockInv, Printing, Job
<1>2. CASE \E x \in Context : Begin(x) \/ Step(x)
  BY <1>2, BeginIInv, LockConsoleIInv, NextPieceIInv, UnlockConsoleIInv, WriteEndIInv,
     WaitUartIInv, LockUartIInv, PutIInv, SbiWriteIInv, ReadBytesIInv DEF Step
<1> QED
  BY <1>1, <1>2, EchoIInv DEF Next

LEMMA Invariance == Spec => []IInv
BY InitIInv, NextIInv, PTL DEF Spec

\* The types of the variables, and the places of the lock owners.
THEOREM TypeCorrect == Spec => []TypeOK
<1>1. IInv => TypeOK
  <2> SUFFICES ASSUME IInv PROVE TypeOK
    OBVIOUS
  <2>1. \A x \in Context : /\ turn[x] \in 0 .. Len(Jobs[x])
                           /\ bytes[x] \in Seq(Byte) /\ raw[x] \in Seq(Byte)
    BY JobsAssumption DEF IInv, TypeInv
  <2>2. console = None \/ (console \in Thread \cup Handler /\ pc[console] \in {"piece", "write", "uart", "put"})
    BY DEF IInv, TypeInv, LockInv, Printing, Context
  <2>3. uart = None \/ (uart \in Context /\ pc[uart] = "put")
    BY DEF IInv, TypeInv, LockInv
  <2> QED
    BY <2>1, <2>2, <2>3 DEF IInv, TypeInv, TypeOK, Label
<1> QED
  BY <1>1, Invariance, PTL

-----------------------------------------------------------------------------
(* Interrupt handlers and the locks of the threads they interrupt.         *)

\* A lock gets a new owner only while that context runs.
LEMMA OwnersRun ==
  ASSUME [Next]_vars
  PROVE  /\ console' \in {console, None} \/ \E z \in Context : console' = z /\ Runs(z)
         /\ uart' \in {uart, None} \/ \E z \in Context : uart' = z /\ Runs(z)
<1>1. CASE UNCHANGED vars
  BY <1>1 DEF vars
<1>2. CASE \E x \in Context : Begin(x)
  BY <1>2 DEF Begin
<1>3. ASSUME NEW x \in Context, Step(x)
      PROVE  /\ console' \in {console, None} \/ (console' = x /\ Runs(x))
             /\ uart' \in {uart, None} \/ (uart' = x /\ Runs(x))
  BY <1>3 DEF Step, LockConsole, NextPiece, UnlockConsole, WriteEnd, WaitUart, LockUart, Put,
              SbiWrite, ReadBytes
<1>4. CASE EchoStep \/ Receive
  BY <1>4 DEF EchoStep, UartIrq, IsReceiveInterrupt, AckInterrupts, Echo, Receive
<1> QED
  BY <1>1, <1>2, <1>3, <1>4 DEF Next

\* A handler begins only on a CPU that takes interrupts.
LEMMA HandlersInterrupt ==
  ASSUME [Next]_vars, NEW x \in Context, x \notin Thread, pc \in [Context -> Label],
         pc[x] = "idle", pc'[x] # "idle"
  PROVE  IrqsOn(x) /\ UNCHANGED <<console, uart>>
<1> USE DEF Goto
<1>1. CASE UNCHANGED vars
  BY <1>1 DEF vars
<1>2. ASSUME NEW z \in Context, Begin(z)
      PROVE  IrqsOn(x) /\ UNCHANGED <<console, uart>>
  <2>1. x = z
    BY <1>2 DEF Begin
  <2>2. x \in Handler
    BY <1>2, <2>1 DEF Begin, Context
  <2> QED
    BY <1>2, <2>1, <2>2 DEF Begin
<1>3. ASSUME NEW z \in Context, Step(z) PROVE FALSE
  <2>1. pc[z] # "idle" /\ \A y \in Context \ {z} : pc'[y] = pc[y]
    BY <1>3 DEF Step, LockConsole, NextPiece, UnlockConsole, WriteEnd, WaitUart, LockUart, Put,
                SbiWrite, ReadBytes
  <2> QED
    BY <2>1
<1>4. CASE EchoStep
  BY <1>4 DEF EchoStep, UartIrq, IsReceiveInterrupt, AckInterrupts, Echo
<1>5. CASE Receive
  BY <1>5 DEF Receive
<1> QED
  BY <1>1, <1>2, <1>3, <1>4, <1>5 DEF Next

\* A handler never has to wait for the thread it interrupted.
THEOREM HandlersNeverDeadlock == Spec => []NoSelfDeadlock
<1>1. Init => NoSelfDeadlock
  BY DEF Init, NoSelfDeadlock, Context
<1>2. IInv /\ NoSelfDeadlock /\ [Next]_vars => NoSelfDeadlock'
  <2> SUFFICES ASSUME IInv, NoSelfDeadlock, [Next]_vars,
                      NEW x \in Handler \cup {Uart}, pc'[x] # "idle",
                      NEW y \in Siblings(x)' \cap Thread
               PROVE  console' # y /\ uart' # y
    BY DEF NoSelfDeadlock
  <2>1. /\ x \in Context /\ x \notin Thread
        /\ y \in Siblings(x) /\ y \in Context /\ y \in Thread /\ x \in Siblings(y) \ Thread
    BY ContextAssumption DEF Siblings, Context
  <2>2. y # None
    BY <2>1, ContextAssumption
  <2>3. CASE pc[x] # "idle"
    <3>1. console # y /\ uart # y
      BY <2>1, <2>3 DEF NoSelfDeadlock
    <3>2. ~Runs(y)
      BY <2>1, <2>3 DEF Runs
    <3> QED
      BY <2>2, <3>1, <3>2, OwnersRun
  <2>4. CASE pc[x] = "idle"
    <3>1. IrqsOn(x) /\ UNCHANGED <<console, uart>>
      BY <2>1, <2>4, HandlersInterrupt DEF IInv, TypeInv
    <3>2. pc[y] = "idle" \/ (console # y /\ pc[y] \in {"write", "read"})
      BY <2>1, <3>1 DEF IrqsOn
    <3>3. console # y /\ uart # y
      BY <2>1, <3>2 DEF IInv, LockInv, Printing
    <3> QED
      BY <3>1, <3>3
  <2> QED
    BY <2>3, <2>4
<1> QED
  BY <1>1, <1>2, Invariance, PTL DEF Spec

-----------------------------------------------------------------------------
(* What the UART has taken.                                                *)

LEMMA PlatformStays == ASSUME [Next]_vars PROVE platform' = platform
<1>1. ASSUME NEW x \in Context, Begin(x) \/ Step(x) PROVE platform' = platform
  BY <1>1 DEF Begin, Step, LockConsole, NextPiece, UnlockConsole, WriteEnd, WaitUart, LockUart,
              Put, SbiWrite, ReadBytes
<1> QED
  BY <1>1 DEF Next, vars, EchoStep, UartIrq, IsReceiveInterrupt, AckInterrupts, Echo, Receive

\* The wire grows by bytes of one context that is inside write_bytes.
LEMMA WireSteps ==
  ASSUME IInv, [Next]_vars
  PROVE  \/ UNCHANGED wire
         \/ \E x \in Context : \E s \in Seq(Byte), ok \in BOOLEAN :
              /\ Put(x) \/ SbiWrite(x)
              /\ platform # "loong" => ok
              /\ wire' = wire \o Sent(x, s, ok)
              /\ pc[x] \in {"put", "write"}
              /\ UNCHANGED <<turn, console>>
              /\ \A y \in Context : pc'[y] = "console" => pc[y] = "console" /\ y # x
<1>1. ASSUME NEW x \in Context, Put(x)
      PROVE  \E s \in Seq(Byte), ok \in BOOLEAN :
               /\ platform # "loong" => ok
               /\ wire' = wire \o Sent(x, s, ok)
               /\ pc[x] \in {"put", "write"}
               /\ UNCHANGED <<turn, console>>
               /\ \A y \in Context : pc'[y] = "console" => pc[y] = "console" /\ y # x
  <2>1. <<Head(raw[x])>> \in Seq(Byte)
    BY <1>1 DEF Put, IInv, TypeInv, TextInv
  <2>2. \A y \in Context : pc'[y] = "console" => pc[y] = "console" /\ y # x
    BY <1>1 DEF Put, Goto, IInv, TypeInv
  <2>3. pc[x] \in {"put", "write"} /\ UNCHANGED <<turn, console>>
    BY <1>1 DEF Put
  <2>4. PICK ok \in BOOLEAN : /\ platform # "loong" => ok
                              /\ wire' = wire \o Sent(x, <<Head(raw[x])>>, ok)
    BY <1>1, PutSends
  <2> QED
    BY <2>1, <2>2, <2>3, <2>4
<1>2. ASSUME NEW x \in Context, SbiWrite(x)
      PROVE  \E s \in Seq(Byte), ok \in BOOLEAN :
               /\ platform # "loong" => ok
               /\ wire' = wire \o Sent(x, s, ok)
               /\ pc[x] \in {"put", "write"}
               /\ UNCHANGED <<turn, console>>
               /\ \A y \in Context : pc'[y] = "console" => pc[y] = "console" /\ y # x
  <2>1. PICK n \in 0 .. Len(bytes[x]) : wire' = wire \o Sent(x, SubSeq(bytes[x], 1, n), TRUE)
    BY <1>2, SbiTakes
  <2>2. SubSeq(bytes[x], 1, n) \in Seq(Byte)
    BY SubSeqType DEF IInv, TypeInv
  <2>3. pc[x] \in {"put", "write"} /\ UNCHANGED <<pc, turn, console>>
    BY <1>2 DEF SbiWrite
  <2> QED
    BY <2>1, <2>2, <2>3
<1>3. ASSUME NEW x \in Context, Begin(x) \/ Step(x)
      PROVE  UNCHANGED wire \/ Put(x) \/ SbiWrite(x)
  BY <1>3 DEF Begin, Step, LockConsole, NextPiece, UnlockConsole, WriteEnd, WaitUart, LockUart,
              ReadBytes
<1>4. CASE EchoStep \/ Receive \/ UNCHANGED vars
  BY <1>4 DEF EchoStep, UartIrq, IsReceiveInterrupt, AckInterrupts, Echo, Receive, vars
<1> QED
  BY <1>1, <1>2, <1>3, <1>4 DEF Next

\* Except on loongarch64 the drivers wait until the UART takes the byte.
LEMMA TakenNext ==
  ASSUME IInv, TakenInv, [Next]_vars
  PROVE  TakenInv'
<1>1. platform' = platform
  BY PlatformStays
<1>2. CASE UNCHANGED wire
  BY <1>1, <1>2 DEF TakenInv
<1>3. ASSUME NEW x \in Context, NEW s \in Seq(Byte), NEW ok \in BOOLEAN,
             platform # "loong" => ok, wire' = wire \o Sent(x, s, ok)
      PROVE  TakenInv'
  <2>1. wire \in Seq(Entry) /\ turn \in [Context -> Nat]
    BY DEF IInv, TypeInv, Entry
  <2>2. /\ wire' \in Seq(Entry)
        /\ Len(wire') = Len(wire) + Len(s)
        /\ \A n \in 1 .. Len(wire) : wire'[n] = wire[n]
        /\ \A n \in Len(wire) + 1 .. Len(wire') :
             wire'[n] = [byte |-> s[n - Len(wire)], by |-> x, turn |-> turn[x], taken |-> ok]
    BY <1>3, <2>1, WireGrows
  <2>3. Len(wire) \in Nat /\ DOMAIN wire = 1 .. Len(wire) /\ DOMAIN wire' = 1 .. Len(wire')
    BY <2>1, <2>2
  <2>4. ASSUME NEW n \in Len(wire) + 1 .. Len(wire') PROVE wire'[n].taken = ok
    <3>1. wire'[n] = [byte |-> s[n - Len(wire)], by |-> x, turn |-> turn[x], taken |-> ok]
      BY <2>2, Zenon
    <3> QED
      BY <3>1
  <2>5. ASSUME NEW n \in DOMAIN wire'
        PROVE  n \in DOMAIN wire \/ n \in Len(wire) + 1 .. Len(wire')
    BY <2>3
  <2>6. ASSUME platform # "loong", NEW n \in DOMAIN wire' PROVE wire'[n].taken
    <3>1. CASE n \in DOMAIN wire
      BY <2>2, <2>3, <2>6, <3>1 DEF TakenInv
    <3>2. CASE n \in Len(wire) + 1 .. Len(wire')
      BY <1>3, <2>4, <2>6, <3>2
    <3> QED
      BY <2>5, <3>1, <3>2
  <2> QED
    BY <1>1, <2>6 DEF TakenInv
<1> QED
  BY <1>2, <1>3, WireSteps

\* Nothing has been handed to the UART in the beginning.
LEMMA TakenInvariance == Spec => []TakenInv
<1>1. Init => TakenInv
  BY DEF Init, TakenInv
<1> QED
  BY <1>1, TakenNext, Invariance, PTL DEF Spec

-----------------------------------------------------------------------------
(* Line ends.                                                              *)

\* Where the UART is used under its lock, only its owner writes to the wire.
LEMMA OnlyPutWrites ==
  ASSUME [Next]_vars, platform # "sbi"
  PROVE  UNCHANGED wire \/ \E x \in Context : Put(x)
<1>1. CASE UNCHANGED vars
  BY <1>1 DEF vars
<1>2. ASSUME NEW x \in Context, Begin(x) \/ Step(x)
      PROVE  UNCHANGED wire \/ Put(x)
  BY <1>2 DEF Begin, Step, LockConsole, NextPiece, UnlockConsole, WriteEnd, WaitUart, LockUart,
              SbiWrite, ReadBytes
<1>3. CASE EchoStep \/ Receive
  BY <1>3 DEF EchoStep, UartIrq, IsReceiveInterrupt, AckInterrupts, Echo, Receive
<1> QED
  BY <1>1, <1>2, <1>3 DEF Next

\* What a context is sending is changed by nobody else.
LEMMA OnlyOwnRaw ==
  ASSUME [Next]_vars, IInv, NEW x \in Context, pc'[x] = "put"
  PROVE  \/ LockUart(x) \/ Put(x)
         \/ pc[x] = "put" /\ raw'[x] = raw[x] /\ turn'[x] = turn[x]
<1> USE DEF Goto, IInv, TypeInv
<1>1. CASE UNCHANGED vars
  BY <1>1 DEF vars
<1>2. ASSUME NEW z \in Context, Begin(z)
      PROVE  pc[x] = "put" /\ raw'[x] = raw[x] /\ turn'[x] = turn[x]
  <2> DEFINE op == Jobs[z][turn[z] + 1].op
  <2>1. /\ pc' = [pc EXCEPT ![z] = IF op = "print" THEN "console" ELSE op]
        /\ turn' = [turn EXCEPT ![z] = @ + 1]
        /\ raw' = raw
        /\ turn[z] + 1 <= Len(Jobs[z]) /\ turn[z] + 1 \in Nat \ {0}
    BY SMTT(30), <1>2, JobsAssumption DEF Begin
  <2>2. op \in {"print", "write", "read"}
    BY <2>1, JobFacts
  <2> HIDE DEF op
  <2> QED
    BY <2>1, <2>2
<1>3. ASSUME NEW z \in Context, Step(z)
      PROVE  \/ LockUart(x) \/ Put(x)
             \/ pc[x] = "put" /\ raw'[x] = raw[x] /\ turn'[x] = turn[x]
  <2>1. CASE LockUart(z) \/ Put(z)
    <3>1. CASE z = x
      BY <2>1, <3>1
    <3>2. CASE z # x
      <4>1. turn' = turn /\ pc'[x] = pc[x]
        BY <2>1, <3>2 DEF LockUart, Put
      <4>2. raw'[x] = raw[x]
        BY <2>1, <3>2 DEF LockUart, Put, PutChar
      <4> QED
        BY <4>1, <4>2
    <3> QED
      BY <3>1, <3>2
  <2>2. CASE ~(LockUart(z) \/ Put(z))
    <3>1. raw' = raw /\ turn' = turn
      BY <1>3, <2>2 DEF Step, LockConsole, NextPiece, UnlockConsole, WriteEnd, WaitUart, SbiWrite,
                        ReadBytes
    <3>2. UNCHANGED pc \/ \E l \in Label \ {"put"} : pc' = [pc EXCEPT ![z] = l]
      BY <1>3, <2>2 DEF Step, LockConsole, NextPiece, UnlockConsole, WriteEnd, WaitUart, SbiWrite,
                        ReadBytes, Caller, Label
    <3> QED
      BY <3>1, <3>2
  <2> QED
    BY <2>1, <2>2
<1>4. CASE EchoStep \/ Receive
  BY <1>4, UartContext
     DEF EchoStep, UartIrq, IsReceiveInterrupt, AckInterrupts, Echo, Receive, EchoOrder
<1> QED
  BY <1>1, <1>2, <1>3, <1>4 DEF Next

\* putchar sends a line feed behind a carriage return only.
LEMMA ConvertLine ==
  ASSUME NEW b \in Byte, platform \in {"pl011", "loong", "dw"}, NEW s, s = Convert(b)
  PROVE  (Len(s) = 1 /\ s[1] # "nl") \/ s = <<"cr", "nl">>
<1>1. (s = <<b>> /\ b # "nl") \/ s = <<"cr", "nl">>
  BY DEF Convert
<1> QED
  BY <1>1

LEMMA LongLine ==
  ASSUME NEW s \in Seq(Byte), Len(s) > 1, Len(s) = 1 \/ s = <<"cr", "nl">> \/ s = <<"nl">>
  PROVE  s = <<"cr", "nl">>
<1>1. Len(<<"nl">>) = 1 /\ Len(s) \in Nat
  OBVIOUS
<1>2. ASSUME NEW n \in Nat, n > 1 PROVE ~(n = 1)
  BY <1>2
<1>3. ~(Len(s) = 1)
  BY <1>1, <1>2, Zenon
<1>4. s # <<"nl">>
  BY <1>1, <1>3, Zenon
<1> QED
  BY <1>3, <1>4, Zenon

LEMMA PutGrows ==
  ASSUME NEW x \in Context, IInv, Put(x)
  PROVE  /\ Len(wire') = Len(wire) + 1 /\ Len(wire) \in Nat
         /\ wire \in Seq(Entry) /\ wire' \in Seq(Entry)
         /\ \A n \in 1 .. Len(wire) : wire'[n] = wire[n]
         /\ wire'[Len(wire')].byte = Head(raw[x])
         /\ wire'[Len(wire')].by = x /\ wire'[Len(wire')].turn = turn[x]
<1> DEFINE s == <<Head(raw[x])>>
<1>1. s \in Seq(Byte) /\ Len(s) = 1 /\ s[1] = Head(raw[x])
  BY DEF Put, IInv, TypeInv, TextInv
<1>2. wire \in Seq(Entry) /\ turn \in [Context -> Nat] /\ Len(wire) \in Nat
  BY DEF IInv, TypeInv, Entry
<1>3. PICK ok \in BOOLEAN : wire' = wire \o Sent(x, s, ok)
  BY PutSends
<1> HIDE DEF s
<1>4. /\ wire' \in Seq(Entry)
      /\ Len(wire') = Len(wire) + Len(s)
      /\ \A n \in 1 .. Len(wire) : wire'[n] = wire[n]
      /\ \A n \in Len(wire) + 1 .. Len(wire') :
           wire'[n] = [byte |-> s[n - Len(wire)], by |-> x, turn |-> turn[x], taken |-> ok]
  BY <1>1, <1>2, <1>3, WireGrows
<1>5. Len(wire') \in Len(wire) + 1 .. Len(wire') /\ Len(wire') - Len(wire) = 1
  BY <1>1, <1>2, <1>4
<1>6. wire'[Len(wire')]
        = [byte |-> s[Len(wire') - Len(wire)], by |-> x, turn |-> turn[x], taken |-> ok]
  BY ONLY <1>4, <1>5, Zenon
<1>7. /\ wire'[Len(wire')].byte = s[Len(wire') - Len(wire)]
      /\ wire'[Len(wire')].by = x /\ wire'[Len(wire')].turn = turn[x]
  BY ONLY <1>6
<1> QED
  BY <1>1, <1>2, <1>4, <1>5, <1>7

LEMMA LineNext ==
  ASSUME IInv, LineInv, LinePairs, [Next]_vars
  PROVE  LineInv' /\ LinePairs'
<1>1. platform' = platform
  BY PlatformStays
<1>2. CASE platform \notin {"pl011", "loong", "dw"}
  BY <1>1, <1>2 DEF LineInv, LinePairs
<1>3. CASE platform \in {"pl011", "loong", "dw"} /\ UNCHANGED wire
  <2>1. LinePairs'
    BY <1>1, <1>3 DEF LinePairs
  <2>2. ASSUME NEW x \in Context, pc'[x] = "put"
        PROVE  \/ Len(raw'[x]) = 1 /\ raw'[x][1] # "nl"
               \/ raw'[x] = <<"cr", "nl">>
               \/ raw'[x] = <<"nl">> /\ wire # <<>> /\ CarriageReturn(x, wire[Len(wire)])'
    <3>1. CASE LockUart(x)
      <4>1. Head(bytes[x]) \in Byte
        BY <3>1 DEF LockUart, IInv, TypeInv, TextInv
      <4>2. raw'[x] = Convert(Head(bytes[x]))
        BY <3>1 DEF LockUart, PutChar, IInv, TypeInv
      <4> QED
        BY <1>3, <4>1, <4>2, ConvertLine
    <3>2. ~Put(x)
      <4>1. SUFFICES ASSUME Put(x) PROVE FALSE
        OBVIOUS
      <4>2. Len(wire') = Len(wire) + 1 /\ Len(wire) \in Nat
        BY <4>1, PutGrows
      <4>3. wire' = wire
        BY <1>3
      <4> HIDE <1>3
      <4> QED
        BY <4>2, <4>3
    <3>3. CASE pc[x] = "put" /\ raw'[x] = raw[x] /\ turn'[x] = turn[x]
      BY <1>3, <3>3 DEF LineInv, CarriageReturn
    <3> QED
      BY <2>2, <3>1, <3>2, <3>3, OnlyOwnRaw
  <2> QED
    BY <1>3, <2>1, <2>2 DEF LineInv
<1>4. ASSUME NEW x \in Context, Put(x), platform \in {"pl011", "loong", "dw"}
      PROVE  LineInv' /\ LinePairs'
  <2>1. Head(raw[x]) = raw[x][1]
    BY <1>4 DEF Put, IInv, TypeInv, TextInv
  <2>2. /\ Len(wire') = Len(wire) + 1 /\ Len(wire) \in Nat
        /\ wire \in Seq(Entry) /\ wire' \in Seq(Entry)
        /\ \A n \in 1 .. Len(wire) : wire'[n] = wire[n]
        /\ wire'[Len(wire')].byte = Head(raw[x])
        /\ wire'[Len(wire')].by = x /\ wire'[Len(wire')].turn = turn[x]
    BY <1>4, PutGrows
  <2>3. \/ Len(raw[x]) = 1 /\ raw[x][1] # "nl"
        \/ raw[x] = <<"cr", "nl">>
        \/ raw[x] = <<"nl">> /\ wire # <<>> /\ CarriageReturn(x, wire[Len(wire)])
    BY <1>4 DEF LineInv, Put
  <2>4. LinePairs'
    <3> SUFFICES ASSUME NEW n \in 1 .. Len(wire'), wire'[n].byte = "nl"
                 PROVE  n > 1 /\ wire'[n - 1].byte = "cr" /\ SameCall(wire'[n - 1], wire'[n])
      BY <2>2 DEF LinePairs, SameCall
    <3>1. CASE n \in 1 .. Len(wire)
      <4>d. n \in DOMAIN wire /\ wire[n].byte = "nl"
        BY <2>2, <3>1
      <4>1. n > 1 /\ wire[n - 1].byte = "cr" /\ SameCall(wire[n - 1], wire[n])
        BY <1>4, <4>d DEF LinePairs
      <4>2. n - 1 \in 1 .. Len(wire)
        BY <2>2, <3>1, <4>1
      <4> QED
        BY <2>2, <3>1, <4>1, <4>2
    <3>2. CASE n = Len(wire')
      <4>1. Head(raw[x]) = "nl"
        BY <2>2, <3>2
      <4>2. wire # <<>> /\ CarriageReturn(x, wire[Len(wire)])
        BY <2>1, <2>3, <4>1
      <4>3. Len(wire) \in 1 .. Len(wire)
        BY <2>2, <4>2
      <4>4. n - 1 = Len(wire) /\ n > 1
        BY <2>2, <3>2, <4>3
      <4> QED
        BY <2>2, <3>2, <4>2, <4>3, <4>4 DEF CarriageReturn, SameCall
    <3> QED
      BY <2>2, <3>1, <3>2
  <2>5. LineInv'
    <3> SUFFICES ASSUME NEW y \in Context, pc'[y] = "put"
                 PROVE  \/ Len(raw'[y]) = 1 /\ raw'[y][1] # "nl"
                        \/ raw'[y] = <<"cr", "nl">>
                        \/ raw'[y] = <<"nl">> /\ wire' # <<>> /\ CarriageReturn(y, wire[Len(wire)])'
      BY DEF LineInv
    <3>1. y = x
      <4>1. uart = x /\ pc[x] = "put"
        BY <1>4 DEF Put, IInv, LockInv
      <4>2. y # x => pc'[y] = pc[y]
        BY <1>4 DEF Put, Goto, IInv, TypeInv
      <4> QED
        BY <4>1, <4>2 DEF IInv, LockInv
    <3>2. turn' = turn
      BY <1>4 DEF Put
    <3>3. CASE Len(raw[x]) > 1 /\ raw' = [raw EXCEPT ![x] = Tail(@)]
      <4>1. raw[x] = <<"cr", "nl">>
        BY <2>3, <3>3, LongLine DEF IInv, TypeInv
      <4>2. raw'[x] = <<"nl">>
        BY <3>3, <4>1 DEF IInv, TypeInv
      <4>3. CarriageReturn(x, wire[Len(wire)])'
        BY <2>2, <3>2, <4>1 DEF CarriageReturn
      <4>4. wire' # <<>>
        BY <2>2
      <4> QED
        BY <3>1, <4>2, <4>3, <4>4
    <3>4. CASE SameGuard(x) /\ PutChar(x)
      <4>1. Head(bytes[x]) \in Byte
        BY <3>4 DEF SameGuard, IInv, TypeInv
      <4>2. raw'[x] = Convert(Head(bytes[x]))
        BY <3>4 DEF PutChar, IInv, TypeInv
      <4> QED
        BY <1>4, <3>1, <4>1, <4>2, ConvertLine
    <3>5. CASE Goto(x, "write")
      BY <3>1, <3>5 DEF Goto, IInv, TypeInv
    <3> QED
      BY <1>4, <3>3, <3>4, <3>5 DEF Put
  <2> QED
    BY <2>4, <2>5
<1>5. platform \in {"pl011", "loong", "dw"} => UNCHANGED wire \/ \E x \in Context : Put(x)
  BY OnlyPutWrites
<1> QED
  BY <1>2, <1>3, <1>4, <1>5

\* Every line feed is handed to the UART right behind the carriage return that
\* was sent for it: nobody else writes while the UART's lock is held.
THEOREM LinesEnd == Spec => []LineEnds
<1>1. Init => LineInv /\ LinePairs
  BY DEF Init, LineInv, LinePairs
<1>2. IInv /\ (LineInv /\ LinePairs) /\ [Next]_vars => (LineInv /\ LinePairs)'
  BY LineNext
<1>3. IInv /\ LinePairs /\ TakenInv => LineEnds
  <2> SUFFICES ASSUME IInv, LinePairs, TakenInv PROVE LineEnds
    OBVIOUS
  <2>1. wire \in Seq(Entry)
    BY DEF IInv, TypeInv, Entry
  <2>2. ASSUME NEW n \in DOMAIN wire, n > 1 PROVE n - 1 \in DOMAIN wire
    BY <2>1, <2>2
  <2> QED
    BY <2>2 DEF LinePairs, TakenInv, LineEnds
<1> QED
  BY <1>1, <1>2, <1>3, Invariance, TakenInvariance, PTL DEF Spec

-----------------------------------------------------------------------------
(* Prints are not mixed.                                                   *)

\* What a step may do to the calls of a context and to CONSOLE_LOCK.
CallStep(y) ==
    /\ turn'[y] \in {turn[y], turn[y] + 1}
    /\ pc'[y] = "console" => turn'[y] = turn[y] + 1 \/ (turn'[y] = turn[y] /\ pc[y] = "console")
    /\ console' = y => console = y \/ (turn'[y] = turn[y] /\ pc[y] = "console")

LEMMA CallSteps == ASSUME IInv, [Next]_vars, NEW y \in Context PROVE CallStep(y)
<1> USE DEF Goto
<1>1. CASE EchoStep \/ Receive \/ UNCHANGED vars
  <2>1. UNCHANGED <<turn, console>> /\ (pc'[y] = "console" => pc[y] = "console")
    BY <1>1 DEF EchoStep, UartIrq, IsReceiveInterrupt, AckInterrupts, Echo, Receive, vars, EchoOrder,
                IInv, TypeInv
  <2> QED
    BY <2>1 DEF CallStep
<1>2. ASSUME NEW x \in Context, Begin(x) PROVE CallStep(y)
  <2>1. /\ turn' = [turn EXCEPT ![x] = @ + 1]
        /\ console' = console
        /\ \A z \in Context \ {x} : pc'[z] = pc[z]
    BY <1>2 DEF Begin, IInv, TypeInv
  <2> QED
    BY <2>1 DEF CallStep, IInv, TypeInv
<1>3. ASSUME NEW x \in Context, Step(x) PROVE CallStep(y)
  <2>1. turn' = turn
    BY <1>3 DEF Step, LockConsole, NextPiece, UnlockConsole, WriteEnd, WaitUart, LockUart, Put,
                SbiWrite, ReadBytes
  <2>2. console' = console \/ console' = None \/ LockConsole(x)
    BY <1>3 DEF Step, NextPiece, UnlockConsole, WriteEnd, WaitUart, LockUart, Put, SbiWrite, ReadBytes
  <2>3. LockConsole(x) => console' = x /\ pc[x] = "console"
    BY DEF LockConsole
  <2>4. pc'[y] = "console" => pc[y] = "console"
    BY <1>3 DEF Step, LockConsole, NextPiece, UnlockConsole, WriteEnd, WaitUart, LockUart, Put,
                SbiWrite, ReadBytes, Caller, IInv, TypeInv
  <2>5. y # None
    BY ContextAssumption
  <2> QED
    BY <2>1, <2>2, <2>3, <2>4, <2>5 DEF CallStep
<1> QED
  BY <1>1, <1>2, <1>3 DEF Next

LEMMA ClosedNext ==
  ASSUME IInv, ClosedInv, NoMixing, [Next]_vars
  PROVE  ClosedInv' /\ NoMixing'
<1>1. /\ wire \in Seq(Entry) /\ turn \in [Context -> Nat] /\ Len(wire) \in Nat
      /\ DOMAIN wire = 1 .. Len(wire)
      /\ \A n \in 1 .. Len(wire) : /\ wire[n].by \in Context /\ wire[n].turn \in Nat
  <2>1. wire \in Seq(Entry) /\ turn \in [Context -> Nat]
    BY DEF IInv, TypeInv, Entry
  <2>2. \A n \in 1 .. Len(wire) : wire[n] \in Entry
    BY <2>1
  <2>3. Len(wire) \in Nat /\ DOMAIN wire = 1 .. Len(wire)
    BY <2>1
  <2> QED
    BY <2>1, <2>2, <2>3 DEF Entry
<1>2. CASE UNCHANGED wire
  <2>1. NoMixing'
    BY <1>2 DEF NoMixing
  <2>2. ASSUME NEW n \in DOMAIN wire
        PROVE  wire[n].turn <= turn'[wire[n].by]
    <3>1. CallStep(wire[n].by) /\ wire[n].turn <= turn[wire[n].by] /\ turn[wire[n].by] \in Nat
      BY <1>1, CallSteps DEF ClosedInv
    <3> QED
      BY <1>1, <3>1 DEF CallStep
  <2>3. ASSUME NEW n \in DOMAIN wire, pc'[wire[n].by] = "console"
        PROVE  wire[n].turn # turn'[wire[n].by]
    <3>1. CallStep(wire[n].by) /\ wire[n].turn <= turn[wire[n].by] /\ turn[wire[n].by] \in Nat
      BY <1>1, CallSteps DEF ClosedInv
    <3>2. pc[wire[n].by] = "console" => wire[n].turn # turn[wire[n].by]
      BY DEF ClosedInv
    <3> QED
      BY <1>1, <2>3, <3>1, <3>2 DEF CallStep
  <2>4. ASSUME NEW n \in DOMAIN wire, console' = wire[n].by, turn'[wire[n].by] = wire[n].turn
        PROVE  Active(wire[n])
    <3>1. CallStep(wire[n].by) /\ wire[n].turn <= turn[wire[n].by] /\ turn[wire[n].by] \in Nat
      BY <1>1, CallSteps DEF ClosedInv
    <3>2. pc[wire[n].by] = "console" => wire[n].turn # turn[wire[n].by]
      BY DEF ClosedInv
    <3>3. turn'[wire[n].by] = turn[wire[n].by]
      BY <1>1, <2>4, <3>1 DEF CallStep
    <3>4. console = wire[n].by
      BY <2>4, <3>1, <3>2, <3>3 DEF CallStep
    <3> QED
      BY <2>4, <3>3, <3>4 DEF Active
  <2>5. ASSUME NEW k \in DOMAIN wire, NEW l \in DOMAIN wire, k < l,
               IsPrint(wire[k]), IsPrint(wire[l]), ~SameCall(wire[k], wire[l])
        PROVE  ~(console' = wire[k].by /\ turn'[wire[k].by] = wire[k].turn)
    BY <2>4, <2>5 DEF ClosedInv
  <2>6. ClosedInv'
    BY <1>2, <2>2, <2>3, <2>5 DEF ClosedInv, Active, IsPrint, SameCall
  <2> QED
    BY <2>1, <2>6
<1>3. ASSUME NEW x \in Context, NEW s \in Seq(Byte), NEW ok \in BOOLEAN,
             wire' = wire \o Sent(x, s, ok),
             pc[x] \in {"put", "write"},
             UNCHANGED <<turn, console>>,
             \A y \in Context : pc'[y] = "console" => pc[y] = "console" /\ y # x
      PROVE  ClosedInv' /\ NoMixing'
  <2>1. /\ Len(wire') \in Nat /\ DOMAIN wire' = 1 .. Len(wire')
        /\ \A n \in 1 .. Len(wire) : wire'[n] = wire[n]
        /\ \A n \in DOMAIN wire' : n \in DOMAIN wire \/ (wire'[n].by = x /\ wire'[n].turn = turn[x])
        /\ \A k \in DOMAIN wire' : \A l \in DOMAIN wire : k < l => k \in DOMAIN wire
    <3>1. /\ wire' \in Seq(Entry)
          /\ Len(wire') = Len(wire) + Len(s)
          /\ \A n \in 1 .. Len(wire) : wire'[n] = wire[n]
          /\ \A n \in Len(wire) + 1 .. Len(wire') :
               wire'[n] = [byte |-> s[n - Len(wire)], by |-> x, turn |-> turn[x], taken |-> ok]
      BY <1>1, <1>3, WireGrows
    <3>2. Len(wire') \in Nat /\ DOMAIN wire' = 1 .. Len(wire')
      BY <3>1
    <3>3. ASSUME NEW n \in DOMAIN wire', n \notin DOMAIN wire
          PROVE  wire'[n].by = x /\ wire'[n].turn = turn[x]
      <4>1. n \in Len(wire) + 1 .. Len(wire')
        BY <1>1, <3>2, <3>3
      <4>2. wire'[n] = [byte |-> s[n - Len(wire)], by |-> x, turn |-> turn[x], taken |-> ok]
        BY <3>1, <4>1, Zenon
      <4> QED
        BY <4>2
    <3>4. \A k \in DOMAIN wire' : \A l \in DOMAIN wire : k < l => k \in DOMAIN wire
      BY <1>1, <3>2
    <3> QED
      BY <3>1, <3>2, <3>3, <3>4
  <2>2. ASSUME NEW n \in DOMAIN wire', n \notin DOMAIN wire, IsPrint(wire'[n])
        PROVE  console = x
    <3>1. x # Uart /\ Job(x).op = "print"
      BY <2>1, <2>2 DEF IsPrint, Job
    <3> QED
      BY <1>3, <3>1 DEF IInv, LockInv, Printing
  <2>3. ASSUME NEW n \in DOMAIN wire' PROVE wire'[n].turn <= turn'[wire'[n].by]
    BY <1>1, <1>3, <2>1 DEF ClosedInv
  <2>4. ASSUME NEW n \in DOMAIN wire', pc'[wire'[n].by] = "console"
        PROVE  wire'[n].turn # turn'[wire'[n].by]
    BY <1>1, <1>3, <2>1, <2>4 DEF ClosedInv
  <2>5. ASSUME NEW k \in DOMAIN wire', NEW l \in DOMAIN wire', k < l,
               IsPrint(wire'[k]), IsPrint(wire'[l]), ~SameCall(wire'[k], wire'[l])
        PROVE  ~Active(wire'[k])
    <3>1. CASE l \in DOMAIN wire
      <4>1. k \in DOMAIN wire /\ wire'[k] = wire[k] /\ wire'[l] = wire[l]
        BY <1>1, <2>1, <2>5, <3>1
      <4> QED
        BY <2>5, <3>1, <4>1 DEF ClosedInv
    <3>2. CASE l \notin DOMAIN wire
      <4>1. console = x /\ wire'[l].by = x /\ wire'[l].turn = turn[x]
        BY <2>1, <2>2, <2>5, <3>2
      <4> QED
        BY <2>5, <4>1 DEF Active, SameCall
    <3> QED
      BY <3>1, <3>2
  <2>6. ClosedInv'
    BY <1>3, <2>3, <2>4, <2>5 DEF ClosedInv, Active, IsPrint, SameCall
  <2>7. ASSUME NEW k \in DOMAIN wire', NEW l \in DOMAIN wire', NEW m \in DOMAIN wire',
               k < l, l < m, IsPrint(wire'[k]), IsPrint(wire'[l]), SameCall(wire'[k], wire'[m])
        PROVE  SameCall(wire'[k], wire'[l])
    <3>1. CASE m \in DOMAIN wire
      <4>1. l \in DOMAIN wire
        BY <2>1, <2>7, <3>1
      <4>2. k \in DOMAIN wire
        BY <2>1, <2>7, <4>1
      <4>3. wire'[k] = wire[k] /\ wire'[l] = wire[l] /\ wire'[m] = wire[m]
        BY <1>1, <2>1, <3>1, <4>1, <4>2
      <4> QED
        BY <2>7, <3>1, <4>1, <4>2, <4>3 DEF NoMixing
    <3>2. CASE m \notin DOMAIN wire
      <4>1. wire'[m].by = x /\ wire'[m].turn = turn[x]
        BY <2>1, <3>2
      <4>2. IsPrint(wire'[m])
        BY <2>7 DEF IsPrint, SameCall
      <4>3. Active(wire'[k])
        BY <2>2, <2>7, <3>2, <4>1, <4>2 DEF Active, SameCall
      <4> QED
        BY <2>5, <2>7, <4>3
    <3> QED
      BY <3>1, <3>2
  <2>8. NoMixing'
    BY <2>7 DEF NoMixing, IsPrint, SameCall
  <2> QED
    BY <2>6, <2>8
<1> QED
  BY <1>2, <1>3, WireSteps

\* No print has a byte of another one inside it, whatever write_bytes of the
\* platform does with its own lock.
THEOREM PrintsAreNotMixed == Spec => []NoMixing
<1>1. Init => ClosedInv /\ NoMixing
  BY DEF Init, ClosedInv, NoMixing
<1>2. IInv /\ (ClosedInv /\ NoMixing) /\ [Next]_vars => (ClosedInv /\ NoMixing)'
  BY ClosedNext
<1> QED
  BY <1>1, <1>2, Invariance, PTL DEF Spec

-----------------------------------------------------------------------------
(* What putchar makes of a text, and what of it is on the wire.            *)

LEMMA ConvertIsMap == ASSUME NEW p PROVE IsMap(ConvertOn(p), Byte, Seq(Byte))
<1>1. ASSUME NEW b \in Byte PROVE <<b>> \in Seq(Byte)
  OBVIOUS
<1>2. <<"cr", "nl">> \in Seq(Byte)
  BY DEF Byte
<1>3. ASSUME NEW b \in Byte
      PROVE  (CASE p \in {"pl011", "loong"} /\ b = "nl" -> <<"cr", "nl">>
                [] p = "dw" /\ b \in {"cr", "nl"} -> <<"cr", "nl">>
                [] OTHER -> <<b>>) \in Seq(Byte)
  BY <1>1, <1>2
<1> QED
  BY <1>3 DEF ConvertOn, IsMap

LEMMA OfCallIsMap == ASSUME NEW x, NEW k PROVE IsMap(OfCall(x, k), Entry, Seq(Byte))
<1>1. ASSUME NEW b \in Byte PROVE <<b>> \in Seq(Byte)
  OBVIOUS
<1>2. <<>> \in Seq(Byte)
  OBVIOUS
<1>3. ASSUME NEW e \in Entry
      PROVE  (IF e.by = x /\ e.turn = k THEN <<e.byte>> ELSE <<>>) \in Seq(Byte)
  <2>1. e.byte \in Byte
    BY DEF Entry
  <2> QED
    BY <1>1, <1>2, <2>1
<1> HIDE DEF Entry
<1> QED
  BY <1>3 DEF OfCall, IsMap

LEMMA EncodeType == ASSUME NEW p, NEW s \in Seq(Byte) PROVE EncodeOn(p, s) \in Seq(Byte)
BY ConvertIsMap, FlatMapType DEF EncodeOn

LEMMA EncodeEmpty == ASSUME NEW p PROVE EncodeOn(p, <<>>) = <<>>
BY FlatMapEmpty DEF EncodeOn

LEMMA EncodeHeadTail ==
  ASSUME NEW p, NEW s \in Seq(Byte), s # <<>>
  PROVE  EncodeOn(p, s) = ConvertOn(p)[Head(s)] \o EncodeOn(p, Tail(s))
BY ConvertIsMap, FlatMapHeadTail DEF EncodeOn

LEMMA EncodeConcat ==
  ASSUME NEW p, NEW s \in Seq(Byte), NEW t \in Seq(Byte)
  PROVE  EncodeOn(p, s \o t) = EncodeOn(p, s) \o EncodeOn(p, t)
BY ConvertIsMap, FlatMapConcat DEF EncodeOn

\* The firmware gets the text as it is.
LEMMA EncodeSbi == ASSUME NEW s \in Seq(Byte) PROVE EncodeOn("sbi", s) = s
<1>1. \A b \in Byte : ConvertOn("sbi")[b] = <<b>>
  BY DEF ConvertOn
<1>2. \A n \in 1 .. Len(s) : s[n] \in Byte
  OBVIOUS
<1>3. Mapped(ConvertOn("sbi"), s) = [n \in 1 .. Len(s) |-> <<s[n]>>]
  BY <1>1, <1>2 DEF Mapped
<1> QED
  BY <1>3, FlattenSingles DEF EncodeOn, FlatMap

LEMMA EncodeIs == ASSUME NEW s \in Seq(Byte) PROVE Encode(s) = EncodeOn(platform, s)
<1>1. \A b \in Byte : ConvertOn(platform)[b] = Convert(b)
  BY DEF ConvertOn, Convert
<1>2. \A n \in 1 .. Len(s) : s[n] \in Byte
  OBVIOUS
<1>3. Mapped(ConvertOn(platform), s) = [n \in 1 .. Len(s) |-> Convert(s[n])]
  BY <1>1, <1>2 DEF Mapped
<1> QED
  BY <1>3 DEF Encode, EncodeOn, FlatMap

LEMMA HandedIs ==
  ASSUME wire \in Seq(Entry), NEW x, NEW k
  PROVE  Handed(x, k) = HandedOn(wire, x, k)
<1>1. \A n \in 1 .. Len(wire) : wire[n] \in Entry
  BY ElementOfSeq
<1>2. Mapped(OfCall(x, k), wire)
        = [n \in 1 .. Len(wire) |-> IF wire[n].by = x /\ wire[n].turn = k THEN <<wire[n].byte>> ELSE <<>>]
  <2> HIDE DEF Entry
  <2> QED
    BY <1>1 DEF Mapped, OfCall
<1> QED
  BY <1>2 DEF Handed, HandedOn, FlatMap

LEMMA WrittenIs ==
  ASSUME wire \in Seq(Entry), \A n \in DOMAIN wire : wire[n].taken, NEW x, NEW k
  PROVE  Written(x, k) = Handed(x, k)
<1>1. DOMAIN wire = 1 .. Len(wire)
  BY LenProperties
<1>2. \A n \in 1 .. Len(wire) :
        (IF wire[n].by = x /\ wire[n].turn = k /\ wire[n].taken THEN <<wire[n].byte>> ELSE <<>>)
          = (IF wire[n].by = x /\ wire[n].turn = k THEN <<wire[n].byte>> ELSE <<>>)
  BY <1>1, Zenon
<1>3. [n \in 1 .. Len(wire) |-> IF wire[n].by = x /\ wire[n].turn = k /\ wire[n].taken
                                THEN <<wire[n].byte>> ELSE <<>>]
        = [n \in 1 .. Len(wire) |-> IF wire[n].by = x /\ wire[n].turn = k
                                    THEN <<wire[n].byte>> ELSE <<>>]
  BY <1>2, Zenon
<1> QED
  BY <1>3 DEF Written, Handed

LEMMA HandedType ==
  ASSUME NEW w \in Seq(Entry), NEW x, NEW k
  PROVE  HandedOn(w, x, k) \in Seq(Byte)
BY OfCallIsMap, FlatMapType DEF HandedOn

\* A call that has not begun has handed over nothing.
LEMMA HandedNone ==
  ASSUME NEW w \in Seq(Entry), NEW x, NEW k,
         \A n \in 1 .. Len(w) : ~(w[n].by = x /\ w[n].turn = k)
  PROVE  HandedOn(w, x, k) = <<>>
<1>1. Len(w) \in Nat /\ \A n \in 1 .. Len(w) : w[n] \in Entry
  BY LenProperties, ElementOfSeq
<1>2. Mapped(OfCall(x, k), w) = [n \in 1 .. Len(w) |-> <<>>]
  <2> HIDE DEF Entry
  <2> QED
    BY <1>1 DEF Mapped, OfCall
<1> QED
  BY <1>1, <1>2, FlattenEmpties DEF HandedOn, FlatMap

LEMMA HandedSent ==
  ASSUME NEW x \in Context, NEW s \in Seq(Byte), NEW ok \in BOOLEAN, turn \in [Context -> Nat],
         NEW y, NEW k
  PROVE  HandedOn(Sent(x, s, ok), y, k) = IF y = x /\ k = turn[x] THEN s ELSE <<>>
<1> DEFINE t == Sent(x, s, ok)
<1>1. /\ t \in Seq(Entry) /\ Len(t) = Len(s)
      /\ \A n \in 1 .. Len(s) : t[n] = [byte |-> s[n], by |-> x, turn |-> turn[x], taken |-> ok]
  BY SentType
<1> HIDE DEF t
<1>2. ASSUME NEW n \in 1 .. Len(s)
      PROVE  t[n].byte = s[n] /\ t[n].by = x /\ t[n].turn = turn[x]
  <2>1. t[n] = [byte |-> s[n], by |-> x, turn |-> turn[x], taken |-> ok]
    BY <1>1, Zenon
  <2> QED
    BY <2>1
<1>3. CASE y = x /\ k = turn[x]
  <2>1. \A n \in 1 .. Len(s) : OfCall(y, k)[t[n]] = <<s[n]>>
    <3>1. \A n \in 1 .. Len(s) : t[n] \in Entry
      BY <1>1, ElementOfSeq
    <3> HIDE DEF Entry
    <3> QED
      BY <1>2, <1>3, <3>1 DEF OfCall
  <2>2. Mapped(OfCall(y, k), t) = [n \in 1 .. Len(s) |-> <<s[n]>>]
    BY <1>1, <2>1 DEF Mapped
  <2> QED
    BY <1>3, <2>2, FlattenSingles DEF HandedOn, FlatMap, t
<1>4. CASE ~(y = x /\ k = turn[x])
  <2>1. \A n \in 1 .. Len(t) : ~(t[n].by = y /\ t[n].turn = k)
    BY <1>1, <1>2, <1>4
  <2>2. HandedOn(t, y, k) = <<>>
    BY <1>1, <2>1, HandedNone
  <2> QED
    BY <1>4, <2>2 DEF t
<1> QED
  BY <1>3, <1>4

\* What a context sends is added to what its call has written, and to nothing
\* else.
LEMMA HandedGrows ==
  ASSUME NEW x \in Context, NEW s \in Seq(Byte), NEW ok \in BOOLEAN, turn \in [Context -> Nat],
         wire \in Seq(Entry), wire' = wire \o Sent(x, s, ok), NEW y, NEW k
  PROVE  HandedOn(wire', y, k) = IF y = x /\ k = turn[x] THEN HandedOn(wire, y, k) \o s
                                                         ELSE HandedOn(wire, y, k)
<1>1. Sent(x, s, ok) \in Seq(Entry)
  BY SentType
<1>2. HandedOn(wire \o Sent(x, s, ok), y, k) = HandedOn(wire, y, k) \o HandedOn(Sent(x, s, ok), y, k)
  <2>1. \A v, w \in Seq(Entry) : HandedOn(v \o w, y, k) = HandedOn(v, y, k) \o HandedOn(w, y, k)
    BY OfCallIsMap, FlatMapConcat DEF HandedOn
  <2> QED
    BY <1>1, <2>1
<1>3. HandedOn(Sent(x, s, ok), y, k) = IF y = x /\ k = turn[x] THEN s ELSE <<>>
  BY HandedSent
<1>4. HandedOn(wire, y, k) \o <<>> = HandedOn(wire, y, k)
  BY HandedType, ConcatEmptySeq
<1> QED
  BY <1>2, <1>3, <1>4

\* What a context sends in one call is nothing another context, or another call
\* of its own, has handed over.
LEMMA HandedElsewhere ==
  ASSUME NEW x \in Context, NEW s \in Seq(Byte), NEW ok \in BOOLEAN, turn \in [Context -> Nat],
         wire \in Seq(Entry), wire' = wire \o Sent(x, s, ok),
         NEW y, NEW k, ~(y = x /\ k = turn[x])
  PROVE  HandedOn(wire', y, k) = HandedOn(wire, y, k)
BY SMTT(30), HandedGrows

-----------------------------------------------------------------------------
(* How a text moves to the wire.                                           *)

LEMMA RestType ==
  ASSUME NEW p, NEW b \in Seq(Byte), NEW q \in Seq(Seq(Byte))
  PROVE  /\ EncodeOn(p, b) \in Seq(Byte)
         /\ FlattenSeq(q) \in Seq(Byte)
         /\ EncodeOn(p, FlattenSeq(q)) \in Seq(Byte)
         /\ EncodeOn(p, b) \o EncodeOn(p, FlattenSeq(q)) \in Seq(Byte)
<1>1. EncodeOn(p, b) \in Seq(Byte) /\ FlattenSeq(q) \in Seq(Byte)
  BY EncodeType, FlattenType
<1>2. EncodeOn(p, FlattenSeq(q)) \in Seq(Byte)
  BY <1>1, EncodeType
<1> QED
  BY <1>1, <1>2, ConcatProperties

\* write_fmt takes the next piece.
LEMMA RestPiece ==
  ASSUME NEW p, NEW r, NEW q \in Seq(Seq(Byte)), q # <<>>
  PROVE  RestOn(p, r, Head(q), Tail(q)) = RestOn(p, r, <<>>, q)
<1> DEFINE h == Head(q)
           f == FlattenSeq(Tail(q))
<1>1. h \in Seq(Byte) /\ Tail(q) \in Seq(Seq(Byte))
  OBVIOUS
<1>2. f \in Seq(Byte) /\ FlattenSeq(q) = h \o f
  BY <1>1, FlattenType, FlattenHeadTail
<1> HIDE DEF h, f
<1>3. EncodeOn(p, h \o f) = EncodeOn(p, h) \o EncodeOn(p, f)
  BY <1>1, <1>2, EncodeConcat
<1>4. EncodeOn(p, FlattenSeq(q)) \in Seq(Byte)
  BY FlattenType, EncodeType
<1>5. EncodeOn(p, <<>>) \o EncodeOn(p, FlattenSeq(q)) = EncodeOn(p, FlattenSeq(q))
  BY <1>4, EncodeEmpty, ConcatEmptySeq
<1> QED
  BY <1>2, <1>3, <1>5 DEF RestOn, h, f

\* putchar takes the next byte.
LEMMA RestChar ==
  ASSUME NEW p, NEW b \in Seq(Byte), b # <<>>, NEW q \in Seq(Seq(Byte))
  PROVE  RestOn(p, ConvertOn(p)[Head(b)], Tail(b), q) = RestOn(p, <<>>, b, q)
<1> DEFINE c == ConvertOn(p)[Head(b)]
           e == EncodeOn(p, Tail(b))
           f == EncodeOn(p, FlattenSeq(q))
<1>1. Head(b) \in Byte /\ Tail(b) \in Seq(Byte)
  OBVIOUS
<1>2. c \in Seq(Byte)
  BY <1>1, ConvertIsMap DEF IsMap
<1>3. e \in Seq(Byte) /\ f \in Seq(Byte)
  BY <1>1, RestType
<1>4. EncodeOn(p, b) = c \o e
  BY EncodeHeadTail
<1> HIDE DEF c, e, f
<1>5. c \o (e \o f) = (c \o e) \o f
  <2>1. Associates(c, e, f)
    BY <1>2, <1>3, ConcatAssociates, Zenon
  <2> QED
    BY <2>1 DEF Associates
<1>6. (c \o e) \o f \in Seq(Byte)
  BY <1>2, <1>3, ConcatProperties
<1>7. <<>> \o ((c \o e) \o f) = (c \o e) \o f
  BY <1>6, ConcatEmptySeq
<1> QED
  BY <1>4, <1>5, <1>7 DEF RestOn, c, e, f

\* The UART takes one byte.
LEMMA RestByte ==
  ASSUME NEW p, NEW w \in Seq(Byte), NEW r \in Seq(Byte), r # <<>>,
         NEW b \in Seq(Byte), NEW q \in Seq(Seq(Byte))
  PROVE  (w \o <<Head(r)>>) \o RestOn(p, Tail(r), b, q) = w \o RestOn(p, r, b, q)
<1> DEFINE e == EncodeOn(p, b) \o EncodeOn(p, FlattenSeq(q))
           h == <<Head(r)>>
           t == Tail(r)
<1>1. e \in Seq(Byte)
  BY RestType
<1>2. h \in Seq(Byte) /\ t \in Seq(Byte) /\ r = h \o t
  OBVIOUS
<1> HIDE DEF e, h, t
<1>3. t \o e \in Seq(Byte)
  BY <1>1, <1>2, ConcatProperties
<1>4. Associates(w, h, t \o e) /\ Associates(h, t, e)
  BY <1>1, <1>2, <1>3, ConcatAssociates, Zenon
<1>5. (w \o h) \o (t \o e) = w \o (h \o (t \o e)) /\ h \o (t \o e) = (h \o t) \o e
  BY <1>4 DEF Associates
<1>6. (w \o h) \o (t \o e) = w \o (r \o e)
  BY <1>2, <1>5
<1> QED
  BY <1>6 DEF RestOn, e, h, t

\* The firmware takes some bytes.
LEMMA RestSbi ==
  ASSUME NEW w \in Seq(Byte), NEW h \in Seq(Byte), NEW t \in Seq(Byte), NEW q \in Seq(Seq(Byte))
  PROVE  (w \o h) \o RestOn("sbi", <<>>, t, q) = w \o RestOn("sbi", <<>>, h \o t, q)
<1> DEFINE f == EncodeOn("sbi", FlattenSeq(q))
<1>1. f \in Seq(Byte)
  BY RestType
<1>2. h \o t \in Seq(Byte)
  BY ConcatProperties
<1>3. EncodeOn("sbi", t) = t /\ EncodeOn("sbi", h \o t) = h \o t
  BY <1>2, EncodeSbi
<1> HIDE DEF f
<1>4. t \o f \in Seq(Byte) /\ (h \o t) \o f \in Seq(Byte)
  BY <1>1, <1>2, ConcatProperties
<1>5. <<>> \o (t \o f) = t \o f /\ <<>> \o ((h \o t) \o f) = (h \o t) \o f
  BY <1>4, ConcatEmptySeq
<1>6. Associates(w, h, t \o f) /\ Associates(h, t, f)
  BY <1>1, <1>4, ConcatAssociates, Zenon
<1>7. (w \o h) \o (t \o f) = w \o (h \o (t \o f)) /\ h \o (t \o f) = (h \o t) \o f
  BY <1>6 DEF Associates
<1>8. (w \o h) \o (<<>> \o (t \o f)) = w \o (<<>> \o ((h \o t) \o f))
  BY <1>5, <1>7
<1> QED
  BY <1>3, <1>8 DEF RestOn, f

LEMMA FlattenSingle ==
  ASSUME NEW q \in Seq(Seq(Byte)), Len(q) = 1
  PROVE  FlattenSeq(q) = q[1]
<1>1. q[1] \in Seq(Byte)
  OBVIOUS
<1>2. q = <<q[1]>>
  BY <1>1
<1>3. FlattenSeq(<<q[1]>>) = q[1]
  BY <1>1, FlattenOne
<1> QED
  BY <1>2, <1>3

\* Nothing is left.
LEMMA RestNothing == ASSUME NEW p PROVE RestOn(p, <<>>, <<>>, <<>>) = <<>>
<1>1. <<>> \o (<<>> \o <<>>) = <<>>
  OBVIOUS
<1> QED
  BY <1>1, EncodeEmpty, FlattenEmpty DEF RestOn

-----------------------------------------------------------------------------
(* Every text goes out.                                                    *)

\* What is on the wire of the current call of x, and what is left of it.
Total(x) == HandedOn(wire, x, turn[x]) \o RestOn(platform, raw[x], bytes[x], pieces[x])

LEMMA TextTypes ==
  ASSUME IInv, NEW x \in Context
  PROVE  /\ raw[x] \in Seq(Byte) /\ bytes[x] \in Seq(Byte) /\ pieces[x] \in Seq(Seq(Byte))
         /\ wire \in Seq(Entry) /\ turn \in [Context -> Nat] /\ turn[x] \in Nat
         /\ \A k : HandedOn(wire, x, k) \in Seq(Byte)
<1>1. wire \in Seq(Entry)
  BY DEF IInv, TypeInv, Entry
<1>2. \A k : HandedOn(wire, x, k) \in Seq(Byte)
  BY <1>1, HandedType
<1> QED
  BY <1>1, <1>2 DEF IInv, TypeInv

LEMMA NextPieceTotal == ASSUME IInv, NEW x \in Context, NextPiece(x) PROVE Total(x)' = Total(x)
<1>1. bytes[x] = <<>> /\ x # Uart
  BY DEF NextPiece, IInv, TextInv, PlaceInv
<1>2. /\ pieces[x] # <<>> /\ pieces'[x] = Tail(pieces[x]) /\ bytes'[x] = Head(pieces[x])
      /\ raw' = raw /\ wire' = wire /\ turn' = turn /\ platform' = platform
  BY DEF NextPiece, IInv, TypeInv
<1>3. RestOn(platform, raw[x], Head(pieces[x]), Tail(pieces[x]))
        = RestOn(platform, raw[x], <<>>, pieces[x])
  BY <1>2, TextTypes, RestPiece
<1> QED
  BY <1>1, <1>2, <1>3 DEF Total

LEMMA LockUartTotal == ASSUME IInv, NEW x \in Context, LockUart(x) PROVE Total(x)' = Total(x)
<1>1. raw[x] = <<>> /\ bytes[x] # <<>>
  BY DEF LockUart, IInv, TextInv
<1>2. /\ raw'[x] = Convert(Head(bytes[x])) /\ bytes'[x] = Tail(bytes[x])
      /\ pieces' = pieces /\ wire' = wire /\ turn' = turn /\ platform' = platform
  BY DEF LockUart, PutChar, IInv, TypeInv
<1>3. Convert(Head(bytes[x])) = ConvertOn(platform)[Head(bytes[x])]
  BY <1>1, TextTypes DEF Convert, ConvertOn
<1>4. RestOn(platform, ConvertOn(platform)[Head(bytes[x])], Tail(bytes[x]), pieces[x])
        = RestOn(platform, <<>>, bytes[x], pieces[x])
  BY <1>1, TextTypes, RestChar
<1> QED
  BY <1>1, <1>2, <1>3, <1>4 DEF Total

LEMMA PutTotal == ASSUME IInv, NEW x \in Context, Put(x) PROVE Total(x)' = Total(x)
<1> DEFINE w == HandedOn(wire, x, turn[x])
<1>1. /\ raw[x] # <<>> /\ raw[x] \in Seq(Byte) /\ bytes[x] \in Seq(Byte)
      /\ pieces[x] \in Seq(Seq(Byte)) /\ w \in Seq(Byte)
  <2>1. raw[x] # <<>>
    BY DEF Put, IInv, TextInv
  <2> QED
    BY <2>1, TextTypes
<1>2. HandedOn(wire', x, turn[x]) = w \o <<Head(raw[x])>>
  <2>1. <<Head(raw[x])>> \in Seq(Byte)
    BY <1>1
  <2>2. PICK ok \in BOOLEAN : wire' = wire \o Sent(x, <<Head(raw[x])>>, ok)
    BY PutSends
  <2> QED
    BY <2>1, <2>2, TextTypes, HandedGrows
<1>3. turn' = turn /\ pieces' = pieces /\ platform' = platform
  BY DEF Put
<1> HIDE DEF w
<1>4. (w \o <<Head(raw[x])>>) \o RestOn(platform, Tail(raw[x]), bytes[x], pieces[x])
        = w \o RestOn(platform, raw[x], bytes[x], pieces[x])
  BY <1>1, RestByte
<1>5. RestOn(platform, raw'[x], bytes'[x], pieces[x])
        = RestOn(platform, Tail(raw[x]), bytes[x], pieces[x])
  <2>1. CASE raw' = [raw EXCEPT ![x] = Tail(@)] /\ UNCHANGED bytes
    BY <2>1 DEF IInv, TypeInv
  <2>2. Len(raw[x]) = 1 => Tail(raw[x]) = <<>>
    BY <1>1, TailLast
  <2>3. CASE Len(raw[x]) = 1 /\ SameGuard(x) /\ PutChar(x)
    <3>1. raw'[x] = Convert(Head(bytes[x])) /\ bytes'[x] = Tail(bytes[x]) /\ bytes[x] # <<>>
      BY <2>3 DEF SameGuard, PutChar, IInv, TypeInv
    <3>2. Convert(Head(bytes[x])) = ConvertOn(platform)[Head(bytes[x])]
      BY <1>1, <3>1 DEF Convert, ConvertOn
    <3>3. RestOn(platform, ConvertOn(platform)[Head(bytes[x])], Tail(bytes[x]), pieces[x])
            = RestOn(platform, <<>>, bytes[x], pieces[x])
      BY <1>1, <3>1, RestChar
    <3> QED
      BY <2>2, <2>3, <3>1, <3>2, <3>3
  <2>4. CASE Len(raw[x]) = 1 /\ raw' = [raw EXCEPT ![x] = <<>>] /\ UNCHANGED bytes
    <3>1. raw'[x] = <<>> /\ bytes' = bytes
      BY <2>4 DEF IInv, TypeInv
    <3> QED
      BY <2>2, <2>4, <3>1
  <2> QED
    BY <2>1, <2>3, <2>4 DEF Put
<1> QED
  BY <1>2, <1>3, <1>4, <1>5 DEF Total, w

LEMMA SbiWriteTotal == ASSUME IInv, NEW x \in Context, SbiWrite(x) PROVE Total(x)' = Total(x)
<1> DEFINE w == HandedOn(wire, x, turn[x])
<1>1. PICK n \in 0 .. Len(bytes[x]) :
        /\ wire' = wire \o Sent(x, SubSeq(bytes[x], 1, n), TRUE)
        /\ bytes' = [bytes EXCEPT ![x] = SubSeq(bytes[x], n + 1, Len(bytes[x]))]
  BY SbiTakes
<1> DEFINE h == SubSeq(bytes[x], 1, n)
           t == SubSeq(bytes[x], n + 1, Len(bytes[x]))
<1>2. h \in Seq(Byte) /\ t \in Seq(Byte)
  BY SubSeqType, TextTypes
<1>3. bytes[x] = h \o t
  <2>1. bytes[x] \in Seq(Byte) /\ Len(bytes[x]) \in Nat
    BY TextTypes, LenProperties
  <2> QED
    BY <2>1, SubSeqSplit
<1>4. HandedOn(wire', x, turn[x]) = w \o h
  BY <1>1, <1>2, TextTypes, HandedGrows
<1>5. raw[x] = <<>> /\ platform = "sbi"
  BY DEF SbiWrite, IInv, TextInv
<1>6. /\ bytes'[x] = t
      /\ raw' = raw /\ turn' = turn /\ pieces' = pieces /\ platform' = platform
  BY <1>1 DEF SbiWrite, IInv, TypeInv
<1>7. w \in Seq(Byte) /\ pieces[x] \in Seq(Seq(Byte))
  BY TextTypes
<1> HIDE DEF w, h, t
<1>8. (w \o h) \o RestOn("sbi", <<>>, t, pieces[x]) = w \o RestOn("sbi", <<>>, h \o t, pieces[x])
  BY <1>2, <1>7, RestSbi
<1> QED
  BY <1>3, <1>4, <1>5, <1>6, <1>8 DEF Total, w

\* The text of x moves only in these steps.
LEMMA OthersKeep ==
  ASSUME IInv, [Next]_vars, NEW x \in Context \ {Uart}
  PROVE  \/ Begin(x) \/ ReadBytes(x)
         \/ NextPiece(x) \/ LockUart(x) \/ Put(x) \/ SbiWrite(x)
         \/ /\ Total(x)' = Total(x)
            /\ turn'[x] = turn[x]
<1> DEFINE Moves(z) == NextPiece(z) \/ LockUart(z) \/ Put(z) \/ SbiWrite(z) \/ ReadBytes(z)
<1> SUFFICES ASSUME ~Begin(x), ~Moves(x)
             PROVE  Total(x)' = Total(x) /\ turn'[x] = turn[x]
  OBVIOUS
<1> USE DEF IInv, TypeInv
<1>1. raw'[x] = raw[x] /\ bytes'[x] = bytes[x] /\ pieces'[x] = pieces[x] /\ turn'[x] = turn[x]
  <2>1. CASE UNCHANGED vars
    BY <2>1 DEF vars
  <2>2. ASSUME NEW z \in Context, Begin(z)
        PROVE  raw'[x] = raw[x] /\ bytes'[x] = bytes[x] /\ pieces'[x] = pieces[x] /\ turn'[x] = turn[x]
    <3>1. z # x
      BY <2>2
    <3> QED
      BY <2>2, <3>1 DEF Begin
  <2>3. ASSUME NEW z \in Context, Step(z), ~Moves(z)
        PROVE  UNCHANGED <<raw, bytes, pieces, turn>>
    BY <2>3 DEF Step, LockConsole, UnlockConsole, WriteEnd, WaitUart
  <2>4. ASSUME NEW z \in Context, Moves(z)
        PROVE  raw'[x] = raw[x] /\ bytes'[x] = bytes[x] /\ pieces'[x] = pieces[x] /\ turn'[x] = turn[x]
    <3>1. z # x
      BY <2>4
    <3>2. turn' = turn /\ pieces'[x] = pieces[x]
      BY <2>4, <3>1 DEF NextPiece, LockUart, Put, SbiWrite, ReadBytes
    <3>3. raw'[x] = raw[x]
      BY <2>4, <3>1 DEF NextPiece, LockUart, Put, SbiWrite, ReadBytes, PutChar
    <3>4. bytes'[x] = bytes[x]
      BY <2>4, <3>1 DEF NextPiece, LockUart, Put, SbiWrite, ReadBytes, PutChar
    <3> QED
      BY <3>2, <3>3, <3>4
  <2>5. CASE EchoStep \/ Receive
    BY <2>5 DEF EchoStep, UartIrq, IsReceiveInterrupt, AckInterrupts, Echo, Receive
  <2> HIDE DEF Moves
  <2> QED
    BY <2>1, <2>2, <2>3, <2>4, <2>5 DEF Next
<1>2. HandedOn(wire', x, turn[x]) = HandedOn(wire, x, turn[x])
  <2>1. CASE UNCHANGED wire
    BY <2>1
  <2>2. ASSUME NEW z \in Context, NEW s \in Seq(Byte), NEW ok \in BOOLEAN,
               Put(z) \/ SbiWrite(z), wire' = wire \o Sent(z, s, ok)
        PROVE  HandedOn(wire', x, turn[x]) = HandedOn(wire, x, turn[x])
    <3>1. z # x
      BY <2>2
    <3>2. wire \in Seq(Entry) /\ turn \in [Context -> Nat]
      BY TextTypes
    <3> QED
      BY ONLY <2>2, <3>1, <3>2, HandedElsewhere
  <2> QED
    BY <2>1, <2>2, WireSteps
<1>3. platform' = platform
  BY PlatformStays
<1> QED
  BY <1>1, <1>2, <1>3 DEF Total

\* A context that is in no call has nothing left of the last one.
LEMMA IdleOut ==
  ASSUME IInv, OutInv, NEW x \in Context \ {Uart}, pc[x] = "idle", turn[x] > 0, Job(x).op # "read"
  PROVE  HandedOn(wire, x, turn[x]) = EncodeOn(platform, FlattenSeq(Job(x).text))
<1>1. raw[x] = <<>> /\ bytes[x] = <<>> /\ pieces[x] = <<>>
  BY DEF IInv, TextInv
<1>2. RestOn(platform, raw[x], bytes[x], pieces[x]) = <<>>
  BY <1>1, RestNothing
<1>3. HandedOn(wire, x, turn[x]) \o <<>> = HandedOn(wire, x, turn[x])
  BY TextTypes, ConcatEmptySeq
<1>4. HandedOn(wire, x, turn[x]) \o RestOn(platform, raw[x], bytes[x], pieces[x])
        = EncodeOn(platform, FlattenSeq(Job(x).text))
  BY Zenon DEF OutInv
<1> QED
  BY <1>2, <1>3, <1>4, Zenon

\* The text of a call that begins is all left.
LEMMA BeginTotal ==
  ASSUME IInv, ClosedInv, NEW x \in Context, Begin(x), Job(x)'.op # "read"
  PROVE  Total(x)' = EncodeOn(platform, FlattenSeq(Job(x)'.text))
<1> DEFINE job == Jobs[x][turn[x] + 1]
<1>1. /\ turn[x] + 1 \in Nat \ {0} /\ turn[x] + 1 <= Len(Jobs[x])
      /\ turn' = [turn EXCEPT ![x] = turn[x] + 1]
      /\ turn'[x] = turn[x] + 1
  BY SMTT(30), JobsAssumption DEF Begin, IInv, TypeInv
<1>2. /\ job.op \in {"print", "write", "read"}
      /\ job.op # "read" => job.text \in Seq(Seq(Byte))
      /\ job.op = "write" => Len(job.text) = 1
  BY <1>1, JobFacts
<1>3. Job(x)' = job
  BY <1>1 DEF Job
<1>4. /\ pieces'[x] = IF job.op = "print" THEN job.text ELSE <<>>
      /\ bytes'[x] = IF job.op = "write" THEN job.text[1] ELSE <<>>
      /\ raw' = raw /\ wire' = wire /\ platform' = platform /\ pc[x] = "idle" /\ x # Uart
  BY DEF Begin, IInv, TypeInv
<1> HIDE DEF job
<1>5. raw[x] = <<>>
  BY <1>4 DEF IInv, TextInv
<1>6. HandedOn(wire, x, turn[x] + 1) = <<>>
  <2>1. ASSUME NEW n \in 1 .. Len(wire) PROVE ~(wire[n].by = x /\ wire[n].turn = turn[x] + 1)
    <3>1. n \in DOMAIN wire
      BY DEF IInv, TypeInv
    <3>2. wire[n].turn <= turn[wire[n].by]
      BY <3>1 DEF ClosedInv
    <3>3. turn[x] \in Nat
      BY TextTypes
    <3> QED
      BY <3>2, <3>3
  <2> QED
    BY <2>1, TextTypes, HandedNone
<1>7. RestOn(platform, <<>>, bytes'[x], pieces'[x]) = EncodeOn(platform, FlattenSeq(job.text))
  <2> DEFINE f == EncodeOn(platform, FlattenSeq(job.text))
  <2>1. f \in Seq(Byte)
    BY <1>2, <1>3, FlattenType, EncodeType
  <2>2. <<>> \o f = f /\ f \o <<>> = f
    BY <2>1, ConcatEmptySeq
  <2>3. CASE job.op = "print"
    <3>1. EncodeOn(platform, bytes'[x]) = <<>> /\ pieces'[x] = job.text
      BY <1>4, <2>3, EncodeEmpty
    <3> QED
      BY <2>2, <3>1 DEF RestOn
  <2>4. CASE job.op = "write"
    <3>1. bytes'[x] = job.text[1] /\ pieces'[x] = <<>>
      BY <1>4, <2>4
    <3>2. FlattenSeq(job.text) = job.text[1]
      BY <1>2, <2>4, FlattenSingle
    <3>3. EncodeOn(platform, FlattenSeq(<<>>)) = <<>>
      BY FlattenEmpty, EncodeEmpty
    <3> QED
      BY <2>2, <3>1, <3>2, <3>3 DEF RestOn
  <2> QED
    BY <1>2, <1>3, <2>3, <2>4
<1>8. <<>> \o EncodeOn(platform, FlattenSeq(job.text)) = EncodeOn(platform, FlattenSeq(job.text))
  BY <1>2, <1>3, FlattenType, EncodeType, ConcatEmptySeq
<1> QED
  BY <1>1, <1>3, <1>4, <1>5, <1>6, <1>7, <1>8 DEF Total

LEMMA OutNext ==
  ASSUME IInv, ClosedInv, OutInv, [Next]_vars
  PROVE  OutInv'
<1> SUFFICES ASSUME NEW x \in Context \ {Uart}, turn'[x] > 0, Job(x)'.op # "read"
             PROVE  Total(x)' = EncodeOn(platform', FlattenSeq(Job(x)'.text))
  BY DEF OutInv, Total
<1>1. platform' = platform
  BY PlatformStays
<1>2. CASE Begin(x)
  BY <1>1, <1>2, BeginTotal
<1>3. ASSUME Total(x)' = Total(x), turn'[x] = turn[x]
      PROVE  Total(x)' = EncodeOn(platform', FlattenSeq(Job(x)'.text))
  <2>1. Job(x)' = Job(x)
    BY <1>3 DEF Job
  <2>2. Total(x) = EncodeOn(platform, FlattenSeq(Job(x).text))
    BY <1>3, <2>1 DEF OutInv, Total
  <2> QED
    BY <1>1, <1>3, <2>1, <2>2
<1>4. ~ReadBytes(x)
  <2>1. SUFFICES ASSUME ReadBytes(x) PROVE FALSE
    OBVIOUS
  <2>2. Job(x)' = Job(x) /\ pc[x] = "read"
    BY <2>1 DEF ReadBytes, Job
  <2> QED
    BY <2>2 DEF IInv, PlaceInv
<1>5. ASSUME NextPiece(x) \/ LockUart(x) \/ Put(x) \/ SbiWrite(x)
      PROVE  Total(x)' = Total(x) /\ turn'[x] = turn[x]
  <2>1. turn' = turn
    BY <1>5 DEF NextPiece, LockUart, Put, SbiWrite
  <2> QED
    BY <1>5, <2>1, NextPieceTotal, LockUartTotal, PutTotal, SbiWriteTotal
<1> QED
  BY <1>2, <1>3, <1>4, <1>5, OthersKeep

\* A call that is over stays as it is.
LEMMA DoneNext ==
  ASSUME IInv, OutInv, DoneInv, [Next]_vars
  PROVE  DoneInv'
<1> SUFFICES ASSUME NEW x \in Context \ {Uart}, NEW k \in 1 .. turn'[x] - 1, Jobs[x][k].op # "read"
             PROVE  HandedOn(wire', x, k) = EncodeOn(platform', FlattenSeq(Jobs[x][k].text))
  BY DEF DoneInv
<1>1. platform' = platform
  BY PlatformStays
<1>2. turn[x] \in Nat /\ turn \in [Context -> Nat] /\ wire \in Seq(Entry)
  BY TextTypes
<1>3. CASE k \in 1 .. turn[x] - 1
  <2>1. HandedOn(wire, x, k) = EncodeOn(platform, FlattenSeq(Jobs[x][k].text))
    BY <1>3 DEF DoneInv
  <2>2. k # turn[x]
    BY <1>2, <1>3
  <2>3. ASSUME NEW z \in Context, NEW s \in Seq(Byte), NEW ok \in BOOLEAN,
               wire' = wire \o Sent(z, s, ok)
        PROVE  HandedOn(wire', x, k) = HandedOn(wire, x, k)
    <3>1. ~(x = z /\ k = turn[z])
      BY <2>2
    <3> QED
      BY ONLY <1>2, <2>3, <3>1, HandedElsewhere
  <2>4. HandedOn(wire', x, k) = HandedOn(wire, x, k)
    BY <2>3, WireSteps
  <2> QED
    BY <1>1, <2>1, <2>4
<1>4. CASE k \notin 1 .. turn[x] - 1
  <2>1. turn'[x] # turn[x]
    BY <1>4
  <2>2. Begin(x)
    <3>1. ~NextPiece(x) /\ ~LockUart(x) /\ ~Put(x)
      BY <2>1 DEF NextPiece, LockUart, Put
    <3>2. ~SbiWrite(x) /\ ~ReadBytes(x)
      BY <2>1 DEF SbiWrite, ReadBytes
    <3> QED
      BY <2>1, <3>1, <3>2, OthersKeep
  <2>3. turn'[x] = turn[x] + 1 /\ wire' = wire /\ pc[x] = "idle"
    BY <1>2, <2>2 DEF Begin
  <2>4. k = turn[x] /\ turn[x] > 0
    BY <1>2, <1>4, <2>3
  <2> QED
    BY <1>1, <2>3, <2>4, IdleOut DEF Job
<1> QED
  BY <1>3, <1>4

\* A call that has returned has handed all of its text to the UART, once and in
\* order; and except on loongarch64 all of it has gone out.
THEOREM TextsGoOut == Spec => []AllOut
<1>1. Init => (ClosedInv /\ NoMixing) /\ (OutInv /\ DoneInv)
  <2> SUFFICES ASSUME Init PROVE (ClosedInv /\ NoMixing) /\ (OutInv /\ DoneInv)
    OBVIOUS
  <2>1. ClosedInv /\ NoMixing
    BY DEF Init, ClosedInv, NoMixing
  <2>2. \A x \in Context : turn[x] = 0
    BY DEF Init
  <2> QED
    BY <2>1, <2>2 DEF OutInv, DoneInv
<1>2. IInv /\ ((ClosedInv /\ NoMixing) /\ (OutInv /\ DoneInv)) /\ [Next]_vars
        => ((ClosedInv /\ NoMixing) /\ (OutInv /\ DoneInv))'
  BY ClosedNext, OutNext, DoneNext
<1>3. IInv /\ OutInv /\ DoneInv /\ TakenInv => AllOut
  <2> SUFFICES ASSUME IInv, OutInv, DoneInv, TakenInv,
                      NEW x \in Thread \cup Handler, NEW k \in 1 .. turn[x],
                      Jobs[x][k].op # "read", k < turn[x] \/ pc[x] = "idle"
               PROVE  /\ Handed(x, k) = Encode(FlattenSeq(Jobs[x][k].text))
                      /\ platform # "loong" => Written(x, k) = Encode(FlattenSeq(Jobs[x][k].text))
    BY Zenon DEF AllOut, Returned, Text
  <2>1. x \in Context \ {Uart}
    BY ContextAssumption DEF Context
  <2>2. turn[x] \in Nat /\ wire \in Seq(Entry) /\ turn[x] <= Len(Jobs[x])
    BY <2>1, TextTypes DEF IInv, TypeInv
  <2>3. HandedOn(wire, x, k) = EncodeOn(platform, FlattenSeq(Jobs[x][k].text))
    <3>1. CASE k < turn[x]
      <4>1. k \in 1 .. turn[x] - 1
        BY <2>2, <3>1
      <4> QED
        BY <2>1, <4>1 DEF DoneInv
    <3>2. CASE ~(k < turn[x])
      <4>1. k = turn[x] /\ turn[x] > 0 /\ pc[x] = "idle"
        BY <2>2, <3>2
      <4> QED
        BY <2>1, <4>1, IdleOut DEF Job
    <3> QED
      BY <3>1, <3>2
  <2>4. k \in Nat \ {0} /\ k <= Len(Jobs[x])
    <3>1. Len(Jobs[x]) \in Nat
      BY <2>1, JobsAssumption
    <3> QED
      BY <2>2, <3>1
  <2>5. FlattenSeq(Jobs[x][k].text) \in Seq(Byte)
    <3>1. Jobs[x][k].text \in Seq(Seq(Byte))
      BY <2>1, <2>4, JobFacts
    <3> QED
      BY <3>1, FlattenType
  <2>6. Handed(x, k) = Encode(FlattenSeq(Jobs[x][k].text))
    BY <2>2, <2>3, <2>5, EncodeIs, HandedIs
  <2>7. platform # "loong" => Written(x, k) = Handed(x, k)
    BY <2>2, WrittenIs DEF TakenInv
  <2> QED
    BY <2>6, <2>7
<1> QED
  BY <1>1, <1>2, <1>3, Invariance, TakenInvariance, PTL DEF Spec
=============================================================================
