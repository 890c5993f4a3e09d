------------------------------ MODULE Console ------------------------------
(***************************************************************************)
(* The console: printk and vsnprintf (lib/print.c), the UART driver        *)
(* (driver/serial/serial.c) and the loop at the end of start_kernel that   *)
(* echoes what is typed.                                                   *)
(*                                                                         *)
(* The task start_kernel runs in prints a few messages and then echoes; a  *)
(* program like that of tools/main.c may write to the UART as well.  Each  *)
(* action touches the UART at most once, for the timer can switch tasks    *)
(* between any two accesses.  Only the task of start_kernel calls printk:  *)
(* what the other tasks print is pr_info, which DEBUG_LEVEL leaves out.    *)
(*                                                                         *)
(* A character is a one-letter string, an int has Bits bits.               *)
(***************************************************************************)
EXTENDS Integers, Sequences

CONSTANTS
  Swapper,   \* the task start_kernel runs in
  Programs,  \* tasks that print with puts_elf
  Scenarios, \* what is printed: [calls |-> printk calls, text |-> [Programs -> ..]]
  Typed,     \* characters that may be typed
  MaxTyped,  \* how many at most
  Hint,
  Size,      \* of print_buf
  Bits,
  Chars,     \* characters there are
  NUL, None  \* the character 0; no character

Digits == <<"0", "1", "2", "3", "4", "5", "6", "7", "8", "9", "a", "b", "c", "d", "e", "f">>
Letters == {"a", "b", "c", "d", "e", "f", "l", "n", "o", "x", "X", "Z"}
Tasks == {Swapper} \cup Programs
MaxNumber == Bits + 3   \* characters number() can write

\* Powers of two: an int is kept as its bits, a number below Ints, negative from Half on.
Power[k \in 0..Bits] == IF k = 0 THEN 1 ELSE 2 * Power[k - 1]
Ints == Power[Bits]
Half == Power[Bits - 1]

\* A call of printk is a sequence of parts: text, conv "", or a conversion with its
\* argument.
Flat(f) == LET g[i \in 0..Len(f)] == IF i = 0 THEN <<>> ELSE g[i - 1] \o f[i] IN g[Len(f)]
Fmt(call) == Flat([i \in DOMAIN call |-> IF call[i].conv = "" THEN call[i].arg
                                         ELSE <<"%", call[i].conv>>])
Args(call) == Flat([i \in DOMAIN call |-> IF call[i].conv \in {"", "l"} THEN <<>>
                                          ELSE <<call[i].arg>>])

\* Formats hold no other "%" (at their end format_decode would step over it), and an
\* argument is what its conversion takes.  "l" stands for what vsnprintf does not know.
Fits(p) ==
  \/ p.conv = "" /\ p.arg \in Seq(Chars \ {"%"})
  \/ p.conv = "c" /\ p.arg \in Chars
  \/ p.conv = "s" /\ p.arg \in Seq(Chars)
  \/ p.conv \in {"d", "i", "o", "u", "x", "X"} /\ p.arg \in 0..(Ints - 1)
  \/ p.conv = "l"
IsSequence(s) == s \in Seq({s[i] : i \in DOMAIN s})
WellFormed(call) == IsSequence(call) /\ \A i \in DOMAIN call : Fits(call[i])

ASSUME ConsoleAssumption ==
  /\ Swapper \notin Programs
  /\ Size \in Nat \ {0} /\ Bits \in Nat \ {0}
  /\ Letters \cup {"s", "d", "i", "u", "-", "%", "\n", "\r"} \subseteq Chars
  /\ \A i \in 1..16 : Digits[i] \in Chars
  /\ NUL \notin Chars /\ None \notin Chars \cup [by : Tasks, c : Chars]
  /\ Typed \subseteq Chars /\ Hint \in Seq(Chars)
  /\ MaxTyped \in Nat
  /\ \A s \in Scenarios :
       /\ IsSequence(s.calls) /\ s.calls # <<>>
       /\ \A i \in DOMAIN s.calls : WellFormed(s.calls[i])
       /\ \A t \in Programs : s.text[t] \in Seq(Chars)

VARIABLES
  pc,     \* per task: "boot" or "done", "printk", "wait" and "write" (in putc), "getc"
  out,    \* per task: characters it has yet to give to putc
  calls,  \* printk calls to come
  va,     \* the call in vsnprintf: fmt and args still to do, spec, str - buf
  buf,    \* print_buf and what lies behind it
  tx, rx, \* the transmit and the receive buffer of the UART
  typed,  \* how many characters were typed
  wire,   \* history: what went over the line, and from which task
  said,   \* history: per task, what was given to putc or is going to be
  raced   \* history: two tasks were in putc behind its look at the status

consoleVars == <<pc, out, calls, va, buf, tx, rx, typed, wire, said, raced>>

\* The digits of the numbers below Ints.
Spell(base) ==
  LET digits[n \in 0..(Ints - 1)] ==
        IF n < base THEN <<Digits[n + 1]>>
        ELSE Append(digits[n \div base], Digits[(n % base) + 1])
  IN  digits

\* Mutant: an unsigned is printed with a sign, too.
NumberSigned(num, type, base) ==
  LET negative == num >= Half
  IN  (IF negative THEN <<"-">> ELSE <<>>)
        \o (CASE base = 8 -> <<"0">> [] base = 16 -> <<"0", "x">> [] OTHER -> <<>>)
        \o Spell(base)[IF negative THEN Ints - num ELSE num]

\* number(): for a negative int the digits of ~num + 1, taken as unsigned.
Number(num, type, base) ==
  LET negative == type = "int" /\ num >= Half
  IN  (IF negative THEN <<"-">> ELSE <<>>)
        \o (CASE base = 8 -> <<"0">> [] base = 16 -> <<"0", "x">> [] OTHER -> <<>>)
        \o Spell(base)[IF negative THEN Ints - num ELSE num]

\* What follows fmt: text up to the next "%", or a conversion.  The flags stay
\* from one conversion to the next.
FormatDecode(fmt, flags) ==
  LET signs == {i \in DOMAIN fmt : fmt[i] = "%"}
      read == IF signs = {} THEN Len(fmt) ELSE (CHOOSE i \in signs : \A j \in signs : i <= j) - 1
      c == fmt[2]
  IN  IF read > 0 THEN [flags EXCEPT !.type = "none", !.read = read]
      ELSE [read |-> 2,
            width |-> flags.width \/ c = "l",
            type |-> CASE c = "c" -> "char" [] c = "s" -> "str" [] c \in {"d", "i"} -> "int"
                       [] c \in {"o", "x", "X", "u"} -> "uint" [] OTHER -> "none",
            base |-> CASE c = "o" -> 8 [] c \in {"x", "X"} -> 16 [] OTHER -> 10]

NoFlags == [read |-> 0, width |-> FALSE, type |-> "none", base |-> 10]

\* Text written at position at, as far as end.
Store(at, text, end) ==
  [i \in DOMAIN buf |-> IF i \in at..(at + Len(text) - 1) /\ i < end THEN text[i - at + 1]
                        ELSE buf[i]]
Beyond == Size + MaxNumber

\* The string in print_buf; how putc gets a text.
String(b) ==
  LET ends == {i \in DOMAIN b : b[i] = NUL}
      n == CHOOSE i \in ends : \A j \in ends : i <= j
  IN  [i \in 1..n |-> b[i - 1]]

\* __put_char.
PutChar(text) ==
  Flat([i \in DOMAIN text |-> IF text[i] = "\n" THEN <<"\r", "\n">> ELSE <<text[i]>>])

Echo(c) ==
  IF c \in Letters \cup {Digits[i] : i \in 1..10} THEN <<c>>
  ELSE IF c = "\n" THEN <<"n">>
  ELSE IF c = "\r" THEN <<"\n", "\r">> \o Hint
  ELSE <<>>

Start(call) == [call |-> call, fmt |-> Fmt(call), args |-> Args(call),
                spec |-> NoFlags, str |-> 0]

ConsoleInit ==
  /\ pc = [t \in Tasks |-> IF t = Swapper THEN "boot" ELSE "done"]
  /\ out = [t \in Tasks |-> <<>>]
  /\ calls = <<>> /\ va = Start(<<>>)
  /\ buf = [i \in 0..(Beyond - 1) |-> NUL]
  /\ tx = None /\ rx = None
  /\ typed = 0
  /\ wire = <<>> /\ said = [t \in Tasks |-> <<>>] /\ raced = FALSE

\* start_kernel comes to its messages, and the programs to theirs.
Talk ==
  \E s \in Scenarios :
    /\ calls' = Tail(s.calls)
    /\ va' = Start(Head(s.calls))
    /\ pc' = [t \in Tasks |-> IF t = Swapper THEN "printk"
                              ELSE IF s.text[t] = <<>> THEN "done" ELSE "wait"]
    /\ out' = [t \in Tasks |-> IF t = Swapper THEN <<>> ELSE s.text[t]]
    /\ said' = [t \in Tasks |-> IF t = Swapper THEN <<>> ELSE s.text[t]]
    /\ UNCHANGED <<buf, tx, rx, typed, wire, raced>>

-----------------------------------------------------------------------------
(* printk. *)

\* One turn of the loop of vsnprintf: text is stored as far as the buffer goes,
\* number() writes all it has.
Format ==
  /\ pc[Swapper] = "printk" /\ va.fmt # <<>>
  /\ LET spec == FormatDecode(va.fmt, va.spec)
         text == SubSeq(va.fmt, 1, spec.read)
         arg  == Head(va.args)
         Done(b, n, args) ==
           /\ buf' = b
           /\ va' = [call |-> va.call, fmt |-> SubSeq(va.fmt, spec.read + 1, Len(va.fmt)),
                     args |-> args, spec |-> spec, str |-> va.str + n]
     IN  \/ /\ spec.type = "none"
            /\ Done(Store(va.str, text, Size), Len(text), va.args)
         \/ /\ spec.type # "none" /\ spec.width
            /\ Done(buf, 0, va.args)
         \/ /\ spec.type = "char" /\ ~spec.width
            /\ Done(Store(va.str, <<arg>>, Size), 1, Tail(va.args))
         \/ /\ spec.type = "str" /\ ~spec.width
            /\ LET room == IF va.str < Size THEN Size - va.str ELSE 0
               IN  Done(Store(va.str, arg, Size), IF Len(arg) < room THEN Len(arg) ELSE room,
                        Tail(va.args))
         \/ /\ spec.type \in {"int", "uint"} /\ ~spec.width
            /\ LET digits == Number(arg, spec.type, spec.base)
               IN  Done(Store(va.str, digits, Beyond), Len(digits), Tail(va.args))
  /\ UNCHANGED <<pc, out, calls, tx, rx, typed, wire, said, raced>>

\* Task t goes on with text for putc.  When there is none left, the swapper comes
\* to its next printk or to getc_mmu.
GoOn(t, text) ==
  LET more == text = <<>> /\ t = Swapper /\ calls # <<>>
  IN  /\ out' = [out EXCEPT ![t] = text]
      /\ pc' = [pc EXCEPT ![t] = IF text # <<>> THEN "wait"
                                 ELSE IF t # Swapper THEN "done"
                                 ELSE IF more THEN "printk" ELSE "getc"]
      /\ calls' = IF more THEN Tail(calls) ELSE calls
      /\ va' = IF more THEN Start(Head(calls)) ELSE va

\* Mutant: the end of the text is written even behind the buffer.
EndAt(str) == str

\* Where vsnprintf ends the text.
TextEnd(str) == IF str < Size THEN str ELSE Size - 1

\* The end of vsnprintf; what __put_char takes from print_buf.
FormatEnd ==
  /\ pc[Swapper] = "printk" /\ va.fmt = <<>>
  /\ LET b == [buf EXCEPT ![TextEnd(va.str)] = NUL]
         text == PutChar(String(b))
     IN  /\ buf' = b
         /\ said' = [said EXCEPT ![Swapper] = @ \o text]
         /\ GoOn(Swapper, text)
  /\ UNCHANGED <<tx, rx, typed, wire, raced>>

-----------------------------------------------------------------------------
(* The UART and its driver. *)

\* Mutant: the status is not looked at.
PutcNoWait(t) ==
  /\ pc[t] = "wait"
  /\ pc' = [pc EXCEPT ![t] = "write"]
  /\ raced' = (raced \/ \E u \in Tasks : pc[u] = "write")
  /\ UNCHANGED <<out, calls, va, buf, tx, rx, typed, wire, said>>

\* Mutant: putc waits for the wrong state of the bit.
PutcWaitFull(t) ==
  /\ pc[t] = "wait" /\ tx # None
  /\ pc' = [pc EXCEPT ![t] = "write"]
  /\ raced' = (raced \/ \E u \in Tasks : pc[u] = "write")
  /\ UNCHANGED <<out, calls, va, buf, tx, rx, typed, wire, said>>

\* putc, putc_mmu, putc_elf: the status is read until the transmitter is empty ...
PutcWait(t) ==
  /\ pc[t] = "wait" /\ tx = None
  /\ pc' = [pc EXCEPT ![t] = "write"]
  /\ raced' = (raced \/ \E u \in Tasks : pc[u] = "write")
  /\ UNCHANGED <<out, calls, va, buf, tx, rx, typed, wire, said>>

\* ... and then the character is written.
PutcWrite(t) ==
  /\ pc[t] = "write"
  /\ tx' = [by |-> t, c |-> Head(out[t])]
  /\ GoOn(t, Tail(out[t]))
  /\ UNCHANGED <<buf, rx, typed, wire, said, raced>>

\* getc_mmu and a turn of the loop of start_kernel.
Getc ==
  /\ pc[Swapper] = "getc" /\ rx # None
  /\ rx' = None
  /\ said' = [said EXCEPT ![Swapper] = @ \o Echo(rx)]
  /\ GoOn(Swapper, Echo(rx))
  /\ UNCHANGED <<buf, tx, typed, wire, raced>>

\* The UART sends what it has; it keeps the last character that came in.
Transmit ==
  /\ tx # None
  /\ wire' = Append(wire, tx)
  /\ tx' = None
  /\ UNCHANGED <<pc, out, calls, va, buf, rx, typed, said, raced>>

Receive(c) ==
  /\ pc[Swapper] # "boot" /\ typed < MaxTyped
  /\ typed' = typed + 1
  /\ rx' = c
  /\ UNCHANGED <<pc, out, calls, va, buf, tx, wire, said, raced>>

Printk == Format \/ FormatEnd
Putc(t) == PutcWait(t) \/ PutcWrite(t)

ConsoleNext ==
  \/ Printk \/ Getc \/ Transmit
  \/ \E t \in Tasks : Putc(t)
  \/ \E c \in Typed : Receive(c)

-----------------------------------------------------------------------------
(* Properties. *)

ConsoleTypeOK ==
  /\ pc \in [Tasks -> {"boot", "done", "printk", "wait", "write", "getc"}]
  /\ \A t \in Tasks : (out[t] # <<>>) = (pc[t] \in {"wait", "write"})
  /\ va.str \in Nat /\ va.spec.base \in {8, 10, 16}
  /\ DOMAIN buf = 0..(Beyond - 1)
  /\ typed \in 0..MaxTyped

\* How a reader takes a sequence of digits.
Value(digits, base) ==
  LET value[i \in 0..Len(digits)] ==
        IF i = 0 THEN 0
        ELSE value[i - 1] * base + (CHOOSE d \in 0..15 : Digits[d + 1] = digits[i])
  IN  value[Len(digits)]

\* What number() writes reads as its argument: an optional sign, the prefix of the
\* base, then digits without needless zeros whose value is the int or the unsigned.
NumberRight ==
  pc[Swapper] = "printk" =>
  \A num \in 0..(Ints - 1), type \in {"int", "uint"}, base \in {8, 10, 16} :
    LET text == Number(num, type, base)
        minus == text[1] = "-"
        from == (IF minus THEN 1 ELSE 0) + (CASE base = 8 -> 1 [] base = 16 -> 2 [] OTHER -> 0)
        digits == SubSeq(text, from + 1, Len(text))
        v == IF minus THEN -Value(digits, base) ELSE Value(digits, base)
    IN  /\ v = IF type = "int" /\ num >= Half THEN num - Ints ELSE num
        /\ Len(digits) > 1 => digits[1] # "0"
        /\ Len(text) <= MaxNumber

\* What the conversions of a call stand for, when it has only those vsnprintf knows.
Plain(call) == \A i \in DOMAIN call : call[i].conv # "l"
Expected(call) ==
  LET part(p) == CASE p.conv = "c" -> <<p.arg>>
                   [] p.conv \in {"d", "i"} -> Number(p.arg, "int", 10)
                   [] p.conv = "u" -> Number(p.arg, "uint", 10)
                   [] p.conv \in {"x", "X"} -> Number(p.arg, "uint", 16)
                   [] p.conv = "o" -> Number(p.arg, "uint", 8)
                   [] OTHER -> p.arg
  IN  Flat([i \in DOMAIN call |-> part(call[i])])

\* vsnprintf puts the text of the call into print_buf, cut off only where the buffer
\* ends, whatever an earlier message left there and wherever number() wrote.
PrintedRight ==
  pc[Swapper] = "printk" /\ va.fmt = <<>> /\ Plain(va.call) =>
    LET text == Expected(va.call)
        kept == IF Len(text) < Size THEN Len(text) ELSE Size - 1
    IN  /\ \A i \in 1..kept : buf[i - 1] = text[i]
        /\ TextEnd(va.str) = kept

\* What the echo, printk and the programs have to say goes over the line in order,
\* each character once, as long as no two tasks are in putc behind its look at the
\* status: one may then write over what the other has just written.
ScreenRight ==
  LET all == wire \o (IF tx = None THEN <<>> ELSE <<tx>>)
      sent(t) == Flat([i \in DOMAIN all |-> IF all[i].by = t THEN <<all[i].c>> ELSE <<>>])
  IN  ~raced => \A t \in Tasks : sent(t) \o out[t] = said[t]
=============================================================================
