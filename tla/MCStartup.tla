----------------------------- MODULE MCStartup -----------------------------
\* What TLC prints: pairs of the parts below, messages that run over the end of a
\* buffer of eight characters (in text and in a number), and a program that prints
\* at the same time.
EXTENDS Startup

P(c, a) == [conv |-> c, arg |-> a]
Long == P("s", <<"d", "e", "f", "a", "b", "c", "d", "e", "f">>)
Parts == {P("", <<"a", "\n">>), P("c", "n"), P("s", <<"d", "e">>), P("d", 2^Bits - 1),
          P("i", 2^(Bits - 1)), P("u", 2^Bits - 1), P("o", 9), P("x", 2^Bits - 3), P("l", 0)}
HintCall == <<P("s", <<"f", "e">>)>>
MCHint == <<"f", "e">>
Alone(msgs) == [calls |-> msgs, text |-> [t \in Programs |-> <<>>]]
With(msgs) == [calls |-> msgs, text |-> [t \in Programs |-> <<"m", "n">>]]
MCScenarios ==
  {Alone(<<<<p, q>>, HintCall>>) : p \in Parts, q \in {P("x", 17), P("", <<"b", "\n", "c">>)}}
    \cup {Alone(<<<<P("s", <<"d", "e", "f", "a">>), p, P("d", 3)>>, HintCall>>) : p \in Parts}
    \cup {Alone(<<<<Long, P("x", 1), P("c", "b")>>, HintCall>>)}
    \cup {With(<<HintCall>>)}
MCChars == Letters \cup {Digits[i] : i \in 1..16}
             \cup {"s", "d", "i", "u", "m", "-", "%", "\n", "\r", " "}
MCTyped == {"a", "\n", "\r", " "}
MCMemory == 0..10
=============================================================================
