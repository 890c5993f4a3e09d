------------------------------ MODULE MCRomfs ------------------------------
\* Host trees and paths for TLC.  Names of one and of two characters take headers
\* of different sizes with Unit = 2.
EXTENDS Romfs

MCName(c) == CASE c = "a" -> <<"a">> [] c = "b" -> <<"b">> [] c = "ab" -> <<"a", "b">>
               [] c = "@a" -> <<"@", "a">> [] c = "@b" -> <<"@", "b">> [] c = "." -> Dot [] c = ".." -> DotDot
E(c, i) == [name |-> MCName(c), ino |-> i]
F(kind, size) == [kind |-> kind, size |-> size, readable |-> TRUE, entries |-> <<>>, to |-> NoFile]
D(entries) == [F("dir", 0) EXCEPT !.entries = entries]
L(to) == [F("lnk", 3) EXCEPT !.to = to]

\* A directory with a file that is also in the root under another name.
HostLinked == <<
  D(<<E(".", 1), E("a", 2), E("..", 0), E("ab", 3)>>),
  D(<<E("ab", 4), E(".", 2), E("b", 3), E("..", 1)>>),
  F("reg", 5), F("reg", 1)>>

\* Two levels, an "@" link to a directory, one to nothing, a file that cannot be
\* read, a symbolic link.
HostDeep == <<
  D(<<E("ab", 2), E("@a", 6), E(".", 1), E("..", 0), E("b", 5)>>),
  D(<<E(".", 2), E("..", 1), E("b", 3), E("a", 4)>>),
  D(<<E(".", 3), E("..", 2), E("a", 7), E("ab", 8)>>),
  [F("reg", 4) EXCEPT !.readable = FALSE],
  L(NoFile), L(3), F("reg", 2), F("reg", 0)>>

\* Nothing but a link to nowhere and a file that is excluded.
HostEmpty == <<D(<<E(".", 1), E("@b", 3), E("..", 0), E("@a", 2)>>), L(NoFile), F("reg", 7)>>

MCHosts == {[i \in Outside..Len(h) |-> IF i = Outside THEN D(<<>>) ELSE h[i]] :
              h \in {HostLinked, HostDeep, HostEmpty}}
MCVolume == <<"v">>
MCPatterns == {[align |-> 16, names |-> {<<"a", "b">>}]}
MCExcludes == {<<"@", "b">>}
Components == {MCName(c) : c \in {"a", "b", "ab", ".", ".."}} \cup {<<>>}
MCPaths == UNION {[1..n -> Components] : n \in 1..2}
             \cup {<<MCName("ab"), MCName("b"), MCName("a")>>, <<MCName("ab"), MCName("b"), <<>>>>}
MCJunk == [1..3 -> {"a", "b", NUL}]
=============================================================================
