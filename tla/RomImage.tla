------------------------------ MODULE RomImage ------------------------------
(***************************************************************************)
(* genromfs, which makes the image of the RAM disk (tools/genromfs.c).     *)
(* It reads the host's directories once and gives every file the offset    *)
(* its header will have (processdir), and then writes headers and data one *)
(* after the other without seeking (dumpall): that a header lands where    *)
(* the other headers say it is rests on the two passes counting alike.     *)
(*                                                                         *)
(* Unit is the 16 bytes of a header and of all rounding; a name is the     *)
(* sequence of its characters, a file of the host a number.  Devices,      *)
(* fifos and sockets are left out (their spec is not an address), and so   *)
(* are the checksums, which the kernel does not read.                      *)
(***************************************************************************)
EXTENDS Integers, Sequences, FiniteSets, Functions

CONSTANTS
  Hosts,     \* directory trees genromfs may be given
  Volume,    \* the -V option
  Align,     \* the -a option
  Patterns,  \* the -A options: [align |-> .., names |-> ..]
  Excludes,  \* names the -x options match
  Unit,      \* 16
  Block,     \* 1024
  Chars      \* bytes of a name

Dot == <<".">>
DotDot == <<".", ".">>
Root == 1       \* the host's number of the directory given with -d
Outside == 0    \* the directory above it
NoFile == -1

\* alignnode divides by powers of two; the kernel expects the first header right
\* behind that of the volume, so nothing is said about the alignment of ".".  The type
\* of a file has room in the low bits of an offset.
ASSUME RomImageAssumption ==
  /\ Unit \in Nat /\ Unit > 1 /\ Block \in Nat \ {0} /\ (Block % Unit) = 0
  /\ "." \in Chars /\ Volume \in Seq(Chars)
  /\ Align \in Nat \ {0} /\ (Align % Unit) = 0
  /\ IsFiniteSet(Patterns)
  /\ \A p \in Patterns : p.align \in Nat \ {0} /\ (p.align % Unit) = 0 /\ Dot \notin p.names

\* What readdir, lstat and readlink may tell: no name is empty, an entry is a file, a
\* symbolic link leads to a file or to nothing.  The root is a directory in another.
ASSUME HostAssumption ==
  \A h \in Hosts :
    /\ DOMAIN h \subseteq Nat /\ {Outside, Root} \subseteq DOMAIN h
    /\ h \in [DOMAIN h ->
          [kind : {"reg", "dir", "lnk"}, size : Nat, readable : BOOLEAN,
           entries : Seq([name : Seq(Chars) \ {<<>>}, ino : DOMAIN h]),
           to : DOMAIN h \cup {NoFile}]]

\* Directories form a tree, with Root in Outside: "." leads to the directory, ".." of
\* any directory in it back to it.
ASSUME TreeAssumption ==
  \A h \in Hosts :
    /\ h[Root].kind = "dir" /\ h[Outside].kind = "dir"
    /\ \A d \in DOMAIN h :
         /\ h[d].kind = "dir" /\ d # Outside => \E e \in Range(h[d].entries) : e.name = Dot
         /\ \A e \in Range(h[d].entries) :
              /\ e.name = Dot => e.ino = d
              /\ e.name \notin {Dot, DotDot} =>
                   /\ e.ino # Outside
                   /\ \A f \in Range(h[e.ino].entries) : f.name = DotDot => f.ino = d

VARIABLES
  host,    \* number of a file, Outside included -> [kind, size, readable, entries, to]
  phase,   \* "scan" (processdir), "dump" (dumpall), "done"
  nodes,   \* the filenodes in the order they were made; nodes[1] is the volume
  offset,  \* curroffset
  stack,   \* the directories processdir is in, and the entries left in each
  todo,    \* the nodes dumpnode will come to, in order
  at,      \* bytes written
  image    \* position -> the header written there

imageVars == <<host, phase, nodes, offset, stack, todo, at, image>>

RoundUp(x, n) == ((x + n - 1) \div n) * n

\* The fields of a header are kept in network order; the low bits of nextfh, which
\* offsets leave free, tell the type.
Htonl(v) == [be |-> v]
Ntohl(f) == f.be
Mask(v) == v - (v % Unit)

\* A header with its name; the space a node takes with its data.
HeaderLen(name) == Unit + RoundUp(Len(name) + 1, Unit)
SpaceNeeded(n) == HeaderLen(n.name) + RoundUp(n.size, Unit)

FindAlign(name, kind) ==
  LET wanted == {IF kind = "reg" THEN Align ELSE Unit}
                  \cup {p.align : p \in {q \in Patterns : name \in q.names}}
  IN  CHOOSE a \in wanted : \A b \in wanted : b <= a

Pad(name, kind, o) == LET a == FindAlign(name, kind)
                      IN  IF o % a = 0 THEN 0 ELSE a - (o % a)

\* The node made at offset o with pad bytes before it; a hard link has no data.
\* dir is the node whose list it is appended to.
Node(o, pad, name, ino, dir, link) ==
  LET kind == host[ino].kind
  IN  [name |-> name, ino |-> ino, kind |-> kind, dir |-> dir, link |-> link,
       pad |-> pad, off |-> o + pad,
       size |-> IF link = 0 /\ kind \in {"reg", "lnk"} THEN host[ino].size ELSE 0]

\* Mutant: the header of a regular file is aligned, not its data.
NodeAtHeader(o, name, ino, dir, link) ==
  Node(o, Pad(name, host[ino].kind, o), name, ino, dir, link)

\* What is aligned is the data of a regular file, and the header of anything else.
NodeAt(o, name, ino, dir, link) ==
  LET kind == host[ino].kind
      head == IF kind = "reg" /\ link = 0 THEN HeaderLen(name) ELSE 0
  IN  Node(o, Pad(name, kind, o + head), name, ino, dir, link)

EndOf(n) == n.off + SpaceNeeded(n)

\* Mutant: ".." of a directory in the root leads to the volume.
ParentVolume(i) == nodes[i].dir

\* owner of the list of node i, the parent of those in it: "." for the root's list,
\* the directory itself else.
Owner(i) == IF i = 1 THEN 2 ELSE i

\* parent->parent of those in the list of i; "." was appended before it was the owner.
Parent(i) == IF i = 1 THEN 1 ELSE Owner(nodes[i].dir)

\* findnode's walk meets the nodes in the order they were made.  0: not found.
FindNode(ino) ==
  LET found == {i \in 2..Len(nodes) : nodes[i].ino = ino}
  IN  IF found = {} THEN 0 ELSE CHOOSE i \in found : \A j \in found : i <= j

\* The list of node i; append puts a node at its end.
Children(i) ==
  LET list[k \in 0..Len(nodes)] ==
        IF k = 0 THEN <<>>
        ELSE IF nodes[k].dir = i THEN Append(list[k - 1], k) ELSE list[k - 1]
  IN  list[Len(nodes)]

\* An entry "@name" that is a symbolic link stands for what it leads to.
Followed(e) == e.name[1] = "@" /\ host[e.ino].kind = "lnk"
Name(e) == IF Followed(e) THEN Tail(e.name) ELSE e.name
File(e) == IF Followed(e) THEN host[e.ino].to ELSE e.ino
Taken(e) ==
  /\ e.name \notin Excludes
  /\ File(e) # NoFile
  /\ host[File(e)].kind = "lnk" \/ host[File(e)].readable

\* "." and ".." of the root are not made twice.
Again(e) == Len(stack) = 1 /\ e.name \in {Dot, DotDot}

Init ==
  /\ host \in Hosts
  /\ phase = "scan"
  /\ nodes = <<[name |-> Volume, ino |-> NoFile, kind |-> "none", dir |-> 0, link |-> 0,
               pad |-> 0, off |-> 0, size |-> 0]>>
  /\ offset = HeaderLen(Volume)
  /\ stack = <<>>
  /\ todo = <<>>
  /\ at = 0
  /\ image = <<>>

-----------------------------------------------------------------------------
(* The scan. *)

\* processdir at level 1 makes "." and "..", which links to it, before it reads
\* the directory.
ScanRoot ==
  /\ phase = "scan" /\ Len(nodes) = 1
  /\ LET dot == NodeAt(offset, Dot, Root, 1, 0)
         up  == NodeAt(EndOf(dot), DotDot, Outside, 1, 2)
     IN  /\ nodes' = nodes \o <<dot, up>>
         /\ offset' = EndOf(up)
  /\ stack' = <<[dir |-> 1, left |-> host[Root].entries]>>
  /\ UNCHANGED <<host, phase, todo, at, image>>

\* One turn of processdir's loop; a directory seen for the first time is entered.
ScanEntry ==
  /\ phase = "scan" /\ stack # <<>> /\ stack[1].left # <<>>
  /\ LET dir  == stack[1].dir
         e    == Head(stack[1].left)
         rest == <<[stack[1] EXCEPT !.left = Tail(@)]>> \o Tail(stack)
         link == IF Name(e) = Dot THEN Owner(dir)
                 ELSE IF Name(e) = DotDot THEN Parent(dir)
                 ELSE FindNode(File(e))
         n    == NodeAt(offset, Name(e), File(e), dir, link)
     IN  IF Taken(e) /\ ~Again(e)
         THEN /\ nodes' = Append(nodes, n)
              /\ offset' = EndOf(n)
              /\ stack' = IF n.kind = "dir" /\ link = 0
                          THEN <<[dir |-> Len(nodes) + 1, left |-> host[n.ino].entries]>> \o rest
                          ELSE rest
         ELSE /\ stack' = rest
              /\ UNCHANGED <<nodes, offset>>
  /\ UNCHANGED <<host, phase, todo, at, image>>

ScanLeave ==
  /\ phase = "scan" /\ stack # <<>> /\ stack[1].left = <<>>
  /\ stack' = Tail(stack)
  /\ UNCHANGED <<host, phase, nodes, offset, todo, at, image>>

-----------------------------------------------------------------------------
(* The dump. *)

\* dumpall: the header of the volume.
DumpVolume ==
  /\ phase = "scan" /\ stack = <<>> /\ Len(nodes) > 1
  /\ phase' = "dump"
  /\ image' = [p \in {0} |-> [node |-> 1, name |-> Volume, next |-> Htonl(0), spec |-> Htonl(0),
                              size |-> Htonl(offset), data |-> 0]]
  /\ at' = HeaderLen(Volume)
  /\ todo' = Children(1)
  /\ UNCHANGED <<host, nodes, offset, stack>>

\* Mutant: off by one, a header points to itself.
SiblingSelf(i) == nodes[i].off

\* The offset of the next entry of the directory, 0 for the last one.
Sibling(i) ==
  LET after == {j \in (i + 1)..Len(nodes) : nodes[j].dir = nodes[i].dir}
  IN  IF after = {} THEN 0 ELSE nodes[CHOOSE j \in after : \A k \in after : j <= k].off

FileSpec(i) ==
  LET n == nodes[i]
  IN  IF n.link # 0 THEN nodes[n.link].off
      ELSE IF n.kind # "dir" THEN 0
      ELSE IF Children(i) = <<>> THEN n.off ELSE nodes[Children(i)[1]].off

\* Padding, header, and the data, which is filled up with zeros to the size of the
\* scan, however much of the file there is by now.
Write(i) ==
  LET n == nodes[i]
      p == at + n.pad
      type == IF n.link # 0 THEN 0 ELSE 1   \* ROMFH_HRD, or one of the others
  IN  /\ image' = [q \in DOMAIN image \cup {p} |->
                     IF q = p THEN [node |-> i, name |-> n.name, next |-> Htonl(Sibling(i) + type),
                                    spec |-> Htonl(FileSpec(i)), size |-> Htonl(n.size),
                                    data |-> HeaderLen(n.name) + p]
                     ELSE image[q]]
      /\ at' = p + SpaceNeeded(n)

\* Mutant: a directory is written whole before those below it.
DumpByLevel ==
  /\ phase = "dump" /\ todo # <<>>
  /\ Write(Head(todo))
  /\ todo' = Tail(todo) \o Children(Head(todo))
  /\ UNCHANGED <<host, phase, nodes, offset, stack>>

\* dumpnode: the node, and then the nodes below.
DumpNode ==
  /\ phase = "dump" /\ todo # <<>>
  /\ Write(Head(todo))
  /\ todo' = Children(Head(todo)) \o Tail(todo)
  /\ UNCHANGED <<host, phase, nodes, offset, stack>>

DumpEnd ==
  /\ phase = "dump" /\ todo = <<>>
  /\ phase' = "done"
  /\ at' = at + (RoundUp(offset, Block) - offset)
  /\ UNCHANGED <<host, nodes, offset, stack, todo, image>>

ImageNext == ScanRoot \/ ScanEntry \/ ScanLeave \/ DumpVolume \/ DumpNode \/ DumpEnd

-----------------------------------------------------------------------------
(* Properties. *)

\* The two passes agree: every header is where the scan said it would be (that is
\* where the other headers point to), and at the end each node is written, and as
\* many bytes as the volume's header and the padding to whole blocks account for.
WrittenWhereScanned ==
  /\ \A p \in DOMAIN image : p = nodes[image[p].node].off
  /\ phase = "done" => /\ {image[p].node : p \in DOMAIN image} = 1..Len(nodes)
                       /\ at = RoundUp(Ntohl(image[0].size), Block)

\* The data of a regular file lies at a multiple of the -a option, and of the -A
\* options that name it; headers at multiples of 16, for the kernel clears the low
\* bits of the offsets it follows.
DataAligned ==
  \A p \in DOMAIN image : p # 0 =>
    LET h == image[p]
        n == nodes[h.node]
    IN  /\ p % Unit = 0
        /\ n.kind = "reg" /\ n.link = 0 => h.data % FindAlign(n.name, "reg") = 0

\* What the image must hold of directory d: one header per entry, in order; "." and
\* ".." of the root come first.
Listed(d) ==
  LET all == host[d].entries
      list[k \in 0..Len(all)] ==
        IF k # 0
        THEN IF Taken(all[k]) /\ (d = Root => all[k].name \notin {Dot, DotDot})
             THEN Append(list[k - 1], all[k])
             ELSE list[k - 1]
        ELSE IF d = Root THEN <<[name |-> Dot, ino |-> Root], [name |-> DotDot, ino |-> Outside]>>
        ELSE <<>>
  IN  list[Len(all)]
NthHeader(first, k) ==
  LET nth[j \in 1..k] == IF j = 1 THEN first
                         ELSE IF nth[j - 1] \in DOMAIN image THEN Mask(Ntohl(image[nth[j - 1]].next))
                         ELSE 0
  IN  nth[k]

\* The image shows the host's directories: following spec and then next from any
\* directory gives its entries; "." leads to the directory, ".." to the one it is
\* in, and every other entry to a header of the same file, which is no link.
ImageIsHost ==
  phase = "done" =>
    \A i \in 2..Len(nodes) : nodes[i].kind = "dir" /\ (nodes[i].link = 0) =>
      LET d     == nodes[i].ino
          list  == Listed(d)
          first == IF d = Root THEN HeaderLen(Volume) ELSE Ntohl(image[nodes[i].off].spec)
          head(k) == image[NthHeader(first, k)]
          leads(k) == LET n == nodes[head(k).node]
                      IN  IF n.link = 0 THEN n.off ELSE Ntohl(head(k).spec)
      IN  /\ \A k \in 1..Len(list) :
               /\ NthHeader(first, k) \in DOMAIN image
               /\ head(k).name = Name(list[k])
               /\ Name(list[k]) = Dot => leads(k) = nodes[i].off
               /\ Name(list[k]) = DotDot =>
                    leads(k) = nodes[IF nodes[i].dir \in {0, 1} THEN 2 ELSE nodes[i].dir].off
               /\ Name(list[k]) \notin {Dot, DotDot} =>
                    LET n == nodes[image[leads(k)].node]
                    IN  n.ino = File(list[k]) /\ n.link = 0
          /\ NthHeader(first, Len(list) + 1) = 0
=============================================================================
