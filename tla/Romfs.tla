------------------------------- MODULE Romfs -------------------------------
(***************************************************************************)
(* The romfs of the kernel (fs/romfs/romfs.c) on a RAM disk that holds an  *)
(* image of genromfs: simple_romfs_namei, which finds a file by its path,  *)
(* and romfs_get_daddr.                                                    *)
(*                                                                         *)
(* A path is the sequence of its components, the text between slashes.     *)
(* The code keeps the component it is looking for in a buffer on its       *)
(* stack, so the buffer is modelled byte by byte: what it holds at first   *)
(* is whatever was there (Junk), and only the last component of a path is  *)
(* copied with a byte that ends it.  kmalloc may fail each time.           *)
(***************************************************************************)
EXTENDS RomImage

CONSTANTS
  Paths,        \* paths namei is called with
  Junk,         \* what may lie in the buffer
  NameMax,      \* ROMFS_MAX_FILE_NAME
  StorageSize,  \* storage_size of the RAM disk
  NUL           \* the byte that ends a string

ASSUME RomfsAssumption ==
  /\ NameMax \in Nat /\ StorageSize \in Nat /\ NUL \notin Chars
  /\ Junk \subseteq [1..NameMax -> Chars \cup {NUL}]
  /\ Paths \subseteq Seq(Seq(Chars)) \ {<<>>}
  /\ \A q \in Paths : \A i \in 1..Len(q) : Len(q[i]) < NameMax

VARIABLES
  pc,     \* "idle", or in namei: "walk", "dir" (FOUNDDIR), "found"
  local,  \* dir (the components after the one in the buffer), name (the buffer),
          \* fname (the last component), next (in network order unless first, that is
          \* first_file_flag, is set) and tmp (the address of the header in p)
  held,   \* what the call has from kmalloc
  inode,  \* what the last call returned
  path,   \* history: the path of the call
  exact   \* history: no kmalloc failed, and the buffer held what was asked for

romVars == <<pc, local, held, inode, path, exact>>
vars == <<imageVars, romVars>>

\* The null pointer that stands for no inode.
None == [name |-> <<>>, daddr |-> 0, dsize |-> 0]

\* The string in a buffer: without an end it is longer than any name.
String(b) ==
  LET ends == {i \in DOMAIN b : b[i] = NUL}
  IN  IF ends = {} THEN b ELSE SubSeq(b, 1, (CHOOSE i \in ends : \A j \in ends : i <= j) - 1)

\* bmap: copies the first component of d, without its end unless it is the last.
Bmap(b, d) ==
  [i \in 1..NameMax |-> IF i <= Len(d[1]) THEN d[1][i]
                        ELSE IF i = Len(d[1]) + 1 /\ Len(d) = 1 THEN NUL ELSE b[i]]

\* Mutant: the first component instead of the last.
GetFirstName(q) == q[1]

GetTheFileName(q) == q[Len(q)]

GetFirstHeader == Mask(Len(image[0].name) + 2 * Unit)

\* Mutant: a name that fills its last sixteen bytes has no room for its end.
GetDaddrNoEnd(n) == Mask(Len(n.name) + Unit - 1) + Unit + n.daddr

\* romfs_get_daddr.
GetDaddr(n) == Mask(Len(n.name) + Unit) + Unit + n.daddr

\* Outside of a call its locals have no value.
NoLocals == [dir |-> <<>>, name |-> [i \in 1..NameMax |-> NUL], fname |-> <<>>,
             next |-> [le |-> 0], first |-> TRUE, tmp |-> 0]

RomfsInit ==
  /\ Init
  /\ pc = "idle" /\ local = NoLocals
  /\ held = {} /\ inode = None
  /\ path = <<>> /\ exact = TRUE

-----------------------------------------------------------------------------
Return(result, has) ==
  /\ pc' = "idle"
  /\ local' = NoLocals
  /\ inode' = result
  /\ held' = has

\* Mutant: an error returns without freeing p.
FailKeep == Return(None, held)

\* The way out of every error: what there is of p and inode is freed.
Fail == Return(None, {})

\* simple_romfs_namei up to its first loop; the volume's header is read.
Namei(q) ==
  /\ phase = "done" /\ pc = "idle"
  /\ path' = q
  /\ \/ Fail /\ exact' = FALSE
     \/ \E junk \in Junk :
          LET buf == Bmap(junk, q)
          IN  /\ local' = [dir |-> Tail(q), name |-> buf, fname |-> GetTheFileName(q),
                           next |-> [le |-> GetFirstHeader], first |-> TRUE, tmp |-> 0]
              /\ exact' = (String(buf) = q[1])
              /\ pc' = "walk"
              /\ held' = {"p"}
              /\ UNCHANGED inode
  /\ UNCHANGED imageVars

\* Only headers are read: at anything else, or with no component left, the call
\* would be stuck.
InStorage(t) == t \in 1..(StorageSize - 1)
Reads(t) == t \in DOMAIN image \ {0}
Matches(t) == image[t].name = String(local.name)

\* Mutant: the loop goes on with the header after the directory's.
DescendNext(t) ==
  LET buf == Bmap(local.name, local.dir)
  IN  /\ local' = [local EXCEPT !.name = buf, !.dir = Tail(@), !.next = image[t].next,
                                !.first = FALSE, !.tmp = t]
      /\ exact' = (exact /\ String(buf) = local.dir[1])
      /\ pc' = IF Len(local.dir) = 1 THEN "dir" ELSE "walk"

\* The next component, below the directory whose header is at t.
Descend(t) ==
  LET buf == Bmap(local.name, local.dir)
  IN  /\ local' = [local EXCEPT !.name = buf, !.dir = Tail(@), !.next = image[t].spec,
                                !.first = FALSE, !.tmp = t]
      /\ exact' = (exact /\ String(buf) = local.dir[1])
      /\ pc' = IF Len(local.dir) = 1 THEN "dir" ELSE "walk"

\* One turn of the first loop.
Walk ==
  /\ pc = "walk"
  /\ LET t == Mask(IF local.first THEN local.next.le ELSE Ntohl(local.next))
     IN  \/ /\ ~InStorage(t)
            /\ Fail
            /\ UNCHANGED exact
         \/ /\ InStorage(t) /\ Reads(t) /\ ~Matches(t)
            /\ local' = [local EXCEPT !.next = image[t].next, !.first = FALSE, !.tmp = t]
            /\ UNCHANGED <<pc, held, inode, exact>>
         \/ /\ InStorage(t) /\ Reads(t) /\ Matches(t) /\ image[t].name = local.fname
            /\ local' = [local EXCEPT !.first = FALSE, !.tmp = t]
            /\ pc' = "found"
            /\ UNCHANGED <<held, inode, exact>>
         \/ /\ InStorage(t) /\ Reads(t) /\ Matches(t)
            /\ image[t].name # local.fname /\ local.dir # <<>>
            /\ Descend(t)
            /\ UNCHANGED <<held, inode>>
  /\ UNCHANGED path /\ UNCHANGED imageVars

\* One turn of the second loop, FOUNDDIR.
WalkDir ==
  /\ pc = "dir"
  /\ LET t == Mask(Ntohl(local.next))
     IN  \/ t = 0 /\ Fail
         \/ /\ Reads(t) /\ Matches(t)
            /\ local' = [local EXCEPT !.tmp = t]
            /\ pc' = "found"
            /\ UNCHANGED <<held, inode>>
         \/ /\ Reads(t) /\ ~Matches(t)
            /\ local' = [local EXCEPT !.next = image[t].next, !.tmp = t]
            /\ UNCHANGED <<pc, held, inode>>
  /\ UNCHANGED <<path, exact>> /\ UNCHANGED imageVars

\* FOUND: the inode and its name; each may be denied.
Found ==
  /\ pc = "found"
  /\ \/ Fail /\ exact' = FALSE
     \/ /\ Return([name |-> image[local.tmp].name, daddr |-> local.tmp,
                   dsize |-> Ntohl(image[local.tmp].size)], {"inode", "name"})
        /\ UNCHANGED exact
  /\ UNCHANGED path /\ UNCHANGED imageVars

RomfsNext == (\E q \in Paths : Namei(q)) \/ Walk \/ WalkDir \/ Found

Next ==
  \/ ImageNext /\ UNCHANGED romVars
  \/ RomfsNext

\* The program runs on; nobody has to ask for a file.
Spec == RomfsInit /\ [][Next]_vars /\ WF_vars(Walk) /\ WF_vars(WalkDir) /\ WF_vars(Found)

-----------------------------------------------------------------------------
(* Properties. *)

TypeOK ==
  /\ phase \in {"scan", "dump", "done"}
  /\ \A p \in DOMAIN image : image[p].node \in 1..Len(nodes) /\ Ntohl(image[p].next) \in Nat
  /\ pc \in {"idle", "walk", "dir", "found"}
  /\ DOMAIN local.name = 1..NameMax
  /\ pc \in {"dir", "found"} => ~local.first /\ local.fname = path[Len(path)]
  /\ held \subseteq {"p", "inode", "name"}
  /\ path = <<>> \/ path \in Paths

\* Whatever was in the buffer, an inode is that of a file with the name at the end
\* of the path, and romfs_get_daddr and dsize are where genromfs wrote its data and
\* how much there is of it.
InodeTellsTruth ==
  inode # None /\ pc = "idle" =>
    /\ inode.daddr \in DOMAIN image \ {0}
    /\ inode.name = path[Len(path)]
    /\ GetDaddr(inode) = image[inode.daddr].data
    /\ inode.dsize = nodes[image[inode.daddr].node].size

\* Where a path leads to in the tree genromfs was given: 0 when nowhere.
Resolve(q) ==
  LET below(i, c) == {j \in 2..Len(nodes) : nodes[j].dir = i /\ nodes[j].name = c}
      f[k \in 0..Len(q)] ==
        IF k = 0 THEN 1
        ELSE IF f[k - 1] = 0 \/ below(f[k - 1], q[k]) = {} THEN 0
        ELSE CHOOSE j \in below(f[k - 1], q[k]) : \A m \in below(f[k - 1], q[k]) : j <= m
  IN  f[Len(q)]

\* Paths the code is made for: all components before the last lead to directories
\* that are not hard links, or nowhere, and none is named like the last.
Plain(q) ==
  \A k \in 1..(Len(q) - 1) :
    /\ q[k] # q[Len(q)]
    /\ LET j == Resolve(SubSeq(q, 1, k))
       IN  j = 0 \/ (nodes[j].link = 0 /\ (nodes[j].kind = "dir" => Children(j) # <<>>))

\* A lookup of such a path in which the buffer held the components asked for finds
\* the file the host has there, and nothing when it has none.
LookupExact ==
  pc = "idle" /\ path # <<>> /\ exact /\ Plain(path) =>
    IF Resolve(path) = 0 THEN inode = None
    ELSE inode # None /\ inode.daddr = nodes[Resolve(path)].off

\* Every way out of namei frees p, and on an error the inode too: what remains is
\* what the caller gets.
NothingLeaks ==
  pc = "idle" /\ phase = "done" => held = IF inode = None THEN {} ELSE {"inode", "name"}

\* Every lookup comes to an end, whatever the buffer held: the walk leaves the
\* headers only at the end of a list and never goes round.
LookupEnds == pc # "idle" ~> pc = "idle"
=============================================================================
