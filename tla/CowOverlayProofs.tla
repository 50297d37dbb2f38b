--------------------------- MODULE CowOverlayProofs ---------------------------
(***************************************************************************)
(* libcow, for any trees, files, processes, settings and descriptors, and   *)
(* whatever fails or is killed:                                             *)
(*   1. the types;                                                          *)
(*   2. no call changes an inode that two trees share;                      *)
(*   3. the table of descriptors is true for a tidy process;                *)
(*   4. a process alone in its container writes to the files its tree       *)
(*      shows;                                                              *)
(*   5. no tree shows half a copy.                                          *)
(*                                                                         *)
(* 2 and 5 have one premise, NoRace: no rename replaces a name that another *)
(* process of the container has a call in flight on, between the look of    *)
(* the library at the name and the call itself.  What the library lets      *)
(* through to the metadata of the image is in the statement of 2.           *)
(***************************************************************************)
EXTENDS CowOverlay, FiniteSetTheorems, TLAPS

Path  == Files \cup {None, Stray}
Inode == [data : Content, meta : BOOLEAN, len : Length]
Thread == [pc : {"idle", "stat", "temp", "copy", "rename", "act"}, op : Ops \cup {"none"},
           f : Path, g : Path, n : Fds \cup {0},
           tmp : Inodes \cup {None}, meta : BOOLEAN, size : Length]
Descriptor == [ino : Inodes \cup {None}, wr : BOOLEAN, path : Files \cup {None}, at : Files \cup {None}]

(* A process in a copy-up has the file it copies, and a call on names has    *)
(* its names.                                                               *)
HasNames == \A p \in Procs :
    /\ th[p].pc \in {"temp", "copy", "rename"} => th[p].g \in Files
    /\ th[p].pc = "act" /\ th[p].op \in PathOps \cup OpenOps => th[p].f \in Files /\ th[p].g \in Files
    /\ th[p].pc \in {"stat", "temp", "copy", "rename"} /\ th[p].op \in PathOps \cup OpenOps =>
          th[p].f \in Files /\ th[p].g \in Files

(* A temporary file is its maker's alone: no tree shows it, no descriptor is *)
(* open on it.                                                              *)
Owned == \A p \in Procs : th[p].tmp # None =>
    /\ \A t \in Trees, f \in Files : dir[t][f] # th[p].tmp
    /\ \A q \in Procs, n \in Fds : fds[q][n].ino # th[p].tmp
    /\ \A q \in Procs : th[q].tmp = th[p].tmp => q = p

(* What is about to be published is whole. *)
Whole == \A p \in Procs : th[p].pc = "rename" => ino[th[p].tmp].data # "part"

(* No name shows a copy that is being made. *)
NeverPart == \A t \in Trees, f \in Files : dir[t][f] # None => ino[dir[t][f]].data # "part"

CowInv == TypeOK /\ HasNames /\ Owned /\ Whole /\ NeverPart

-----------------------------------------------------------------------------
(* The home of a process is a clone. *)
LEMMA HomeIsTree ==
    ASSUME load \in Loads, NEW p \in Procs
    PROVE  Home[p] = load[p].home /\ Home[p] \in Containers /\ Home[p] \in Trees
BY CowAssumption DEF Home, Trees

(* A step that shows and holds nothing new, and makes nothing partial.      *)
LEMMA CopiesStay ==
    ASSUME CowInv,
           \A t \in Trees, f \in Files : dir'[t][f] = None
               \/ \E u \in Trees, g \in Files : dir'[t][f] = dir[u][g],
           \A q \in Procs, n \in Fds : fds'[q][n].ino = None
               \/ (\E r \in Procs, m \in Fds : fds'[q][n].ino = fds[r][m].ino)
               \/ (\E u \in Trees, g \in Files : fds'[q][n].ino = dir[u][g]),
           \A q \in Procs : /\ th'[q].tmp \in {None, th[q].tmp}
                            /\ th'[q].pc = "rename" => th[q].pc = "rename" /\ th'[q].tmp = th[q].tmp,
           \A i \in Inodes : ino'[i].data # "part" \/ ino'[i].data = ino[i].data
    PROVE  (Owned /\ Whole /\ NeverPart)'
<1> USE DEF CowInv
<1>1. Owned'
  <2> SUFFICES ASSUME NEW p \in Procs, th'[p].tmp # None
               PROVE  /\ \A t \in Trees, f \in Files : dir'[t][f] # th'[p].tmp
                      /\ \A q \in Procs, n \in Fds : fds'[q][n].ino # th'[p].tmp
                      /\ \A q \in Procs : th'[q].tmp = th'[p].tmp => q = p
    BY DEF Owned
  <2>1. th'[p].tmp = th[p].tmp /\ th[p].tmp # None
    OBVIOUS
  <2>2. ASSUME NEW t \in Trees, NEW f \in Files PROVE dir'[t][f] # th'[p].tmp
    BY <2>1 DEF Owned
  <2>3. ASSUME NEW q \in Procs, NEW n \in Fds PROVE fds'[q][n].ino # th'[p].tmp
    BY <2>1 DEF Owned
  <2>4. ASSUME NEW q \in Procs, th'[q].tmp = th'[p].tmp PROVE q = p
    BY <2>1, <2>4 DEF Owned
  <2>. QED BY <2>2, <2>3, <2>4
<1>2. Whole'
  <2> SUFFICES ASSUME NEW p \in Procs, th'[p].pc = "rename" PROVE ino'[th'[p].tmp].data # "part"
    BY DEF Whole
  <2>1. th[p].pc = "rename" /\ th'[p].tmp = th[p].tmp /\ th[p].tmp \in Inodes
    BY DEF TypeOK
  <2>. QED BY <2>1 DEF Whole
<1>3. NeverPart'
  <2> SUFFICES ASSUME NEW t \in Trees, NEW f \in Files, dir'[t][f] # None
               PROVE  ino'[dir'[t][f]].data # "part"
    BY DEF NeverPart
  <2>1. PICK u \in Trees, g \in Files : dir'[t][f] = dir[u][g]
    OBVIOUS
  <2>2. dir[u][g] \in Inodes
    BY <2>1 DEF TypeOK
  <2>. QED BY <2>1, <2>2 DEF NeverPart
<1>. QED BY <1>1, <1>2, <1>3

(* A step of one process leaves the types of the others.                     *)
LEMMA ThreadStep ==
    ASSUME CowInv, NEW p \in Procs, NEW x \in Thread, th' = [th EXCEPT ![p] = x],
           x.tmp # None <=> x.pc \in {"copy", "rename"},
           x.pc \in {"temp", "copy", "rename"} => x.g \in Files,
           x.pc # "idle" /\ x.op \in PathOps \cup OpenOps => x.f \in Files /\ x.g \in Files,
           UNCHANGED load, calls' \in [Procs -> Nat], \A q \in Procs : calls'[q] <= load[q].max,
           dir' \in [Trees -> [Files -> Inodes \cup {None}]],
           ino' \in [Inodes -> Inode],
           fds' \in [Procs -> [Fds -> Descriptor]],
           tab' \in [Procs -> [Fds -> Path]]
    PROVE  /\ TypeOK' /\ HasNames'
           /\ th'[p] = x /\ \A q \in Procs : q # p => th'[q] = th[q]
<1> USE DEF CowInv
<1>1. th'[p] = x /\ \A q \in Procs : q # p => th'[q] = th[q]
  BY DEF TypeOK
<1>2. th' \in [Procs -> Thread]
  BY DEF TypeOK, Thread, Path
<1>3. \A q \in Procs : th'[q].tmp # None <=> th'[q].pc \in {"copy", "rename"}
  BY <1>1 DEF TypeOK
<1>4. TypeOK'
  BY <1>2, <1>3 DEF TypeOK, Thread, Descriptor, Path, Inode
<1>5. HasNames'
  BY <1>1 DEF HasNames
<1>. QED BY <1>1, <1>4, <1>5

(* What the types say, in pieces. *)
LEMMA Pieces ==
    ASSUME CowInv
    PROVE  /\ dir \in [Trees -> [Files -> Inodes \cup {None}]]
           /\ ino \in [Inodes -> Inode]
           /\ fds \in [Procs -> [Fds -> Descriptor]]
           /\ tab \in [Procs -> [Fds -> Path]]
           /\ th \in [Procs -> Thread]
           /\ calls \in [Procs -> Nat] /\ \A q \in Procs : calls[q] <= load[q].max
           /\ load \in Loads /\ \A q \in Procs : load[q].max \in Nat
BY CowAssumption DEF CowInv, TypeOK, Thread, Descriptor, Path, Inode

(* A process that returns has no temporary file. *)
LEMMA OutsideIsThread == Outside \in Thread /\ Outside.pc = "idle" /\ Outside.tmp = None
BY CowAssumption DEF Outside, Thread, Path, Length

-----------------------------------------------------------------------------
(* A call begins *)

(* The number of calls stays within the load. *)
LEMMA Counted ==
    ASSUME CowInv, NEW p \in Procs, calls[p] < load[p].max, UNCHANGED load,
           calls' = [calls EXCEPT ![p] = @ + 1]
    PROVE  calls' \in [Procs -> Nat] /\ \A q \in Procs : calls'[q] <= load[q].max
<1>1. calls \in [Procs -> Nat] /\ \A q \in Procs : calls[q] <= load[q].max /\ load[q].max \in Nat
  BY Pieces
<1>. QED BY <1>1

(* A hook on a path begins with the names of its call. *)
LEMMA CallPathStep ==
    ASSUME CowInv, NEW p \in Procs, NEW op \in Ops, NEW f \in Files, NEW g \in Files,
           CallPath(p, op, f, g)
    PROVE  CowInv'
<1>1. /\ calls' \in [Procs -> Nat] /\ \A q \in Procs : calls'[q] <= load[q].max
      /\ th[p].pc = "idle" /\ UNCHANGED <<dir, ino, fds, tab, load>>
  BY Counted DEF CallPath, At
<1>2. PICK pc \in {"stat", "act"} :
         th' = [th EXCEPT ![p] = [Outside EXCEPT !.pc = pc, !.op = op, !.f = f, !.g = g]]
  <2>1. CASE th' = [th EXCEPT ![p] = [Outside EXCEPT !.op = op, !.f = f, !.g = g,
                       !.pc = IF Here(p, f) = Here(p, g) /\ Here(p, f) # None THEN "act" ELSE "stat"]]
    <3>1. CASE Here(p, f) = Here(p, g) /\ Here(p, f) # None
      BY <2>1, <3>1 DEF Outside
    <3>2. CASE ~(Here(p, f) = Here(p, g) /\ Here(p, f) # None)
      BY <2>1, <3>2 DEF Outside
    <3>. QED BY <3>1, <3>2
  <2>. QED BY <2>1 DEF CallPath
<1> DEFINE x == [Outside EXCEPT !.pc = pc, !.op = op, !.f = f, !.g = g]
<1>3. x \in Thread /\ x.pc \in {"stat", "act"} /\ x.tmp = None /\ x.f \in Files /\ x.g \in Files
  BY OutsideIsThread DEF Thread, Path
<1> HIDE DEF x
<1>4. /\ TypeOK' /\ HasNames'
      /\ th'[p] = x /\ \A q \in Procs : q # p => th'[q] = th[q]
  <2>1. th' = [th EXCEPT ![p] = x]
    BY <1>2 DEF x
  <2>. QED BY <1>1, <1>3, <2>1, Pieces, ThreadStep
<1>5. (Owned /\ Whole /\ NeverPart)'
  BY <1>1, <1>3, <1>4, CopiesStay
<1>. QED BY <1>4, <1>5 DEF CowInv

(* A hook on a descriptor copies up only with a path from the table. *)
LEMMA CallFdStep ==
    ASSUME CowInv, NEW p \in Procs, NEW op \in FdOps, NEW n \in Fds, CallFd(p, op, n)
    PROVE  CowInv'
<1>1. /\ calls' \in [Procs -> Nat] /\ \A q \in Procs : calls'[q] <= load[q].max
      /\ UNCHANGED <<dir, ino, fds, tab, load>>
  BY Counted DEF CallFd
<1> DEFINE x == [Outside EXCEPT !.op = op, !.f = tab[p][n], !.g = tab[p][n], !.n = n,
                                !.pc = IF tab[p][n] = None THEN "act" ELSE "stat"]
<1>2. th' = [th EXCEPT ![p] = x] /\ tab[p][n] \in Path
  BY Pieces DEF CallFd
<1>3. /\ x \in Thread /\ x.pc \in {"stat", "act"} /\ x.tmp = None /\ x.op \in FdOps
  BY <1>2, OutsideIsThread DEF Thread, Ops
<1> HIDE DEF x
<1>4. x.op \notin PathOps \cup OpenOps
  BY <1>3 DEF FdOps, PathOps, OpenOps
<1>5. /\ TypeOK' /\ HasNames'
      /\ th'[p] = x /\ \A q \in Procs : q # p => th'[q] = th[q]
  BY <1>1, <1>2, <1>3, <1>4, Pieces, ThreadStep
<1>6. (Owned /\ Whole /\ NeverPart)'
  BY <1>1, <1>3, <1>5, CopiesStay
<1>. QED BY <1>5, <1>6 DEF CowInv

-----------------------------------------------------------------------------
(* The copy-up *)

(* What a process in a copy-up knows. *)
LEMMA InCopyUp ==
    ASSUME CowInv, NEW p \in Procs, th[p].pc \in {"stat", "temp", "copy", "rename"}
    PROVE  /\ th[p] \in Thread /\ (th[p].pc # "stat" => th[p].g \in Files)
           /\ th[p].op \in PathOps \cup OpenOps => th[p].f \in Files /\ th[p].g \in Files
           /\ th[p].tmp # None <=> th[p].pc \in {"copy", "rename"}
BY Pieces DEF CowInv, HasNames, TypeOK

(* The look at the link count changes nothing but where the call goes on. *)
LEMMA StatStep == ASSUME CowInv, NEW p \in Procs, Stat(p) PROVE CowInv'
<1>1. /\ th[p].pc = "stat" /\ UNCHANGED <<dir, ino, fds, tab, calls, load>>
      /\ th[p].tmp = None /\ th[p] \in Thread
      /\ th[p].op \in PathOps \cup OpenOps => th[p].f \in Files /\ th[p].g \in Files
  BY InCopyUp DEF Stat, At
<1>2. \E x \in Thread : /\ th' = [th EXCEPT ![p] = x]
                        /\ x.pc \in {"act", "temp"} /\ x.tmp = None
                        /\ x.pc = "temp" => x.g \in Files
                        /\ x.op = th[p].op /\ x.f = th[p].f /\ x.g = th[p].g
  <2> DEFINE i == Here(p, th[p].g)
             a == [th[p] EXCEPT !.pc = "act"]
             b == [th[p] EXCEPT !.pc = "temp", !.meta = ino[i].meta, !.size = ino[i].len]
  <2>1. CASE i = None \/ Cardinality(Links(i)) <= 1
    <3>1. th' = [th EXCEPT ![p] = a]
      BY <2>1, Pieces DEF Stat, Goto
    <3>2. /\ a \in Thread /\ a.pc = "act" /\ a.tmp = None
          /\ a.op = th[p].op /\ a.f = th[p].f /\ a.g = th[p].g
      BY <1>1 DEF Thread
    <3> HIDE DEF a
    <3>. QED BY <3>1, <3>2
  <2>2. CASE ~(i = None \/ Cardinality(Links(i)) <= 1)
    <3>1. i \in Inodes /\ th[p].g \in Files
      BY <1>1, <2>2, Pieces, HomeIsTree DEF Here
    <3>2. ino[i].meta \in BOOLEAN /\ ino[i].len \in Length
      BY <3>1, Pieces DEF Inode
    <3>3. th' = [th EXCEPT ![p] = b]
      BY <2>2 DEF Stat, LookAt
    <3> HIDE DEF i
    <3>4. /\ b \in Thread /\ b.pc = "temp" /\ b.tmp = None
          /\ b.op = th[p].op /\ b.f = th[p].f /\ b.g = th[p].g
      BY <1>1, <3>2 DEF Thread
    <3> HIDE DEF b
    <3>. QED BY <3>1, <3>3, <3>4
  <2>. QED BY <2>1, <2>2
<1>3. PICK x \in Thread : /\ th' = [th EXCEPT ![p] = x]
                          /\ x.pc \in {"act", "temp"} /\ x.tmp = None
                          /\ x.pc = "temp" => x.g \in Files
                          /\ x.op = th[p].op /\ x.f = th[p].f /\ x.g = th[p].g
  BY <1>2
<1>4. /\ TypeOK' /\ HasNames'
      /\ th'[p] = x /\ \A q \in Procs : q # p => th'[q] = th[q]
  BY <1>1, <1>3, Pieces, ThreadStep
<1>5. (Owned /\ Whole /\ NeverPart)'
  BY <1>1, <1>3, <1>4, CopiesStay
<1>. QED BY <1>4, <1>5 DEF CowInv

(* A free inode is no name, no temporary file and behind no descriptor. *)
LEMMA FreeIsNew ==
    ASSUME NEW i \in Free
    PROVE  /\ i \in Spare /\ i \in Inodes /\ i # None
           /\ \A t \in Trees, f \in Files : dir[t][f] # i
           /\ \A q \in Procs : th[q].tmp # i
           /\ \A q \in Procs, n \in Fds : fds[q][n].ino # i
<1>1. i \in Spare /\ i \in Inodes /\ i # None
  BY CowAssumption DEF Free, Inodes
<1>2. /\ i \notin {dir[t][f] : t \in Trees, f \in Files}
      /\ i \notin {th[p].tmp : p \in Procs}
      /\ i \notin UNION {{fds[p][n].ino : n \in Fds} : p \in Procs}
  BY DEF Free, Used
<1>3. \A t \in Trees, f \in Files : dir[t][f] # i
  BY <1>2
<1>4. \A q \in Procs : th[q].tmp # i
  BY <1>2
<1>5. \A q \in Procs, n \in Fds : fds[q][n].ino # i
  BY <1>2
<1>. QED BY <1>1, <1>3, <1>4, <1>5

(* The name of the temporary file is new, and so is the inode.              *)
LEMMA MakeTempStep == ASSUME CowInv, NEW p \in Procs, MakeTemp(p) PROVE CowInv'
<1>1. /\ th[p].pc = "temp" /\ UNCHANGED <<dir, fds, tab, calls, load>>
      /\ th[p].tmp = None /\ th[p] \in Thread /\ th[p].g \in Files
      /\ th[p].op \in PathOps \cup OpenOps => th[p].f \in Files /\ th[p].g \in Files
  BY InCopyUp DEF MakeTemp, At
<1>2. PICK i \in Free :
         /\ ino' = [ino EXCEPT ![i] = [data |-> IF CopiesData(th[p].op) THEN "part" ELSE "own",
                                       meta |-> th[p].meta, len |-> 0]]
         /\ th' = [th EXCEPT ![p] = [th[p] EXCEPT !.tmp = i,
                                        !.pc = IF CopiesData(th[p].op) THEN "copy" ELSE "rename"]]
  BY DEF MakeTemp
<1>3. /\ i \in Spare /\ i \in Inodes /\ i # None
      /\ \A t \in Trees, f \in Files : dir[t][f] # i
      /\ \A q \in Procs : th[q].tmp # i
      /\ \A q \in Procs, n \in Fds : fds[q][n].ino # i
  BY FreeIsNew
<1> DEFINE c == CopiesData(th[p].op)
           x == [th[p] EXCEPT !.tmp = i, !.pc = IF c THEN "copy" ELSE "rename"]
<1>4. /\ x \in Thread /\ x.tmp = i /\ x.op = th[p].op /\ x.f = th[p].f /\ x.g = th[p].g
      /\ x.pc = IF c THEN "copy" ELSE "rename"
  BY <1>1, <1>3 DEF Thread
<1>5. /\ ino' \in [Inodes -> Inode]
      /\ \A j \in Inodes : j # i => ino'[j] = ino[j]
      /\ ino'[i].data = IF c THEN "part" ELSE "own"
  <2>1. th[p].meta \in BOOLEAN
    BY <1>1 DEF Thread
  <2>2. 0 \in Length
    BY CowAssumption DEF Length
  <2>. QED BY <1>2, <1>3, <2>1, <2>2, Pieces DEF Content, Inode
<1> HIDE DEF x, c
<1>6. /\ TypeOK' /\ HasNames'
      /\ th'[p] = x /\ \A q \in Procs : q # p => th'[q] = th[q]
  <2>1. th' = [th EXCEPT ![p] = x]
    BY <1>2 DEF x, c
  <2>2. x.tmp # None /\ x.pc \in {"copy", "rename"}
    BY <1>3, <1>4
  <2>. QED BY <1>1, <1>3, <1>4, <1>5, <2>1, <2>2, Pieces, ThreadStep
<1>7. Owned'
  BY <1>1, <1>3, <1>4, <1>6 DEF CowInv, Owned
<1>8. Whole'
  <2> SUFFICES ASSUME NEW q \in Procs, th'[q].pc = "rename" PROVE ino'[th'[q].tmp].data # "part"
    BY DEF Whole
  <2>1. CASE q = p
    BY <1>4, <1>5, <1>6, <2>1
  <2>2. CASE q # p
    <3>1. th[q].pc = "rename" /\ th'[q] = th[q] /\ th[q].tmp \in Inodes /\ th[q].tmp # i
      BY <1>3, <1>6, <2>2 DEF CowInv, TypeOK
    <3>. QED BY <1>5, <3>1 DEF CowInv, Whole
  <2>. QED BY <2>1, <2>2
<1>9. NeverPart'
  <2> SUFFICES ASSUME NEW t \in Trees, NEW f \in Files, dir[t][f] # None
               PROVE  ino'[dir[t][f]].data # "part"
    BY <1>1 DEF NeverPart
  <2>1. dir[t][f] \in Inodes /\ dir[t][f] # i
    BY <1>3, Pieces
  <2>. QED BY <1>5, <2>1 DEF CowInv, NeverPart
<1>. QED BY <1>6, <1>7, <1>8, <1>9 DEF CowInv

(* The copy has what the name shows, which is whole. *)
LEMMA CopyDataStep == ASSUME CowInv, NEW p \in Procs, CopyData(p) PROVE CowInv'
<1> DEFINE j == Here(p, th[p].g)
           k == th[p].tmp
           x == [th[p] EXCEPT !.pc = "rename"]
<1>1. /\ th[p].pc = "copy" /\ UNCHANGED <<dir, fds, tab, calls, load>>
      /\ k # None /\ th[p] \in Thread /\ th[p].g \in Files
      /\ th[p].op \in PathOps \cup OpenOps => th[p].f \in Files /\ th[p].g \in Files
      /\ j # None /\ th' = [th EXCEPT ![p] = x]
  BY InCopyUp, Pieces DEF CopyData, At, Goto
<1>2. k \in Inodes /\ j \in Inodes /\ j = dir[Home[p]][th[p].g] /\ Home[p] \in Trees
  BY <1>1, Pieces, HomeIsTree DEF Here, Thread
<1>3. ino[j].data # "part" /\ ino[j] \in Inode
  BY <1>1, <1>2, Pieces DEF CowInv, NeverPart
<1>30. PICK y \in Copies(ino[j], th[p].size) :
          ino' = [ino EXCEPT ![k] = [data |-> y.data, meta |-> th[p].meta, len |-> y.len]]
  BY DEF CopyData
<1>31. y.data \in Content \ {"part"} /\ y.len \in Length /\ th[p].meta \in BOOLEAN
  BY <1>1, <1>3 DEF Copies, Inode, Content, Length, Thread
<1>4. /\ x \in Thread /\ x.tmp = k /\ x.pc = "rename" /\ x.op = th[p].op
      /\ x.f = th[p].f /\ x.g = th[p].g
  BY <1>1 DEF Thread
<1> HIDE DEF j, k, x
<1>5. /\ ino' \in [Inodes -> Inode]
      /\ \A i \in Inodes : i # k => ino'[i] = ino[i]
      /\ ino'[k].data # "part"
  <2>1. [data |-> y.data, meta |-> th[p].meta, len |-> y.len] \in Inode
    BY <1>31 DEF Inode
  <2>. QED BY <1>2, <1>30, <1>31, <2>1, Pieces
<1>6. /\ TypeOK' /\ HasNames'
      /\ th'[p] = x /\ \A q \in Procs : q # p => th'[q] = th[q]
  BY <1>1, <1>4, <1>5, Pieces, ThreadStep
<1>7. \A q \in Procs : th'[q].tmp = th[q].tmp
  BY <1>4, <1>6 DEF k
<1>8. Owned'
  BY <1>1, <1>7 DEF CowInv, Owned
<1>9. Whole'
  <2> SUFFICES ASSUME NEW q \in Procs, th'[q].pc = "rename" PROVE ino'[th'[q].tmp].data # "part"
    BY DEF Whole
  <2>1. CASE q = p
    BY <1>4, <1>5, <1>6, <2>1
  <2>2. CASE q # p
    <3>1. th[q].pc = "rename" /\ th'[q] = th[q] /\ th[q].tmp \in Inodes
      BY <1>6, <2>2 DEF CowInv, TypeOK
    <3>. QED BY <1>5, <3>1 DEF CowInv, Whole
  <2>. QED BY <2>1, <2>2
<1>10. NeverPart'
  <2> SUFFICES ASSUME NEW t \in Trees, NEW f \in Files, dir[t][f] # None
               PROVE  ino'[dir[t][f]].data # "part"
    BY <1>1 DEF NeverPart
  <2>1. dir[t][f] \in Inodes
    BY Pieces
  <2>. QED BY <1>5, <2>1 DEF CowInv, NeverPart
<1>. QED BY <1>6, <1>8, <1>9, <1>10 DEF CowInv

(* The rename shows the copy and nothing else.                              *)
LEMMA PublishStep == ASSUME CowInv, NEW p \in Procs, Publish(p) PROVE CowInv'
<1> DEFINE k == th[p].tmp
           x == [th[p] EXCEPT !.tmp = None, !.pc = "act"]
           c == Home[p]
           g == th[p].g
<1>1. /\ th[p].pc = "rename" /\ UNCHANGED <<ino, fds, tab, calls, load>>
      /\ k # None /\ th[p] \in Thread /\ g \in Files
      /\ th[p].op \in PathOps \cup OpenOps => th[p].f \in Files /\ th[p].g \in Files
      /\ dir' = [dir EXCEPT ![c][g] = k] /\ th' = [th EXCEPT ![p] = x]
  BY InCopyUp DEF Publish, At
<1>2. k \in Inodes /\ c \in Trees
  BY <1>1, Pieces, HomeIsTree DEF Thread
<1>3. /\ x \in Thread /\ x.tmp = None /\ x.pc = "act" /\ x.op = th[p].op
      /\ x.f = th[p].f /\ x.g = th[p].g
  BY <1>1 DEF Thread
<1>4. ino[k].data # "part"
  BY <1>1 DEF CowInv, Whole
<1> HIDE DEF k, x, c
<1>5. /\ dir' \in [Trees -> [Files -> Inodes \cup {None}]]
      /\ \A t \in Trees, f \in Files : dir'[t][f] = k \/ dir'[t][f] = dir[t][f]
  BY <1>1, <1>2, Pieces
<1>6. /\ TypeOK' /\ HasNames'
      /\ th'[p] = x /\ \A q \in Procs : q # p => th'[q] = th[q]
  BY <1>1, <1>3, <1>5, Pieces, ThreadStep
<1>7. Owned'
  <2> SUFFICES ASSUME NEW q \in Procs, th'[q].tmp # None
               PROVE  /\ \A t \in Trees, f \in Files : dir'[t][f] # th'[q].tmp
                      /\ \A r \in Procs, n \in Fds : fds'[r][n].ino # th'[q].tmp
                      /\ \A r \in Procs : th'[r].tmp = th'[q].tmp => r = q
    BY DEF Owned
  <2>1. q # p /\ th'[q] = th[q]
    BY <1>3, <1>6
  <2>2. th[q].tmp # k
    BY <1>1, <2>1 DEF CowInv, Owned, k
  <2>3. \A t \in Trees, f \in Files : dir'[t][f] # th'[q].tmp
    BY <1>5, <2>1, <2>2 DEF CowInv, Owned
  <2>4. \A r \in Procs, n \in Fds : fds'[r][n].ino # th'[q].tmp
    BY <1>1, <2>1 DEF CowInv, Owned
  <2>5. \A r \in Procs : th'[r].tmp = th'[q].tmp => r = q
    BY <1>3, <1>6, <2>1 DEF CowInv, Owned
  <2>. QED BY <2>3, <2>4, <2>5
<1>8. Whole'
  BY <1>1, <1>3, <1>6 DEF CowInv, Whole
<1>9. NeverPart'
  BY <1>1, <1>4, <1>5 DEF CowInv, NeverPart
<1>. QED BY <1>6, <1>7, <1>8, <1>9 DEF CowInv

-----------------------------------------------------------------------------
(* The call itself: the process returns *)

(* A step that ends a call, opens nothing new and makes nothing partial.     *)
LEMMA ReturnStep ==
    ASSUME CowInv, NEW p \in Procs, Return(p), UNCHANGED <<calls, load>>,
           dir' \in [Trees -> [Files -> Inodes \cup {None}]],
           ino' \in [Inodes -> Inode],
           fds' \in [Procs -> [Fds -> Descriptor]],
           tab' \in [Procs -> [Fds -> Path]],
           \A t \in Trees, f \in Files : dir'[t][f] = None
               \/ \E u \in Trees, g \in Files : dir'[t][f] = dir[u][g],
           \A q \in Procs, n \in Fds : fds'[q][n].ino = None
               \/ (\E r \in Procs, m \in Fds : fds'[q][n].ino = fds[r][m].ino)
               \/ (\E u \in Trees, g \in Files : fds'[q][n].ino = dir[u][g]),
           \A i \in Inodes : ino'[i].data # "part" \/ ino'[i].data = ino[i].data
    PROVE  CowInv'
<1>1. /\ TypeOK' /\ HasNames'
      /\ th'[p] = Outside /\ \A q \in Procs : q # p => th'[q] = th[q]
  BY OutsideIsThread, Pieces, ThreadStep DEF Return
<1>2. \A q \in Procs : /\ th'[q].tmp \in {None, th[q].tmp}
                       /\ th'[q].pc = "rename" => th[q].pc = "rename" /\ th'[q].tmp = th[q].tmp
  BY <1>1, OutsideIsThread
<1>3. (Owned /\ Whole /\ NeverPart)'
  BY <1>2, CopiesStay
<1>. QED BY <1>1, <1>3 DEF CowInv

(* What the calls do to an inode. *)
Alter(i) == Touch(i) \/ (\E n \in Length : Write(i, n)) \/ UNCHANGED ino

(* Touch and Write make nothing partial, whatever inode they are given.      *)
LEMMA Changed ==
    ASSUME CowInv, NEW i, Alter(i)
    PROVE  /\ ino' \in [Inodes -> Inode]
           /\ \A j \in Inodes : ino'[j].data # "part" \/ ino'[j].data = ino[j].data
           /\ \A j \in Inodes : j # i => ino'[j] = ino[j]
           /\ \A j \in Inodes : ino[j].data # "prefix" => ino'[j].data # "prefix"
<1>1. ino \in [Inodes -> Inode]
  BY Pieces
<1>2. CASE i \notin Inodes
  <2>1. ino' = ino
    BY <1>1, <1>2 DEF Alter, Touch, Write
  <2>. QED BY <1>1, <2>1
<1>3. CASE Touch(i) /\ i \in Inodes
  BY <1>1, <1>3 DEF Touch, Inode
<1>4. CASE i \in Inodes /\ \E n \in Length : Write(i, n)
  <2>1. PICK n \in Length, d \in {"prefix", "own"} :
          /\ ino' = [ino EXCEPT ![i] = [data |-> d, meta |-> ino[i].meta, len |-> n]]
          /\ d = "prefix" => ino[i].data = "prefix"
    BY <1>4 DEF Write
  <2>2. [data |-> d, meta |-> ino[i].meta, len |-> n] \in Inode
    BY <1>1, <1>4 DEF Inode, Content
  <2>. QED BY <1>1, <1>4, <2>1, <2>2
<1>5. CASE UNCHANGED ino
  BY <1>1, <1>5
<1>. QED BY <1>2, <1>3, <1>4, <1>5 DEF Alter

(* A copy-up that fails drops its temporary file. *)
LEMMA FailsStep == ASSUME CowInv, NEW p \in Procs, CopyUpFails(p) PROVE CowInv'
<1>1. Return(p) /\ UNCHANGED <<dir, ino, fds, tab, calls, load>>
  BY DEF CopyUpFails
<1>. QED BY <1>1, Pieces, ReturnStep

(* Lengths a call may leave. *)
LEMMA Lengths == 0 \in Length /\ \A n \in 1..MaxLen : n \in Length
BY CowAssumption DEF Length

(* A call on a path changes one inode that the tree shows. *)
LEMMA ActPathStep == ASSUME CowInv, NEW p \in Procs, ActPath(p) PROVE CowInv'
<1>1. Return(p) /\ UNCHANGED <<dir, fds, tab, calls, load>> /\ Alter(Here(p, th[p].f))
  BY Lengths DEF ActPath, Alter
<1>. QED BY <1>1, Pieces, Changed, ReturnStep

(* A call on a descriptor changes one inode, of its path or its own. *)
LEMMA ActFdAlters ==
    ASSUME NEW p \in Procs, ActFd(p)
    PROVE  LET i == IF th[p].f # None THEN Here(p, th[p].f)
                    ELSE IF th[p].op = "fchmod" \/ fds[p][th[p].n].wr THEN fds[p][th[p].n].ino ELSE None
           IN  Alter(i)
BY Lengths DEF ActFd, Alter

(* The calls on descriptors keep what the call on a path does. *)
LEMMA ActFdStep == ASSUME CowInv, NEW p \in Procs, ActFd(p) \/ ActSyscall(p) PROVE CowInv'
<1>1. Return(p) /\ UNCHANGED <<dir, fds, tab, calls, load>>
  BY DEF ActFd, ActSyscall
<1>2. \E i : Alter(i)
  BY ActFdAlters DEF ActSyscall, Alter
<1>. QED BY <1>1, <1>2, Pieces, Changed, ReturnStep

(* A file that is created has a new inode. *)
LEMMA ActOpenStep == ASSUME CowInv, NEW p \in Procs, ActOpen(p) PROVE CowInv'
<1> DEFINE f == th[p].f
           c == Home[p]
           i == Here(p, f)
           wr == th[p].op # "openread"
<1>1. /\ Return(p) /\ UNCHANGED <<calls, load>> /\ th[p].pc = "act" /\ th[p].op \in OpenOps
  BY DEF ActOpen, At
<1>2. f \in Files /\ c \in Trees /\ i = dir[c][f] /\ wr \in BOOLEAN
  BY <1>1, HomeIsTree, Pieces DEF CowInv, HasNames, Here
<1>3. CASE UNCHANGED <<fds, tab, dir, ino>>
  BY <1>1, <1>3, Pieces, ReturnStep
<1>4. ASSUME NEW n \in Fds, NEW j \in (IF i = None THEN Free ELSE {i}),
             fds' = [fds EXCEPT ![p][n] = [ino |-> j, wr |-> wr, path |-> f, at |-> f]],
             Tracked(p, n, f), dir' = [dir EXCEPT ![c][f] = j],
             ino' = IF i = None THEN [ino EXCEPT ![j] = New]
                    ELSE IF th[p].op = "opentrunc" THEN [ino EXCEPT ![j] = [New EXCEPT !.meta = ino[j].meta]]
                    ELSE ino
      PROVE  CowInv'
  <2>1. j \in Inodes
    <3>1. CASE i = None
      BY <1>4, <3>1, FreeIsNew
    <3>2. CASE i # None
      BY <1>2, <1>4, <3>2, Pieces
    <3>. QED BY <3>1, <3>2
  <2> HIDE DEF f, c, i, wr
  <2>2. tab' \in [Procs -> [Fds -> Path]]
    BY <1>2, <1>4, Pieces DEF Tracked, Path
  <2>3. /\ fds' \in [Procs -> [Fds -> Descriptor]]
        /\ \A q \in Procs, m \in Fds : fds'[q][m].ino = j \/ fds'[q][m].ino = fds[q][m].ino
    <3>1. [ino |-> j, wr |-> wr, path |-> f, at |-> f] \in Descriptor
      BY <1>2, <2>1 DEF Descriptor
    <3>. QED BY <1>4, <3>1, Pieces
  <2>4. /\ dir' \in [Trees -> [Files -> Inodes \cup {None}]]
        /\ \A t \in Trees, g \in Files : dir'[t][g] = j \/ dir'[t][g] = dir[t][g]
    BY <1>2, <1>4, <2>1, Pieces
  <2>5. CASE i # None
    <3>1. j = dir[c][f]
      BY <1>2, <1>4, <2>5
    <3>2. Alter(j)
      <4>1. [New EXCEPT !.meta = ino[j].meta] = [data |-> "own", meta |-> ino[j].meta, len |-> 0]
        BY DEF New
      <4>. QED BY <1>4, <2>5, <4>1, Lengths DEF Write, Alter
    <3>3. /\ ino' \in [Inodes -> Inode]
          /\ \A k \in Inodes : ino'[k].data # "part" \/ ino'[k].data = ino[k].data
      BY <3>2, Changed
    <3>. QED BY <1>1, <1>2, <2>2, <2>3, <2>4, <3>1, <3>3, ReturnStep
  <2>6. CASE i = None
    <3>1. /\ \A t \in Trees, g \in Files : dir[t][g] # j
          /\ \A q \in Procs : th[q].tmp # j
      BY <1>4, <2>6, FreeIsNew
    <3>2. /\ ino' \in [Inodes -> Inode]
          /\ ino'[j].data # "part" /\ \A k \in Inodes : k # j => ino'[k] = ino[k]
      BY <1>4, <2>1, <2>6, Lengths, Pieces DEF New, Content, Inode
    <3>3. /\ TypeOK' /\ HasNames'
          /\ th'[p] = Outside /\ \A q \in Procs : q # p => th'[q] = th[q]
      BY <1>1, <2>2, <2>3, <2>4, <3>2, OutsideIsThread, Pieces, ThreadStep DEF Return
    <3>4. \A q \in Procs : /\ th'[q].tmp \in {None, th[q].tmp}
                           /\ th'[q].pc = "rename" => th[q].pc = "rename" /\ th'[q].tmp = th[q].tmp
      BY <3>3, OutsideIsThread
    <3>5. Owned'
      <4> SUFFICES ASSUME NEW q \in Procs, th'[q].tmp # None
                   PROVE  /\ \A t \in Trees, g \in Files : dir'[t][g] # th'[q].tmp
                          /\ \A r \in Procs, m \in Fds : fds'[r][m].ino # th'[q].tmp
                          /\ \A r \in Procs : th'[r].tmp = th'[q].tmp => r = q
        BY DEF Owned
      <4>1. th'[q].tmp = th[q].tmp /\ th[q].tmp # j
        BY <3>1, <3>4
      <4>2. /\ \A t \in Trees, g \in Files : dir'[t][g] # th'[q].tmp
            /\ \A r \in Procs, m \in Fds : fds'[r][m].ino # th'[q].tmp
        BY <2>3, <2>4, <4>1 DEF CowInv, Owned
      <4>3. \A r \in Procs : th'[r].tmp = th'[q].tmp => r = q
        BY <3>4, <4>1 DEF CowInv, Owned
      <4>. QED BY <4>2, <4>3
    <3>6. Whole'
      <4> SUFFICES ASSUME NEW q \in Procs, th'[q].pc = "rename" PROVE ino'[th'[q].tmp].data # "part"
        BY DEF Whole
      <4>1. th[q].pc = "rename" /\ th'[q].tmp = th[q].tmp /\ th[q].tmp # j /\ th[q].tmp \in Inodes
        BY <3>1, <3>4 DEF CowInv, TypeOK
      <4>. QED BY <3>2, <4>1 DEF CowInv, Whole
    <3>7. NeverPart'
      <4> SUFFICES ASSUME NEW t \in Trees, NEW g \in Files, dir'[t][g] # None
                   PROVE  ino'[dir'[t][g]].data # "part"
        BY DEF NeverPart
      <4>1. CASE dir'[t][g] = j
        BY <3>2, <4>1
      <4>2. CASE dir'[t][g] # j
        <5>1. dir'[t][g] = dir[t][g] /\ dir[t][g] \in Inodes
          BY <2>4, <4>2, Pieces
        <5>. QED BY <3>2, <4>2, <5>1 DEF CowInv, NeverPart
      <4>. QED BY <4>1, <4>2
    <3>. QED BY <3>3, <3>5, <3>6, <3>7 DEF CowInv
  <2>. QED BY <2>5, <2>6
<1>5. FreeFd(p) \subseteq Fds
  BY DEF FreeFd
<1>. QED BY <1>3, <1>4, <1>5 DEF ActOpen

(* A rename moves an inode from name to name. *)
LEMMA ActRenameStep == ASSUME CowInv, NEW p \in Procs, ActRename(p) PROVE CowInv'
<1> DEFINE f == th[p].f
           g == th[p].g
           c == Home[p]
<1>1. Return(p) /\ UNCHANGED <<ino, tab, calls, load>> /\ th[p].pc = "act" /\ th[p].op = "rename"
  BY DEF ActRename, At
<1>2. f \in Files /\ g \in Files /\ c \in Trees
  BY <1>1, HomeIsTree, Pieces DEF CowInv, HasNames, PathOps
<1>3. CASE UNCHANGED <<dir, fds>>
  BY <1>1, <1>3, Pieces, ReturnStep
<1>4. CASE /\ dir' = [dir EXCEPT ![c][g] = dir[c][f], ![c][f] = None]
           /\ fds' = [q \in Procs |-> [n \in Fds |->
                        IF Home[q] # c THEN fds[q][n]
                        ELSE [fds[q][n] EXCEPT !.at = IF @ = g THEN None ELSE IF @ = f THEN g ELSE @]]]
  <2> HIDE DEF f, g, c
  <2>1. /\ dir' \in [Trees -> [Files -> Inodes \cup {None}]]
        /\ \A t \in Trees, h \in Files : dir'[t][h] = None \/ \E u \in Trees, k \in Files : dir'[t][h] = dir[u][k]
    <3>1. dir[c] \in [Files -> Inodes \cup {None}] /\ dir[c][f] \in Inodes \cup {None}
      BY <1>2, Pieces
    <3>2. \A t \in Trees, h \in Files : dir'[t][h] \in {None, dir[c][f], dir[t][h]}
      BY <1>2, <1>4, Pieces
    <3>3. dir' \in [Trees -> [Files -> Inodes \cup {None}]]
      BY <1>2, <1>4, <3>1, Pieces
    <3>. QED BY <1>2, <3>2, <3>3
  <2>2. ASSUME NEW q \in Procs, NEW n \in Fds
        PROVE  fds'[q][n] \in Descriptor /\ fds'[q][n].ino = fds[q][n].ino
    <3>1. fds[q][n] \in Descriptor
      BY Pieces
    <3>2. CASE Home[q] # c
      BY <1>4, <3>1, <3>2
    <3>3. CASE Home[q] = c
      <4> DEFINE a == IF fds[q][n].at = g THEN None ELSE IF fds[q][n].at = f THEN g ELSE fds[q][n].at
      <4>1. a \in Files \cup {None}
        BY <1>2, <3>1 DEF Descriptor
      <4>2. fds'[q][n] = [fds[q][n] EXCEPT !.at = a]
        BY <1>4, <3>3
      <4> HIDE DEF a
      <4>. QED BY <3>1, <4>1, <4>2 DEF Descriptor
    <3>. QED BY <3>2, <3>3
  <2>3. fds' \in [Procs -> [Fds -> Descriptor]]
    <3>1. \A q \in Procs, n \in Fds : fds'[q][n] \in Descriptor
      BY <2>2
    <3>2. fds' = [q \in Procs |-> [n \in Fds |-> fds'[q][n]]]
      BY <1>4
    <3>. QED BY <3>1, <3>2
  <2>. QED BY <1>1, <2>1, <2>2, <2>3, Pieces, ReturnStep
<1>. QED BY <1>3, <1>4 DEF ActRename

(* A killed process leaves the temporary name, not its inode.               *)
LEMMA KillStep == ASSUME CowInv, NEW p \in Procs, Kill(p) PROVE CowInv'
<1>1. /\ Return(p) /\ UNCHANGED <<dir, ino, calls, load>>
      /\ fds' = [fds EXCEPT ![p] = [n \in Fds |-> Closed]]
      /\ tab' = [tab EXCEPT ![p] = [n \in Fds |-> None]]
  BY DEF Kill
<1>2. Closed \in Descriptor /\ Closed.ino = None
  BY DEF Closed, Descriptor
<1>3. /\ fds' \in [Procs -> [Fds -> Descriptor]]
      /\ \A q \in Procs, n \in Fds : fds'[q][n].ino \in {None, fds[q][n].ino}
  BY <1>1, <1>2, Pieces
<1>4. tab' \in [Procs -> [Fds -> Path]]
  BY <1>1, Pieces DEF Path
<1>. QED BY <1>1, <1>3, <1>4, Pieces, ReturnStep

-----------------------------------------------------------------------------
(* Calls without a copy-up *)

(* A call without a copy-up takes names away or opens what is open. *)
LEMMA DirectStep ==
    ASSUME CowInv, UNCHANGED <<th, load>>,
           calls' \in [Procs -> Nat], \A q \in Procs : calls'[q] <= load[q].max,
           dir' \in [Trees -> [Files -> Inodes \cup {None}]],
           ino' \in [Inodes -> Inode],
           fds' \in [Procs -> [Fds -> Descriptor]],
           tab' \in [Procs -> [Fds -> Path]],
           \A t \in Trees, f \in Files : dir'[t][f] \in {None, dir[t][f]},
           \A q \in Procs, n \in Fds : fds'[q][n].ino = None
               \/ (\E r \in Procs, m \in Fds : fds'[q][n].ino = fds[r][m].ino),
           \A i \in Inodes : ino'[i].data # "part" \/ ino'[i].data = ino[i].data
    PROVE  CowInv'
<1>1. TypeOK' /\ HasNames'
  BY DEF CowInv, TypeOK, HasNames, Descriptor, Path, Inode
<1>2. (Owned /\ Whole /\ NeverPart)'
  BY CopiesStay
<1>. QED BY <1>1, <1>2 DEF CowInv

(* The calls past the hooks, and those that keep the table. *)
LEMMA WriteFdStep == ASSUME CowInv, NEW p \in Procs, NEW n \in Fds, WriteFd(p, n) PROVE CowInv'
<1>1. /\ UNCHANGED <<dir, fds, tab, th, load>> /\ Alter(fds[p][n].ino)
      /\ calls' \in [Procs -> Nat] /\ \A q \in Procs : calls'[q] <= load[q].max
  BY Counted DEF WriteFd, Begin, Alter
<1>. QED BY <1>1, Changed, Pieces, DirectStep

(* A closed descriptor is open on nothing. *)
LEMMA CloseStep ==
    ASSUME CowInv, NEW p \in Procs, NEW n \in Fds, Close(p, n) \/ Fclose(p, n)
    PROVE  CowInv'
<1>1. /\ UNCHANGED <<dir, ino, th, load>> /\ fds' = [fds EXCEPT ![p][n] = Closed]
      /\ tab' = tab \/ tab' = [tab EXCEPT ![p][n] = None]
      /\ calls' \in [Procs -> Nat] /\ \A q \in Procs : calls'[q] <= load[q].max
  BY Counted DEF Close, Fclose, Begin
<1>2. Closed \in Descriptor /\ Closed.ino = None
  BY DEF Closed, Descriptor
<1>3. /\ fds' \in [Procs -> [Fds -> Descriptor]]
      /\ \A q \in Procs, m \in Fds : fds'[q][m].ino \in {None, fds[q][m].ino}
  BY <1>1, <1>2, Pieces
<1>4. tab' \in [Procs -> [Fds -> Path]]
  <2>1. CASE tab' = tab
    BY <2>1, Pieces
  <2>2. CASE tab' = [tab EXCEPT ![p][n] = None]
    BY <2>2, Pieces DEF Path
  <2>. QED BY <1>1, <2>1, <2>2
<1>. QED BY <1>1, <1>3, <1>4, Pieces, DirectStep

(* A duplicate is open on what its original is. *)
LEMMA DupStep ==
    ASSUME CowInv, NEW p \in Procs, NEW n \in Fds, NEW m \in Fds, Dup(p, n, m) \/ Dup2(p, n, m)
    PROVE  CowInv'
<1>1. /\ UNCHANGED <<dir, ino, th, load>> /\ fds' = [fds EXCEPT ![p][m] = fds[p][n]]
      /\ tab' = tab \/ tab' = [tab EXCEPT ![p][m] = tab[p][n]]
      /\ calls' \in [Procs -> Nat] /\ \A q \in Procs : calls'[q] <= load[q].max
  BY Counted DEF Dup, Dup2, Begin
<1>2. /\ fds' \in [Procs -> [Fds -> Descriptor]]
      /\ \A q \in Procs, k \in Fds : fds'[q][k].ino \in {fds[p][n].ino, fds[q][k].ino}
  BY <1>1, Pieces
<1>3. tab' \in [Procs -> [Fds -> Path]]
  <2>1. CASE tab' = tab
    BY <2>1, Pieces
  <2>2. CASE tab' = [tab EXCEPT ![p][m] = tab[p][n]]
    <3>1. tab[p][n] \in Path
      BY Pieces
    <3>. QED BY <2>2, <3>1, Pieces
  <2>. QED BY <1>1, <2>1, <2>2
<1>. QED BY <1>1, <1>2, <1>3, Pieces, DirectStep

(* A dup2 onto itself opens nothing. *)
LEMMA SelfStep == ASSUME CowInv, NEW p \in Procs, NEW n \in Fds, Dup2Self(p, n) PROVE CowInv'
<1>1. /\ UNCHANGED <<dir, ino, fds, th, load>>
      /\ tab' = tab \/ tab' = [tab EXCEPT ![p][n] = Stray]
      /\ calls' \in [Procs -> Nat] /\ \A q \in Procs : calls'[q] <= load[q].max
  BY Counted DEF Dup2Self, Begin
<1>2. tab' \in [Procs -> [Fds -> Path]]
  <2>1. CASE tab' = tab
    BY <2>1, Pieces
  <2>2. CASE tab' = [tab EXCEPT ![p][n] = Stray]
    BY <2>2, Pieces DEF Path
  <2>. QED BY <1>1, <2>1, <2>2
<1>. QED BY <1>1, <1>2, Pieces, DirectStep

(* A removed image leaves the inodes of its clones. *)
LEMMA RemoveStep == CowInv /\ RemoveImage => CowInv'
<1> SUFFICES ASSUME CowInv, RemoveImage PROVE CowInv'
  OBVIOUS
<1>1. /\ dir' = [dir EXCEPT ![Image] = [f \in Files |-> None]]
      /\ UNCHANGED <<ino, fds, tab, th, calls, load>>
  BY DEF RemoveImage
<1>2. /\ dir' \in [Trees -> [Files -> Inodes \cup {None}]]
      /\ \A t \in Trees, f \in Files : dir'[t][f] \in {None, dir[t][f]}
  BY <1>1, Pieces
<1>. QED BY <1>1, <1>2, Pieces, DirectStep

-----------------------------------------------------------------------------
(* The invariant *)

(* Every name shows the image, and nobody is in a call. *)
LEMMA InitInv == Init => CowInv
<1> SUFFICES ASSUME Init PROVE CowInv
  OBVIOUS
<1> USE DEF Init
<1>1. /\ ino \in [Inodes -> Inode]
      /\ \A i \in Inodes : ino[i].data # "part"
  BY CowAssumption DEF Pristine, New, Content, Inodes, Inode, Length
<1>2. Closed \in Descriptor
  BY DEF Closed, Descriptor
<1>3. /\ dir \in [Trees -> [Files -> Inodes \cup {None}]]
      /\ th \in [Procs -> Thread]
      /\ tab \in [Procs -> [Fds -> Path]]
      /\ fds \in [Procs -> [Fds -> Descriptor]]
  BY <1>2, OutsideIsThread DEF Inodes, Path
<1>4. calls \in [Procs -> Nat] /\ \A p \in Procs : calls[p] <= load[p].max
  <2>1. \A p \in Procs : load[p].max \in Nat
    BY CowAssumption
  <2>. QED BY <2>1
<1>5. \A p \in Procs : th[p].tmp = None /\ th[p].pc = "idle"
  BY OutsideIsThread
<1>6. TypeOK
  BY <1>1, <1>3, <1>4, <1>5 DEF TypeOK, Thread, Descriptor, Path, Inode
<1>7. HasNames /\ Owned /\ Whole
  BY <1>5 DEF HasNames, Owned, Whole
<1>8. NeverPart
  BY <1>1, <1>3 DEF NeverPart
<1>. QED BY <1>6, <1>7, <1>8 DEF CowInv

(* One lemma per operation. *)
LEMMA StepInv == CowInv /\ [Next]_vars => CowInv'
<1> SUFFICES ASSUME CowInv, [Next]_vars PROVE CowInv'
  OBVIOUS
<1>1. ASSUME NEW p \in Procs, NEW op \in Ops, NEW f \in Files, NEW g \in Files, CallPath(p, op, f, g)
      PROVE  CowInv'
  BY <1>1, CallPathStep
<1>2. ASSUME NEW p \in Procs, NEW op \in FdOps, NEW n \in Fds, CallFd(p, op, n) PROVE CowInv'
  BY <1>2, CallFdStep
<1>3. ASSUME NEW p \in Procs, CopyUp(p) \/ Act(p) \/ Kill(p) PROVE CowInv'
  BY <1>3, StatStep, MakeTempStep, CopyDataStep, PublishStep, FailsStep, ActPathStep, ActOpenStep,
     ActFdStep, ActRenameStep, KillStep DEF CopyUp, Act
<1>4. ASSUME NEW p \in Procs, NEW n \in Fds, WriteFd(p, n) \/ Close(p, n) \/ Fclose(p, n) \/ Dup2Self(p, n)
      PROVE  CowInv'
  BY <1>4, WriteFdStep, CloseStep, SelfStep
<1>5. ASSUME NEW p \in Procs, NEW n \in Fds, NEW m \in Fds, Dup(p, n, m) \/ Dup2(p, n, m) PROVE CowInv'
  BY <1>5, DupStep
<1>6. CASE RemoveImage
  BY <1>6, RemoveStep
<1>7. CASE UNCHANGED vars
  BY <1>7 DEF vars, CowInv, TypeOK, HasNames, Owned, Whole, NeverPart
<1>. QED BY <1>1, <1>2, <1>3, <1>4, <1>5, <1>6, <1>7 DEF Next

(* The state of the library and of the trees keeps its types, and a process  *)
(* has a temporary file exactly in the part of break_hardlink_copy_stat      *)
(* that fills and renames it.                                               *)
THEOREM TypeCorrect == Spec => []TypeOK
<1>1. CowInv => TypeOK
  BY DEF CowInv
<1>. QED BY <1>1, InitInv, StepInv, PTL DEF Spec

-----------------------------------------------------------------------------
(* No call changes an inode that two trees share *)

(* Two trees have the inode.                                                *)
Shared(i) == \E t, u \in Trees : t # u /\ i \in InTree(t) /\ i \in InTree(u)

(* A process whose descriptors for reading lead past the library to the     *)
(* metadata of the image.                                                   *)
Toucher(p) == /\ "openread" \in load[p].ops
              /\ \/ "fchmod" \in load[p].ops /\ ~load[p].track
                 \/ "syscall" \in load[p].ops

(* The calls that change the inode of their file.                           *)
Changers == Ops \ {"openread", "openexcl", "rename"}

(* A descriptor for writing is on an inode of one tree.                     *)
WritesApart == \A p \in Procs, n \in Fds, i \in Inodes :
                  fds[p][n].wr /\ fds[p][n].ino = i => ~Shared(i)

(* An open descriptor that is not for writing was opened for reading, and   *)
(* is in the table if such descriptors are.                                 *)
IsKnown(p, n) == fds[p][n] # Closed /\ ~fds[p][n].wr =>
                    "openread" \in load[p].ops /\ (tab[p][n] # None \/ ~load[p].track)
OpenIsKnown == \A p \in Procs, n \in Fds : IsKnown(p, n)

(* A call that is about to change an inode has one of its tree alone.       *)
CallIsSafe(p) ==
    /\ th[p].pc = "idle" => th[p].op = "none"
    /\ th[p].op \in load[p].ops \cup {"none"}
    /\ th[p].op # "rename" => th[p].f = th[p].g
    /\ th[p].op \in FdOps => th[p].n \in Fds
    /\ (th[p].op = "fchmod" /\ th[p].f = None) \/ th[p].op = "syscall" =>
          fds[p][th[p].n].wr \/ Toucher(p)
    /\ th[p].pc = "act" /\ th[p].op \in Changers /\ th[p].f # None =>
          \A i \in Inodes : Here(p, th[p].f) = i => ~Shared(i)

PInv == CowInv /\ SharedIsPristine /\ WritesApart /\ OpenIsKnown /\ \A p \in Procs : CallIsSafe(p)

-----------------------------------------------------------------------------
(* The link count *)

(* What break_hardlink_copy_stat concludes from it: an inode with one name  *)
(* is not in two trees.                                                     *)
LEMMA OneLink ==
    ASSUME CowInv, NEW i \in Inodes, Cardinality(Links(i)) <= 1 PROVE ~Shared(i)
<1> SUFFICES ASSUME NEW t \in Trees, NEW u \in Trees, t # u, i \in InTree(t), i \in InTree(u)
             PROVE  FALSE
  BY DEF Shared
<1>1. PICK f \in Files, g \in Files : dir[t][f] = i /\ dir[u][g] = i
  BY DEF InTree
<1> DEFINE a == <<t, f>>
           b == <<u, g>>
<1>2. a \in Links(i) /\ b \in Links(i) /\ a # b
  BY <1>1 DEF Links
<1> HIDE DEF a, b
<1>3. IsFiniteSet(Trees)
  BY CowAssumption, FS_AddElement DEF Trees
<1>4. IsFiniteSet(Links(i)) /\ Cardinality(Links(i)) \in Nat
  <2>1. IsFiniteSet(Trees \X Files)
    BY <1>3, CowAssumption, FS_Product
  <2>2. Links(i) \in SUBSET (Trees \X Files)
    BY DEF Links
  <2>3. IsFiniteSet(Links(i))
    BY <2>1, <2>2, FS_Subset
  <2>. QED BY <2>3, FS_CardinalityType
<1>5. IsFiniteSet({a} \cup {b}) /\ Cardinality({a} \cup {b}) = 2
  <2>1. IsFiniteSet({a}) /\ Cardinality({a}) = 1
    BY FS_Singleton
  <2>2. b \notin {a}
    BY <1>2
  <2>3. /\ IsFiniteSet({a} \cup {b})
        /\ Cardinality({a} \cup {b}) = IF b \in {a} THEN Cardinality({a}) ELSE Cardinality({a}) + 1
    BY <2>1, FS_AddElement
  <2>. QED BY <2>1, <2>2, <2>3
<1>6. Cardinality({a} \cup {b}) <= Cardinality(Links(i))
  <2>1. {a} \cup {b} \in SUBSET Links(i)
    BY <1>2
  <2>. QED BY <1>4, <2>1, FS_Subset
<1>. QED BY <1>4, <1>5, <1>6

(* A step that gives a tree only what it had shares nothing new.            *)
LEMMA NoNewSharing ==
    ASSUME \A t \in Trees, f \in Files : dir'[t][f] = None \/ \E g \in Files : dir'[t][f] = dir[t][g],
           NEW i \in Inodes, Shared(i)'
    PROVE  Shared(i)
<1>1. PICK t \in Trees, u \in Trees : t # u /\ i \in InTree(t)' /\ i \in InTree(u)'
  BY DEF Shared
<1>2. ASSUME NEW w \in Trees, i \in InTree(w)' PROVE i \in InTree(w)
  <2>1. PICK f \in Files : dir'[w][f] = i
    BY <1>2 DEF InTree
  <2>2. i # None
    BY CowAssumption
  <2>. QED BY <2>1, <2>2 DEF InTree
<1>. QED BY <1>1, <1>2 DEF Shared

(* A step that gives one tree an inode no tree had shares nothing new.      *)
LEMMA NewInode ==
    ASSUME NEW c \in Trees, NEW CONSTANT j, \A t \in Trees, f \in Files : dir[t][f] # j,
           \A t \in Trees, f \in Files : dir'[t][f] = dir[t][f] \/ (t = c /\ dir'[t][f] = j)
    PROVE  ~Shared(j)' /\ \A i \in Inodes : Shared(i)' => Shared(i) /\ i # j
<1>1. ASSUME NEW CONSTANT i, NEW w \in Trees, i \in InTree(w)'
      PROVE  (i \in InTree(w) /\ i # j) \/ (w = c /\ i = j)
  BY <1>1 DEF InTree
<1>2. ~Shared(j)'
  BY <1>1 DEF Shared
<1>3. ASSUME NEW CONSTANT i, Shared(i)' PROVE Shared(i) /\ i # j
  <2>1. i # j
    BY <1>2, <1>3
  <2>. QED BY <1>1, <1>3, <2>1 DEF Shared
<1>. QED BY <1>2, <1>3

-----------------------------------------------------------------------------
(* What a step may not disturb *)

(* Descriptors for writing stay apart when nothing is shared and no inode   *)
(* is opened for writing that was not.                                      *)
LEMMA KeepApart ==
    ASSUME PInv, \A i \in Inodes : Shared(i)' => Shared(i),
           \A q \in Procs, n \in Fds : ~fds'[q][n].wr
               \/ \E r \in Procs, m \in Fds : fds[r][m].wr /\ fds'[q][n].ino = fds[r][m].ino
    PROVE  WritesApart'
BY DEF PInv, WritesApart

(* The other processes: their calls stay safe when nothing is shared and    *)
(* their trees get only inodes that are not.                                *)
LEMMA OtherSafe ==
    ASSUME PInv, NEW q \in Procs, UNCHANGED load, th'[q] = th[q],
           \A n \in Fds : fds'[q][n].wr = fds[q][n].wr,
           \A i \in Inodes : Shared(i)' => Shared(i),
           \A f \in Files : f = th[q].f /\ th[q].pc = "act" =>
               \/ dir'[Home[q]][f] = dir[Home[q]][f]
               \/ \A i \in Inodes : dir'[Home[q]][f] = i => ~Shared(i)'
    PROVE  CallIsSafe(q)'
<1>1. CallIsSafe(q)
  BY DEF PInv
<1>2. Home' = Home
  BY DEF Home
<1>3. Toucher(q)' <=> Toucher(q)
  BY DEF Toucher
<1>4. th[q].op \in FdOps => th[q].n \in Fds
  BY <1>1 DEF CallIsSafe
<1>5. th[q].op \in {"fchmod", "syscall"} => fds'[q][th[q].n].wr = fds[q][th[q].n].wr
  BY <1>4 DEF FdOps
<1>6. th[q].pc = "act" /\ th[q].op \in Changers /\ th[q].f # None =>
          \A i \in Inodes : Here(q, th[q].f)' = i => ~Shared(i)'
  <2> SUFFICES ASSUME th[q].pc = "act", th[q].op \in Changers, th[q].f # None,
                      NEW i \in Inodes, Here(q, th[q].f)' = i
               PROVE  ~Shared(i)'
    OBVIOUS
  <2>1. th[q].f \in Files /\ dir'[Home[q]][th[q].f] = i
    BY <1>2, CowAssumption DEF Here
  <2>2. CASE dir'[Home[q]][th[q].f] = dir[Home[q]][th[q].f]
    <3>1. Here(q, th[q].f) = i
      BY <2>1, <2>2 DEF Here
    <3>. QED BY <1>1, <3>1 DEF CallIsSafe
  <2>. QED BY <2>1, <2>2
<1>. QED BY <1>1, <1>3, <1>5, <1>6 DEF CallIsSafe

(* A process that returned has nothing to be safe about. *)
LEMMA IdleSafe == ASSUME NEW p \in Procs, th'[p] = Outside PROVE CallIsSafe(p)'
BY CowAssumption DEF CallIsSafe, Outside, FdOps, Changers, Inodes

(* The invariant is kept when what two trees share is kept.                 *)
LEMMA Keeps ==
    ASSUME PInv, CowInv', UNCHANGED load,
           \A i \in Inodes : Shared(i)' => Shared(i) /\ ino'[i] = ino[i],
           WritesApart', OpenIsKnown', \A q \in Procs : CallIsSafe(q)'
    PROVE  PInv'
<1>1. ASSUME NEW t \in Trees, NEW u \in Trees, t # u, NEW f \in Files, f \in InTree(t)', f \in InTree(u)'
      PROVE  ino'[f] = Pristine \/ (MayTouch /\ ino'[f] = [Pristine EXCEPT !.meta = TRUE])
  <2>1. Shared(f)' /\ f \in Inodes
    BY <1>1 DEF Shared, Inodes
  <2>2. Shared(f) /\ ino'[f] = ino[f]
    BY <2>1
  <2>. QED BY <2>2 DEF PInv, SharedIsPristine, Shared
<1>2. SharedIsPristine'
  <2>1. MayTouch' <=> MayTouch
    BY DEF MayTouch
  <2>. QED BY <1>1, <2>1 DEF SharedIsPristine
<1>. QED BY <1>2 DEF PInv

(* A step of one process that leaves the descriptors.                       *)
LEMMA QuietStep ==
    ASSUME PInv, CowInv', UNCHANGED <<fds, tab, load>>,
           \A i \in Inodes : Shared(i)' => Shared(i) /\ ino'[i] = ino[i],
           NEW p, p \in Procs => CallIsSafe(p)', \A q \in Procs : q # p => th'[q] = th[q],
           \A q \in Procs, f \in Files : q # p =>
               \/ dir'[Home[q]][f] = dir[Home[q]][f]
               \/ \A i \in Inodes : dir'[Home[q]][f] = i => ~Shared(i)'
    PROVE  PInv'
<1>1. WritesApart'
  BY KeepApart
<1>2. OpenIsKnown'
  BY DEF PInv, OpenIsKnown, IsKnown
<1>3. \A q \in Procs : CallIsSafe(q)'
  BY OtherSafe
<1>. QED BY <1>1, <1>2, <1>3, Keeps

-----------------------------------------------------------------------------
(* Steps that leave the descriptors *)

(* Where the trees do not change, nothing gets shared. *)
LEMMA SameTrees == ASSUME UNCHANGED dir PROVE \A i \in Inodes : Shared(i)' => Shared(i)
BY DEF Shared, InTree

(* The others do not notice a step of p.                                    *)
LEMMA ThreadOnly ==
    ASSUME CowInv, NEW p \in Procs, NEW x, th' = [th EXCEPT ![p] = x]
    PROVE  th'[p] = x /\ \A q \in Procs : q # p => th'[q] = th[q]
BY Pieces

(* A call on a path that begins at its last step changes no inode.          *)
LEMMA CallPathSafe ==
    ASSUME PInv, CowInv', NEW p \in Procs, NEW op \in Ops, NEW f \in Files, NEW g \in Files,
           CallPath(p, op, f, g)
    PROVE  PInv'
<1>1. op \in load[p].ops /\ UNCHANGED <<dir, ino, fds, tab, load>>
  BY DEF CallPath
<1>2. PICK pc \in {"stat", "act"} :
         /\ th' = [th EXCEPT ![p] = [Outside EXCEPT !.pc = pc, !.op = op, !.f = f, !.g = g]]
         /\ op \in PathOps \cup OpenOps /\ (op # "rename" => f = g)
         /\ pc = "act" => op \in {"openread", "openexcl", "rename"}
  <2>1. CASE /\ op = "rename"
             /\ th' = [th EXCEPT ![p] = [Outside EXCEPT !.op = op, !.f = f, !.g = g,
                          !.pc = IF Here(p, f) = Here(p, g) /\ Here(p, f) # None THEN "act" ELSE "stat"]]
    <3>1. CASE Here(p, f) = Here(p, g) /\ Here(p, f) # None
      BY <2>1, <3>1 DEF Outside, PathOps
    <3>2. CASE ~(Here(p, f) = Here(p, g) /\ Here(p, f) # None)
      BY <2>1, <3>2 DEF Outside, PathOps
    <3>. QED BY <3>1, <3>2
  <2>2. CASE op # "rename"
    BY <2>2 DEF CallPath, OpenOps
  <2>. QED BY <2>1, <2>2 DEF CallPath
<1>3. /\ th'[p] = [Outside EXCEPT !.pc = pc, !.op = op, !.f = f, !.g = g]
      /\ \A q \in Procs : q # p => th'[q] = th[q]
  BY <1>2, ThreadOnly DEF PInv
<1>4. CallIsSafe(p)'
  <2>1. th'[p].pc = pc /\ th'[p].op = op /\ th'[p].f = f /\ th'[p].g = g
    BY <1>3 DEF Outside
  <2>2. op \notin FdOps
    BY <1>2 DEF FdOps, PathOps, OpenOps
  <2>. QED BY <1>1, <1>2, <2>1, <2>2 DEF CallIsSafe, Changers, FdOps
<1>. QED BY <1>1, <1>3, <1>4, SameTrees, QuietStep

(* A call past the table is on a descriptor for writing, or its process is  *)
(* a toucher.                                                               *)
LEMMA CallFdSafe ==
    ASSUME PInv, CowInv', NEW p \in Procs, NEW op \in FdOps, NEW n \in Fds, CallFd(p, op, n)
    PROVE  PInv'
<1> DEFINE x == [Outside EXCEPT !.op = op, !.f = tab[p][n], !.g = tab[p][n], !.n = n,
                                !.pc = IF tab[p][n] = None THEN "act" ELSE "stat"]
<1>1. /\ op \in load[p].ops /\ UNCHANGED <<dir, ino, fds, tab, load>>
      /\ th' = [th EXCEPT ![p] = x] /\ fds[p][n] # Closed
  BY DEF CallFd
<1>2. th'[p] = x /\ \A q \in Procs : q # p => th'[q] = th[q]
  BY <1>1, ThreadOnly DEF PInv
<1>3. CallIsSafe(p)'
  <2>1. /\ th'[p].op = op /\ th'[p].f = tab[p][n] /\ th'[p].g = tab[p][n] /\ th'[p].n = n
        /\ th'[p].pc # "idle" /\ (th'[p].pc = "act" => tab[p][n] = None)
    BY <1>2 DEF Outside
  <2>2. (op = "fchmod" /\ tab[p][n] = None) \/ op = "syscall" => fds[p][n].wr \/ Toucher(p)
    BY <1>1 DEF PInv, OpenIsKnown, IsKnown, Toucher
  <2>3. Toucher(p)' <=> Toucher(p)
    BY <1>1 DEF Toucher
  <2>. QED BY <1>1, <2>1, <2>2, <2>3 DEF CallIsSafe
<1>. QED BY <1>1, <1>2, <1>3, SameTrees, QuietStep

(* What a copy-up leaves of its call. *)
LEMMA SafeCopyUp ==
    ASSUME PInv, CowInv', NEW p \in Procs, UNCHANGED <<fds, load>>,
           th[p].pc # "idle", th'[p].pc # "idle",
           th'[p].op = th[p].op, th'[p].f = th[p].f, th'[p].g = th[p].g, th'[p].n = th[p].n,
           th'[p].pc = "act" /\ th[p].op # "rename" =>
               \A i \in Inodes : Here(p, th[p].g)' = i => ~Shared(i)'
    PROVE  CallIsSafe(p)'
<1>1. CallIsSafe(p)
  BY DEF PInv
<1>2. Toucher(p)' <=> Toucher(p)
  BY DEF Toucher
<1>3. th[p].f = th[p].g => Here(p, th[p].f)' = Here(p, th[p].g)'
  BY DEF Here
<1>. QED BY <1>1, <1>2, <1>3 DEF CallIsSafe, Changers

(* One link means one tree, whatever happens later in the call.             *)
LEMMA StatSafe == ASSUME PInv, CowInv', NEW p \in Procs, Stat(p) PROVE PInv'
<1> DEFINE i == Here(p, th[p].g)
           x == [th[p] EXCEPT !.pc = "act"]
           y == [th[p] EXCEPT !.pc = "temp", !.meta = ino[i].meta, !.size = ino[i].len]
<1>1. /\ th[p].pc = "stat" /\ UNCHANGED <<dir, ino, fds, tab, calls, load>>
      /\ th[p] \in Thread
  BY InCopyUp DEF Stat, At, PInv
<1>2. CASE i = None \/ Cardinality(Links(i)) <= 1
  <2>1. th' = [th EXCEPT ![p] = x]
    BY <1>2, Pieces DEF Stat, Goto, PInv
  <2>2. th'[p] = x /\ \A q \in Procs : q # p => th'[q] = th[q]
    BY <2>1, ThreadOnly DEF PInv
  <2>3. /\ th'[p].pc = "act" /\ th'[p].op = th[p].op /\ th'[p].f = th[p].f
        /\ th'[p].g = th[p].g /\ th'[p].n = th[p].n
    BY <1>1, <2>2 DEF Thread
  <2>4. \A j \in Inodes : i = j => ~Shared(j)
    BY <1>2, OneLink, CowAssumption DEF PInv
  <2>5. \A j \in Inodes : Here(p, th[p].g)' = j => ~Shared(j)'
    <3>1. Here(p, th[p].g)' = i
      BY <1>1, <2>2, <2>3 DEF Here, Home
    <3>. QED BY <1>1, <2>4, <3>1, SameTrees
  <2>6. CallIsSafe(p)'
    BY <1>1, <2>3, <2>5, SafeCopyUp
  <2>. QED BY <1>1, <2>2, <2>6, SameTrees, QuietStep
<1>3. CASE ~(i = None \/ Cardinality(Links(i)) <= 1)
  <2>1. th' = [th EXCEPT ![p] = y]
    BY <1>3 DEF Stat, LookAt
  <2>2. th'[p] = y /\ \A q \in Procs : q # p => th'[q] = th[q]
    BY <2>1, ThreadOnly DEF PInv
  <2>3. /\ th'[p].pc = "temp" /\ th'[p].op = th[p].op /\ th'[p].f = th[p].f
        /\ th'[p].g = th[p].g /\ th'[p].n = th[p].n
    <3> HIDE DEF i
    <3>. QED BY <1>1, <2>2 DEF Thread
  <2>4. CallIsSafe(p)'
    BY <1>1, <2>3, SafeCopyUp
  <2>. QED BY <1>1, <2>2, <2>4, SameTrees, QuietStep
<1>. QED BY <1>2, <1>3

(* The temporary file is in no tree. *)
LEMMA MakeTempSafe == ASSUME PInv, CowInv', NEW p \in Procs, MakeTemp(p) PROVE PInv'
<1>1. th[p].pc = "temp" /\ UNCHANGED <<dir, fds, tab, calls, load>> /\ th[p] \in Thread
  BY InCopyUp DEF MakeTemp, At, PInv
<1>2. PICK i \in Free :
         /\ ino' = [ino EXCEPT ![i] = [data |-> IF CopiesData(th[p].op) THEN "part" ELSE "own",
                                       meta |-> th[p].meta, len |-> 0]]
         /\ th' = [th EXCEPT ![p] = [th[p] EXCEPT !.tmp = i,
                                        !.pc = IF CopiesData(th[p].op) THEN "copy" ELSE "rename"]]
  BY DEF MakeTemp
<1>3. \A t \in Trees, f \in Files : dir[t][f] # i
  BY FreeIsNew
<1>4. \A j \in Inodes : Shared(j)' => Shared(j) /\ ino'[j] = ino[j]
  <2>1. \A j \in Inodes : Shared(j)' => Shared(j)
    BY <1>1, SameTrees
  <2>2. \A j \in Inodes : Shared(j) => j # i
    BY <1>3 DEF Shared, InTree
  <2>3. \A j \in Inodes : j # i => ino'[j] = ino[j]
    BY <1>2, Pieces DEF PInv
  <2>. QED BY <2>1, <2>2, <2>3
<1>5. /\ th'[p] = [th[p] EXCEPT !.tmp = i, !.pc = IF CopiesData(th[p].op) THEN "copy" ELSE "rename"]
      /\ \A q \in Procs : q # p => th'[q] = th[q]
  BY <1>2, ThreadOnly DEF PInv
<1>6. /\ th'[p].pc \in {"copy", "rename"} /\ th'[p].op = th[p].op /\ th'[p].f = th[p].f
      /\ th'[p].g = th[p].g /\ th'[p].n = th[p].n
  BY <1>1, <1>5 DEF Thread
<1>7. CallIsSafe(p)'
  BY <1>1, <1>6, SafeCopyUp
<1>. QED BY <1>1, <1>4, <1>5, <1>7, QuietStep

(* The bytes go to the temporary file. *)
LEMMA CopyDataSafe == ASSUME PInv, CowInv', NEW p \in Procs, CopyData(p) PROVE PInv'
<1>1. /\ th[p].pc = "copy" /\ UNCHANGED <<dir, fds, tab, calls, load>> /\ th[p] \in Thread
      /\ th[p].tmp # None
  BY InCopyUp DEF CopyData, At, PInv
<1>2. /\ th' = [th EXCEPT ![p] = [th[p] EXCEPT !.pc = "rename"]]
      /\ \A j \in Inodes : j # th[p].tmp => ino'[j] = ino[j]
  BY Pieces DEF CopyData, Goto, PInv
<1>3. \A j \in Inodes : Shared(j)' => Shared(j) /\ ino'[j] = ino[j]
  <2>1. \A j \in Inodes : Shared(j)' => Shared(j)
    BY <1>1, SameTrees
  <2>2. \A j \in Inodes : Shared(j) => j # th[p].tmp
    BY <1>1 DEF Shared, InTree, PInv, CowInv, Owned
  <2>. QED BY <1>2, <2>1, <2>2
<1>4. th'[p] = [th[p] EXCEPT !.pc = "rename"] /\ \A q \in Procs : q # p => th'[q] = th[q]
  BY <1>2, ThreadOnly DEF PInv
<1>5. /\ th'[p].pc = "rename" /\ th'[p].op = th[p].op /\ th'[p].f = th[p].f
      /\ th'[p].g = th[p].g /\ th'[p].n = th[p].n
  BY <1>1, <1>4 DEF Thread
<1>6. CallIsSafe(p)'
  BY <1>1, <1>5, SafeCopyUp
<1>. QED BY <1>1, <1>3, <1>4, <1>6, QuietStep

(* The name gets an inode of its own. *)
LEMMA PublishSafe == ASSUME PInv, CowInv', NEW p \in Procs, Publish(p) PROVE PInv'
<1>1. /\ th[p].pc = "rename" /\ UNCHANGED <<ino, fds, tab, calls, load>> /\ th[p] \in Thread
      /\ th[p].tmp # None /\ th[p].g \in Files
  BY InCopyUp DEF Publish, At, PInv
<1>2. PICK j \in Inodes : j = th[p].tmp
  BY <1>1 DEF Thread
<1>3. PICK c \in Trees : c = Home[p]
  BY HomeIsTree, Pieces DEF PInv
<1>4. dir' = [dir EXCEPT ![c][th[p].g] = j] /\ \A t \in Trees, f \in Files : dir[t][f] # j
  BY <1>1, <1>2, <1>3 DEF Publish, PInv, CowInv, Owned
<1>5. \A t \in Trees, f \in Files : dir'[t][f] = dir[t][f] \/ (t = c /\ dir'[t][f] = j)
  BY <1>1, <1>4, Pieces DEF PInv
<1>6. ~Shared(j)' /\ \A i \in Inodes : Shared(i)' => Shared(i) /\ i # j
  BY <1>4, <1>5, NewInode
<1>7. th'[p] = [th[p] EXCEPT !.tmp = None, !.pc = "act"] /\ \A q \in Procs : q # p => th'[q] = th[q]
  BY ThreadOnly DEF PInv, Publish
<1>8. /\ th'[p].pc = "act" /\ th'[p].op = th[p].op /\ th'[p].f = th[p].f
      /\ th'[p].g = th[p].g /\ th'[p].n = th[p].n
  BY <1>1, <1>7 DEF Thread
<1>9. CallIsSafe(p)'
  <2>1. Here(p, th[p].g)' = j
    <3>1. Home' = Home
      BY <1>1 DEF Home
    <3>2. th'[p].g = th[p].g
      BY <1>8
    <3>. QED BY <1>1, <1>3, <1>4, <3>1, <3>2, Pieces DEF PInv, Here
  <2>. QED BY <1>1, <1>6, <1>8, <2>1, SafeCopyUp
<1>10. \A q \in Procs, f \in Files : \/ dir'[Home[q]][f] = dir[Home[q]][f]
                                    \/ \A i \in Inodes : dir'[Home[q]][f] = i => ~Shared(i)'
  <2> SUFFICES ASSUME NEW q \in Procs, NEW f \in Files, dir'[Home[q]][f] # dir[Home[q]][f]
               PROVE  \A i \in Inodes : dir'[Home[q]][f] = i => ~Shared(i)'
    OBVIOUS
  <2>1. dir'[Home[q]][f] = j
    BY <1>5, HomeIsTree, Pieces DEF PInv
  <2>. QED BY <1>6, <2>1
<1>. QED BY <1>1, <1>6, <1>7, <1>9, <1>10, QuietStep

(* A call that fails changed nothing. *)
LEMMA FailsSafe == ASSUME PInv, CowInv', NEW p \in Procs, CopyUpFails(p) PROVE PInv'
<1>1. UNCHANGED <<dir, ino, fds, tab, calls, load>> /\ th' = [th EXCEPT ![p] = Outside]
  BY DEF CopyUpFails, Return
<1>2. th'[p] = Outside /\ \A q \in Procs : q # p => th'[q] = th[q]
  BY <1>1, ThreadOnly DEF PInv
<1>. QED BY <1>1, <1>2, IdleSafe, SameTrees, QuietStep

-----------------------------------------------------------------------------
(* The call itself *)

(* A call that changes at most an inode of one tree.                        *)
LEMMA ChangeSafe ==
    ASSUME PInv, CowInv', NEW p \in Procs, UNCHANGED <<dir, fds, tab, load>>,
           th'[p] = Outside \/ th'[p] = th[p], \A q \in Procs : q # p => th'[q] = th[q],
           NEW i, Alter(i),
           \A j \in Inodes : i = j => ~Shared(j)
    PROVE  PInv'
<1>1. \A j \in Inodes : j # i => ino'[j] = ino[j]
  BY Changed DEF PInv
<1>2. \A j \in Inodes : Shared(j)' => Shared(j) /\ ino'[j] = ino[j]
  BY <1>1, SameTrees
<1>3. CallIsSafe(p)'
  <2>1. CASE th'[p] = Outside
    BY <2>1, IdleSafe
  <2>2. CASE th'[p] = th[p]
    BY <2>2, SameTrees, OtherSafe
  <2>. QED BY <2>1, <2>2
<1>. QED BY <1>2, <1>3, QuietStep

(* A call that changes metadata past the library, by a process that may.    *)
LEMMA TouchSafe ==
    ASSUME PInv, CowInv', NEW p \in Procs, UNCHANGED <<dir, fds, tab, load>>, th'[p] = Outside,
           \A q \in Procs : q # p => th'[q] = th[q], NEW i, Touch(i), Toucher(p)
    PROVE  PInv'
<1>1. MayTouch /\ MayTouch'
  BY DEF MayTouch, Toucher
<1>2. \A j \in Inodes : ino'[j] = ino[j] \/ ino'[j] = [ino[j] EXCEPT !.meta = TRUE]
  BY Pieces DEF Touch, PInv
<1>3. SharedIsPristine'
  <2>0. \A t : InTree(t)' = InTree(t)
    BY DEF InTree
  <2> SUFFICES ASSUME NEW t \in Trees, NEW u \in Trees, t # u,
                      NEW f \in Files \cap InTree(t) \cap InTree(u)
               PROVE  ino'[f] = Pristine \/ ino'[f] = [Pristine EXCEPT !.meta = TRUE]
    BY <1>1, <2>0 DEF SharedIsPristine
  <2>1. ino[f] = Pristine \/ ino[f] = [Pristine EXCEPT !.meta = TRUE]
    BY DEF PInv, SharedIsPristine
  <2>2. ino'[f] = ino[f] \/ ino'[f] = [ino[f] EXCEPT !.meta = TRUE]
    BY <1>2 DEF Inodes
  <2>. QED BY <2>1, <2>2 DEF Pristine
<1>4. WritesApart' /\ OpenIsKnown'
  <2>1. WritesApart'
    BY SameTrees, KeepApart
  <2>. QED BY <2>1 DEF PInv, OpenIsKnown, IsKnown
<1>5. \A q \in Procs : CallIsSafe(q)'
  <2>1. CallIsSafe(p)'
    BY IdleSafe
  <2>2. ASSUME NEW q \in Procs, q # p PROVE CallIsSafe(q)'
    BY <2>2, SameTrees, OtherSafe
  <2>. QED BY <2>1, <2>2
<1>. QED BY <1>3, <1>4, <1>5 DEF PInv

(* A process returns alone. *)
LEMMA Returned ==
    ASSUME CowInv, NEW p \in Procs, Return(p)
    PROVE  th'[p] = Outside /\ \A q \in Procs : q # p => th'[q] = th[q]
BY ThreadOnly DEF Return

(* chmod and truncate change the inode the name has at the call.            *)
LEMMA ActPathSafe == ASSUME PInv, CowInv', NEW p \in Procs, ActPath(p) PROVE PInv'
<1> DEFINE i == Here(p, th[p].f)
<1>1. /\ Return(p) /\ UNCHANGED <<dir, fds, tab, calls, load>> /\ th[p].pc = "act"
      /\ th[p].op \in {"chmod", "truncate", "truncate0"}
      /\ Alter(i)
  BY Lengths DEF ActPath, At, Alter
<1>2. \A j \in Inodes : i = j => ~Shared(j)
  <2>1. th[p].f \in Files /\ th[p].f # None
    BY <1>1, CowAssumption DEF PInv, CowInv, HasNames, PathOps, Inodes
  <2>2. th[p].op \in Changers
    BY <1>1 DEF Changers, Ops, PathOps
  <2>. QED BY <1>1, <2>1, <2>2 DEF PInv, CallIsSafe
<1> HIDE DEF i
<1>3. CowInv
  BY DEF PInv
<1>. QED BY <1>1, <1>2, <1>3, Returned, ChangeSafe

(* A call on a descriptor without a path is on one for writing, or is the   *)
(* fchmod of a toucher.                                                     *)
LEMMA ActFdSafe == ASSUME PInv, CowInv', NEW p \in Procs, ActFd(p) PROVE PInv'
<1>1. /\ Return(p) /\ UNCHANGED <<dir, fds, tab, calls, load>> /\ th[p].pc = "act"
      /\ th[p].op \in {"fchmod", "ftruncate", "ftruncate0"}
  BY DEF ActFd, At
<1>2. th[p].op \in FdOps /\ th[p].op \in Changers /\ CallIsSafe(p) /\ CowInv
  BY <1>1 DEF FdOps, Changers, Ops, PInv
<1>3. PICK i : /\ i = IF th[p].f # None THEN Here(p, th[p].f)
                       ELSE IF th[p].op = "fchmod" \/ fds[p][th[p].n].wr THEN fds[p][th[p].n].ino ELSE None
               /\ Alter(i)
  BY ActFdAlters
<1>4. CASE th[p].f = None /\ th[p].op = "fchmod" /\ ~fds[p][th[p].n].wr
  <2>1. Toucher(p)
    BY <1>2, <1>4 DEF CallIsSafe
  <2>2. Touch(i) \/ UNCHANGED ino
    BY <1>3, <1>4 DEF ActFd
  <2>3. CASE Touch(i)
    BY <1>1, <1>2, <2>1, <2>3, Returned, TouchSafe
  <2>4. CASE UNCHANGED ino
    <3>1. Alter(None) /\ \A j \in Inodes : None # j
      BY <2>4, CowAssumption DEF Alter
    <3>. QED BY <1>1, <1>2, <3>1, Returned, ChangeSafe
  <2>. QED BY <2>2, <2>3, <2>4
<1>5. CASE ~(th[p].f = None /\ th[p].op = "fchmod" /\ ~fds[p][th[p].n].wr)
  <2>1. \A j \in Inodes : i = j => ~Shared(j)
    <3>1. CASE th[p].f = None /\ fds[p][th[p].n].wr
      <4>1. th[p].n \in Fds
        BY <1>2 DEF CallIsSafe
      <4>. QED BY <1>3, <3>1, <4>1 DEF PInv, WritesApart
    <3>2. CASE th[p].f # None
      BY <1>1, <1>2, <1>3, <3>2 DEF CallIsSafe
    <3>3. CASE th[p].f = None /\ ~fds[p][th[p].n].wr
      <4>1. i = None
        BY <1>3, <1>5, <3>3
      <4>. QED BY <4>1, CowAssumption
    <3>. QED BY <3>1, <3>2, <3>3
  <2>. QED BY <1>1, <1>2, <1>3, <2>1, Returned, ChangeSafe
<1>. QED BY <1>4, <1>5

(* A raw call is on a descriptor for writing, or its process is a toucher. *)
LEMMA ActSyscallSafe == ASSUME PInv, CowInv', NEW p \in Procs, ActSyscall(p) PROVE PInv'
<1> DEFINE i == fds[p][th[p].n].ino
<1>1. /\ Return(p) /\ UNCHANGED <<dir, fds, tab, calls, load>> /\ th[p].op = "syscall" /\ Touch(i)
  BY DEF ActSyscall
<1>2. th[p].n \in Fds /\ (fds[p][th[p].n].wr \/ Toucher(p)) /\ CowInv
  BY <1>1 DEF PInv, CallIsSafe, FdOps
<1>3. fds[p][th[p].n].wr => \A j \in Inodes : i = j => ~Shared(j)
  BY <1>2 DEF PInv, WritesApart
<1> HIDE DEF i
<1>4. CASE Toucher(p)
  BY <1>1, <1>2, <1>4, Returned, TouchSafe
<1>5. CASE fds[p][th[p].n].wr
  <2>1. Alter(i)
    BY <1>1 DEF Alter
  <2>. QED BY <1>1, <1>2, <1>3, <1>5, <2>1, Returned, ChangeSafe
<1>. QED BY <1>2, <1>4, <1>5

(* write goes past the library, to a descriptor for writing. *)
LEMMA WriteFdSafe == ASSUME PInv, CowInv', NEW p \in Procs, NEW n \in Fds, WriteFd(p, n) PROVE PInv'
<1>1. /\ UNCHANGED <<dir, fds, tab, th, load>> /\ Alter(fds[p][n].ino) /\ fds[p][n].wr
  BY DEF WriteFd, Alter
<1>2. \A j \in Inodes : fds[p][n].ino = j => ~Shared(j)
  BY <1>1 DEF PInv, WritesApart
<1>. QED BY <1>1, <1>2, ChangeSafe

(* Without the image there is less to share.                                *)
LEMMA RemoveSafe == ASSUME PInv, CowInv', RemoveImage PROVE PInv'
<1>1. /\ dir' = [dir EXCEPT ![Image] = [f \in Files |-> None]]
      /\ UNCHANGED <<ino, fds, tab, th, calls, load>>
  BY DEF RemoveImage
<1>2. /\ \A t \in Trees, f \in Files : dir'[t][f] \in {None, dir[t][f]}
      /\ \A t \in Trees : t # Image => dir'[t] = dir[t]
  BY <1>1, Pieces DEF PInv
<1>3. \A i \in Inodes : Shared(i)' => Shared(i)
  BY <1>2, NoNewSharing
<1>4. ASSUME NEW q \in Procs PROVE CallIsSafe(q)'
  <2>1. Home[q] \in Trees /\ Home[q] # Image
    BY HomeIsTree, Pieces, CowAssumption DEF PInv
  <2>. QED BY <1>1, <1>2, <1>3, <2>1, OtherSafe
<1>5. WritesApart' /\ OpenIsKnown'
  <2>1. WritesApart'
    BY <1>1, <1>3 DEF PInv, WritesApart
  <2>. QED BY <1>1, <2>1 DEF PInv, OpenIsKnown, IsKnown
<1>. QED BY <1>1, <1>3, <1>4, <1>5, Keeps

-----------------------------------------------------------------------------
(* Steps that change descriptors *)

(* A file is opened for writing after the library saw its one link, or new. *)
LEMMA ActOpenSafe ==
    ASSUME PInv, CowInv', NEW p \in Procs, ActOpen(p)
    PROVE  PInv'
<1> DEFINE f == th[p].f
           i == Here(p, f)
           wr == th[p].op # "openread"
<1>1. /\ Return(p) /\ UNCHANGED <<calls, load>> /\ th[p].pc = "act" /\ th[p].op \in OpenOps
      /\ CowInv /\ CallIsSafe(p)
  BY DEF ActOpen, At, PInv
<1>2. PICK c \in Trees : c = Home[p]
  BY <1>1, HomeIsTree, Pieces
<1>3. f \in Files /\ f # None /\ i = dir[c][f]
  BY <1>1, <1>2, CowAssumption DEF CowInv, HasNames, Here, Inodes
<1>4. th'[p] = Outside /\ (\A q \in Procs : q # p => th'[q] = th[q]) /\ CallIsSafe(p)'
  BY <1>1, Returned, IdleSafe
<1>5. CASE UNCHANGED <<fds, tab, dir, ino>>
  <2>1. Alter(None) /\ \A j \in Inodes : None = j => ~Shared(j)
    BY <1>5, CowAssumption DEF Alter
  <2>. QED BY <1>1, <1>4, <1>5, <2>1, ChangeSafe
<1>6. ASSUME NEW n \in Fds, NEW CONSTANT j, j \in (IF i = None THEN Free ELSE {i}),
             IF i = None THEN wr ELSE th[p].op # "openexcl",
             fds' = [fds EXCEPT ![p][n] = [ino |-> j, wr |-> wr, path |-> f, at |-> f]],
             Tracked(p, n, f), dir' = [dir EXCEPT ![c][f] = j],
             ino' = IF i = None THEN [ino EXCEPT ![j] = New]
                    ELSE IF th[p].op = "opentrunc" THEN [ino EXCEPT ![j] = [New EXCEPT !.meta = ino[j].meta]]
                    ELSE ino
      PROVE  PInv'
  <2>1. /\ \A k \in Inodes : Shared(k)' => Shared(k) /\ ino'[k] = ino[k]
        /\ wr => \A k \in Inodes : j = k => ~Shared(k)'
        /\ \A t \in Trees, g \in Files : \/ dir'[t][g] = dir[t][g]
                                         \/ \A k \in Inodes : dir'[t][g] = k => ~Shared(k)'
    <3>1. CASE i = None
      <4>1. \A t \in Trees, g \in Files : dir[t][g] # j
        BY <1>6, <3>1, FreeIsNew
      <4>2. \A t \in Trees, g \in Files : dir'[t][g] = dir[t][g] \/ (t = c /\ dir'[t][g] = j)
        BY <1>1, <1>2, <1>3, <1>6, Pieces
      <4>3. ~Shared(j)' /\ \A k \in Inodes : Shared(k)' => Shared(k) /\ k # j
        BY <4>1, <4>2, NewInode
      <4>4. \A k \in Inodes : k # j => ino'[k] = ino[k]
        BY <1>1, <1>6, <3>1, Pieces
      <4>. QED BY <4>2, <4>3, <4>4
    <3>2. CASE i # None
      <4>1. j = dir[c][f]
        BY <1>3, <1>6, <3>2
      <4>2. dir' = dir
        BY <1>1, <1>2, <1>3, <1>6, <4>1, Pieces
      <4>3. \A k \in Inodes : Shared(k)' => Shared(k)
        BY <4>2, SameTrees
      <4>4. wr => \A k \in Inodes : j = k => ~Shared(k)
        <5> SUFFICES ASSUME wr PROVE \A k \in Inodes : j = k => ~Shared(k)
          OBVIOUS
        <5>1. th[p].op \in Changers
          BY <1>1, <1>6, <3>2 DEF Changers, Ops, OpenOps
        <5>2. Here(p, th[p].f) = j
          BY <1>3, <4>1
        <5>. QED BY <1>1, <1>3, <5>1, <5>2 DEF CallIsSafe
      <4>5. \A k \in Inodes : k # j => ino'[k] = ino[k]
        BY <1>1, <1>6, <3>2, Pieces
      <4>6. ino' = ino \/ wr
        BY <1>6, <3>2
      <4>. QED BY <4>2, <4>3, <4>4, <4>5, <4>6
    <3>. QED BY <3>1, <3>2
  <2>. wr \in BOOLEAN
    OBVIOUS
  <2> HIDE DEF f, i, wr
  <2>2. /\ fds'[p][n].wr = wr /\ fds'[p][n].ino = j
        /\ \A q \in Procs, m \in Fds : q # p \/ m # n => fds'[q][m] = fds[q][m]
    BY <1>1, <1>6, Pieces
  <2>3. WritesApart'
    <3> SUFFICES ASSUME NEW q \in Procs, NEW m \in Fds, NEW k \in Inodes,
                        fds'[q][m].wr, fds'[q][m].ino = k
                 PROVE  ~Shared(k)'
      BY DEF WritesApart
    <3>1. CASE q = p /\ m = n
      BY <2>1, <2>2, <3>1
    <3>2. CASE q # p \/ m # n
      BY <2>1, <2>2, <3>2 DEF PInv, WritesApart
    <3>. QED BY <3>1, <3>2
  <2>4. OpenIsKnown'
    <3> SUFFICES ASSUME NEW q \in Procs, NEW m \in Fds PROVE IsKnown(q, m)'
      BY DEF OpenIsKnown
    <3>1. CASE q = p /\ m = n
      <4> SUFFICES ASSUME ~wr PROVE "openread" \in load[p].ops /\ (tab'[p][n] # None \/ ~load[p].track)
        BY <1>1, <2>2, <3>1 DEF IsKnown
      <4>1. th[p].op = "openread" /\ "openread" \in load[p].ops
        BY <1>1 DEF CallIsSafe, wr
      <4>2. tab' = [tab EXCEPT ![p][n] = f] => tab'[p][n] = f
        BY <1>1, Pieces
      <4>3. f # None
        BY <1>3, CowAssumption DEF Inodes
      <4>. QED BY <1>6, <4>1, <4>2, <4>3 DEF Tracked
    <3>2. CASE q # p \/ m # n
      <4>1. tab'[q][m] = tab[q][m]
        BY <1>1, <1>6, <3>2, Pieces DEF Tracked
      <4>. QED BY <1>1, <2>2, <3>2, <4>1 DEF PInv, OpenIsKnown, IsKnown
    <3>. QED BY <3>1, <3>2
  <2>5. ASSUME NEW q \in Procs PROVE CallIsSafe(q)'
    <3>1. CASE q = p
      BY <1>4, <3>1
    <3>2. CASE q # p
      <4>1. Home[q] \in Trees
        BY <1>1, HomeIsTree, Pieces
      <4>2. \A m \in Fds : fds'[q][m].wr = fds[q][m].wr
        BY <2>2, <3>2
      <4>3. \A g \in Files : \/ dir'[Home[q]][g] = dir[Home[q]][g]
                             \/ \A k \in Inodes : dir'[Home[q]][g] = k => ~Shared(k)'
        BY <2>1, <4>1
      <4>. QED BY <1>1, <1>4, <2>1, <3>2, <4>2, <4>3, OtherSafe
    <3>. QED BY <3>1, <3>2
  <2>. QED BY <1>1, <2>1, <2>3, <2>4, <2>5, Keeps
<1>7. FreeFd(p) \subseteq Fds
  BY DEF FreeFd
<1>. QED BY <1>2, <1>5, <1>6, <1>7 DEF ActOpen

(* A rename that overtakes no call: the names of the calls in flight, and   *)
(* what every descriptor is open on, stay.                                  *)
LEMMA ActRenameSafe ==
    ASSUME NoRace, PInv, CowInv', NEW p \in Procs, ActRename(p) PROVE PInv'
<1> DEFINE f == th[p].f
           g == th[p].g
           c == Home[p]
<1>1. /\ Return(p) /\ UNCHANGED <<ino, tab, calls, load>> /\ th[p].pc = "act" /\ th[p].op = "rename"
      /\ CowInv /\ CallIsSafe(p)
  BY DEF ActRename, At, PInv
<1>2. f \in Files /\ g \in Files /\ c \in Trees
  BY <1>1, HomeIsTree, Pieces DEF CowInv, HasNames, PathOps
<1>3. th'[p] = Outside /\ (\A q \in Procs : q # p => th'[q] = th[q]) /\ CallIsSafe(p)'
  BY <1>1, Returned, IdleSafe
<1>4. CASE UNCHANGED <<dir, fds>>
  <2>1. Alter(None) /\ \A j \in Inodes : None = j => ~Shared(j)
    BY <1>1, CowAssumption DEF Alter
  <2>. QED BY <1>1, <1>3, <1>4, <2>1, ChangeSafe
<1>5. CASE /\ dir' = [dir EXCEPT ![c][g] = dir[c][f], ![c][f] = None]
           /\ fds' = [q \in Procs |-> [n \in Fds |->
                        IF Home[q] # c THEN fds[q][n]
                        ELSE [fds[q][n] EXCEPT !.at = IF @ = g THEN None ELSE IF @ = f THEN g ELSE @]]]
  <2>1. \A q \in Procs : q # p /\ Home[q] = c /\ th[q].pc # "idle" => g # th[q].f
    BY DEF NoRace
  <2> HIDE DEF f, g, c
  <2>2. /\ \A t \in Trees, h \in Files : dir'[t][h] = None \/ \E k \in Files : dir'[t][h] = dir[t][k]
        /\ \A t \in Trees : t # c => dir'[t] = dir[t]
        /\ \A h \in Files : h # g => dir'[c][h] \in {None, dir[c][h]}
    <3>1. dir[c] \in [Files -> Inodes \cup {None}]
      BY <1>1, <1>2, Pieces
    <3>2. \A t \in Trees : t # c => dir'[t] = dir[t]
      BY <1>1, <1>2, <1>5, Pieces
    <3>3. \A h \in Files : dir'[c][h] \in {None, dir[c][f], dir[c][h]}
      BY <1>1, <1>2, <1>5, <3>1, Pieces
    <3>4. \A h \in Files : h # g => dir'[c][h] \in {None, dir[c][h]}
      BY <1>1, <1>2, <1>5, <3>1, Pieces
    <3>. QED BY <1>2, <3>2, <3>3, <3>4
  <2>3. \A i \in Inodes : Shared(i)' => Shared(i)
    BY <2>2, NoNewSharing
  <2>4. ASSUME NEW q \in Procs, NEW n \in Fds
        PROVE  /\ fds'[q][n].wr = fds[q][n].wr /\ fds'[q][n].ino = fds[q][n].ino
               /\ fds[q][n] = Closed => fds'[q][n] = Closed
    <3>1. fds[q][n] \in Descriptor
      BY <1>1, Pieces
    <3>2. CASE Home[q] # c
      BY <1>5, <3>2
    <3>3. CASE Home[q] = c
      <4> DEFINE a == IF fds[q][n].at = g THEN None ELSE IF fds[q][n].at = f THEN g ELSE fds[q][n].at
      <4>1. fds'[q][n] = [fds[q][n] EXCEPT !.at = a]
        BY <1>5, <3>3
      <4>2. fds[q][n] = Closed => a = None
        BY <1>2, CowAssumption DEF Closed, Inodes
      <4> HIDE DEF a
      <4>3. fds'[q][n].wr = fds[q][n].wr /\ fds'[q][n].ino = fds[q][n].ino
        BY <3>1, <4>1 DEF Descriptor
      <4>. QED BY <4>1, <4>2, <4>3 DEF Closed
    <3>. QED BY <3>2, <3>3
  <2>5. WritesApart'
    BY <2>3, <2>4, KeepApart
  <2>6. OpenIsKnown'
    BY <1>1, <2>4 DEF PInv, OpenIsKnown, IsKnown
  <2>7. ASSUME NEW q \in Procs, q # p PROVE CallIsSafe(q)'
    <3>1. Home[q] \in Trees
      BY <1>1, HomeIsTree, Pieces
    <3>2. ASSUME NEW h \in Files, h = th[q].f, th[q].pc = "act"
          PROVE  \/ dir'[Home[q]][h] = dir[Home[q]][h]
                 \/ \A i \in Inodes : dir'[Home[q]][h] = i => ~Shared(i)'
      <4>1. CASE Home[q] # c
        BY <2>2, <3>1, <4>1
      <4>2. CASE Home[q] = c
        BY <2>1, <2>2, <2>7, <3>2, <4>2, CowAssumption
      <4>. QED BY <4>1, <4>2
    <3>. QED BY <1>1, <1>3, <2>3, <2>4, <2>7, <3>2, OtherSafe
  <2>. QED BY <1>1, <1>3, <2>3, <2>5, <2>6, <2>7, Keeps
<1>. QED BY <1>4, <1>5 DEF ActRename

(* A step of p that replaces descriptors of p only.                         *)
LEMMA DescriptorStep ==
    ASSUME PInv, CowInv', NEW p \in Procs, UNCHANGED <<dir, ino, load>>, CallIsSafe(p)',
           \A q \in Procs : q # p => /\ th'[q] = th[q]
                                     /\ \A n \in Fds : fds'[q][n] = fds[q][n] /\ tab'[q][n] = tab[q][n],
           \A n \in Fds : fds'[p][n].wr => \E m \in Fds : fds[p][m].wr /\ fds'[p][n].ino = fds[p][m].ino,
           \A n \in Fds : IsKnown(p, n)'
    PROVE  PInv'
<1>1. \A i \in Inodes : Shared(i)' => Shared(i)
  BY SameTrees
<1>2. WritesApart'
  BY <1>1, KeepApart
<1>3. OpenIsKnown'
  <2> SUFFICES ASSUME NEW q \in Procs, NEW n \in Fds, q # p PROVE IsKnown(q, n)'
    BY DEF OpenIsKnown
  <2>. QED BY DEF PInv, OpenIsKnown, IsKnown
<1>4. \A q \in Procs : CallIsSafe(q)'
  BY <1>1, OtherSafe
<1>. QED BY <1>1, <1>2, <1>3, <1>4, Keeps

(* A process between calls stays there. *)
LEMMA IdleCall ==
    ASSUME PInv, NEW p \in Procs, th[p].pc = "idle", UNCHANGED <<th, load>>
    PROVE  CallIsSafe(p)'
<1>1. CallIsSafe(p)
  BY DEF PInv
<1>2. Toucher(p)' <=> Toucher(p)
  BY DEF Toucher
<1>. QED BY <1>1, <1>2, CowAssumption DEF CallIsSafe, FdOps

(* A killed process has no descriptors. *)
LEMMA KillSafe == ASSUME PInv, CowInv', NEW p \in Procs, Kill(p) PROVE PInv'
<1>1. /\ Return(p) /\ UNCHANGED <<dir, ino, calls, load>> /\ CowInv
      /\ fds' = [fds EXCEPT ![p] = [n \in Fds |-> Closed]]
      /\ tab' = [tab EXCEPT ![p] = [n \in Fds |-> None]]
  BY DEF Kill, PInv
<1>2. CallIsSafe(p)' /\ \A q \in Procs : q # p => th'[q] = th[q]
  BY <1>1, Returned, IdleSafe
<1>3. /\ \A q \in Procs : q # p => \A n \in Fds : fds'[q][n] = fds[q][n] /\ tab'[q][n] = tab[q][n]
      /\ \A n \in Fds : fds'[p][n] = Closed
  BY <1>1, Pieces
<1>4. ~Closed.wr
  BY DEF Closed
<1>5. \A n \in Fds : IsKnown(p, n)'
  BY <1>3 DEF IsKnown
<1>. QED BY <1>1, <1>2, <1>3, <1>4, <1>5, DescriptorStep

(* A closed descriptor writes nothing. *)
LEMMA CloseSafe ==
    ASSUME PInv, CowInv', NEW p \in Procs, NEW n \in Fds, Close(p, n) \/ Fclose(p, n) PROVE PInv'
<1>1. /\ UNCHANGED <<dir, ino, th, load>> /\ fds' = [fds EXCEPT ![p][n] = Closed] /\ th[p].pc = "idle"
      /\ tab' = tab \/ tab' = [tab EXCEPT ![p][n] = None]
  BY DEF Close, Fclose, Begin, At
<1>2. \A q \in Procs, m \in Fds :
          /\ q # p \/ m # n => fds'[q][m] = fds[q][m] /\ tab'[q][m] = tab[q][m]
          /\ q = p /\ m = n => fds'[q][m] = Closed
  <2>1. CASE tab' = tab
    BY <1>1, <2>1, Pieces DEF PInv
  <2>2. CASE tab' = [tab EXCEPT ![p][n] = None]
    BY <1>1, <2>2, Pieces DEF PInv
  <2>. QED BY <1>1, <2>1, <2>2
<1>3. ~Closed.wr
  BY DEF Closed
<1>4. \A m \in Fds : fds'[p][m].wr => fds[p][m].wr /\ fds'[p][m].ino = fds[p][m].ino
  BY <1>2, <1>3
<1>5. \A m \in Fds : IsKnown(p, m)'
  BY <1>1, <1>2 DEF PInv, OpenIsKnown, IsKnown
<1>. QED BY <1>1, <1>2, <1>4, <1>5, IdleCall, DescriptorStep

(* A duplicate writes where its original does, and has its entry.           *)
LEMMA DupSafe ==
    ASSUME PInv, CowInv', NEW p \in Procs, NEW n \in Fds, NEW m \in Fds, Dup(p, n, m) \/ Dup2(p, n, m)
    PROVE  PInv'
<1>1. /\ UNCHANGED <<dir, ino, th, load>> /\ fds' = [fds EXCEPT ![p][m] = fds[p][n]] /\ th[p].pc = "idle"
      /\ fds[p][n] # Closed
      /\ (tab' = tab /\ tab[p][n] = None) \/ tab' = [tab EXCEPT ![p][m] = tab[p][n]]
  BY DEF Dup, Dup2, Begin, At
<1>2. /\ \A q \in Procs, k \in Fds :
            q # p \/ k # m => fds'[q][k] = fds[q][k] /\ tab'[q][k] = tab[q][k]
      /\ fds'[p][m] = fds[p][n] /\ (tab'[p][m] = None => tab[p][n] = None)
  <2>1. CASE tab' = tab /\ tab[p][n] = None
    BY <1>1, <2>1, Pieces DEF PInv
  <2>2. CASE tab' = [tab EXCEPT ![p][m] = tab[p][n]]
    BY <1>1, <2>2, Pieces DEF PInv
  <2>. QED BY <1>1, <2>1, <2>2
<1>3. \A k \in Fds : fds'[p][k].wr => \E l \in Fds : fds[p][l].wr /\ fds'[p][k].ino = fds[p][l].ino
  BY <1>2
<1>4. \A k \in Fds : IsKnown(p, k)'
  BY <1>1, <1>2 DEF PInv, OpenIsKnown, IsKnown
<1>. QED BY <1>1, <1>2, <1>3, <1>4, IdleCall, DescriptorStep

(* A dup2 onto itself opens nothing, and takes no descriptor from the table. *)
LEMMA SelfSafe ==
    ASSUME PInv, CowInv', NEW p \in Procs, NEW n \in Fds, Dup2Self(p, n) PROVE PInv'
<1>1. /\ UNCHANGED <<dir, ino, fds, th, load>> /\ th[p].pc = "idle"
      /\ tab' = tab \/ tab' = [tab EXCEPT ![p][n] = Stray]
  BY DEF Dup2Self, Begin, At
<1>2. \A q \in Procs, k \in Fds :
         tab'[q][k] = tab[q][k] \/ (q = p /\ tab'[q][k] # None)
  <2>1. CASE tab' = tab
    BY <2>1
  <2>2. CASE tab' = [tab EXCEPT ![p][n] = Stray]
    BY <2>2, Pieces, CowAssumption DEF PInv
  <2>. QED BY <1>1, <2>1, <2>2
<1>3. \A k \in Fds : IsKnown(p, k)'
  BY <1>1, <1>2 DEF PInv, OpenIsKnown, IsKnown
<1>. QED BY <1>1, <1>2, <1>3, IdleCall, DescriptorStep

-----------------------------------------------------------------------------
(* The invariant *)

(* The clones begin with the inodes of the image, all pristine.             *)
LEMMA InitPristine == Init => PInv
<1> SUFFICES ASSUME Init PROVE PInv
  OBVIOUS
<1>1. CowInv
  BY InitInv
<1>2. SharedIsPristine
  BY DEF Init, SharedIsPristine, Inodes
<1>3. \A p \in Procs, n \in Fds : fds[p][n] = Closed
  BY DEF Init
<1>4. WritesApart /\ OpenIsKnown
  <2>1. ~Closed.wr
    BY DEF Closed
  <2>2. WritesApart
    BY <1>3, <2>1 DEF WritesApart
  <2>3. OpenIsKnown
    BY <1>3 DEF OpenIsKnown, IsKnown
  <2>. QED BY <2>2, <2>3
<1>5. \A p \in Procs : CallIsSafe(p)
  <2> SUFFICES ASSUME NEW p \in Procs PROVE CallIsSafe(p)
    OBVIOUS
  <2>1. th[p] = Outside
    BY DEF Init
  <2>. QED BY <2>1, CowAssumption DEF CallIsSafe, Outside, FdOps, Changers
<1>. QED BY <1>1, <1>2, <1>4, <1>5 DEF PInv

(* One lemma per operation. *)
LEMMA StepPristine ==
    ASSUME [NoRace]_vars, PInv, [Next]_vars PROVE PInv'
<1>1. CowInv'
  BY StepInv DEF PInv
<1>2. ASSUME NEW p \in Procs, NEW op \in Ops, NEW f \in Files, NEW g \in Files, CallPath(p, op, f, g)
      PROVE  PInv'
  BY <1>1, <1>2, CallPathSafe
<1>3. ASSUME NEW p \in Procs, NEW op \in FdOps, NEW n \in Fds, CallFd(p, op, n) PROVE PInv'
  BY <1>1, <1>3, CallFdSafe
<1>4. ASSUME NEW p \in Procs, CopyUp(p) PROVE PInv'
  BY <1>1, <1>4, StatSafe, MakeTempSafe, CopyDataSafe, PublishSafe, FailsSafe DEF CopyUp
<1>5. ASSUME NEW p \in Procs, Act(p) \/ Kill(p), ~UNCHANGED vars PROVE PInv'
  <2>1. NoRace
    BY <1>5
  <2>. QED BY <1>1, <1>5, <2>1, ActPathSafe, ActOpenSafe, ActFdSafe, ActSyscallSafe, ActRenameSafe,
              KillSafe DEF Act
<1>6. ASSUME NEW p \in Procs, NEW n \in Fds, WriteFd(p, n) \/ Close(p, n) \/ Fclose(p, n) \/ Dup2Self(p, n)
      PROVE  PInv'
  BY <1>1, <1>6, WriteFdSafe, CloseSafe, SelfSafe
<1>7. ASSUME NEW p \in Procs, NEW n \in Fds, NEW m \in Fds, Dup(p, n, m) \/ Dup2(p, n, m) PROVE PInv'
  BY <1>1, <1>7, DupSafe
<1>8. CASE RemoveImage
  BY <1>1, <1>8, RemoveSafe
<1>9. CASE UNCHANGED vars
  <2>1. UNCHANGED <<dir, ino, fds, tab, th, calls, load>>
    BY <1>9 DEF vars
  <2>2. \A i \in Inodes : None = i => ~Shared(i)
    BY CowAssumption
  <2>3. \A q \in Procs : CallIsSafe(q)'
    BY <2>1, SameTrees, OtherSafe
  <2>4. WritesApart' /\ OpenIsKnown'
    <3>1. WritesApart'
      BY <2>1, SameTrees, KeepApart
    <3>. QED BY <2>1, <3>1 DEF PInv, OpenIsKnown, IsKnown
  <2>. QED BY <1>1, <2>1, <2>3, <2>4, SameTrees, Keeps
<1>. QED BY <1>2, <1>3, <1>4, <1>5, <1>6, <1>7, <1>8, <1>9 DEF Next

(* The hooks of libcow keep the image: what two trees share has the bytes   *)
(* the image had, for any trees, files, processes, settings and descriptors *)
(* and whatever fails or is killed, and its metadata unless a process calls *)
(* fchmod on a descriptor for reading that is not tracked, or SYS_fchmod on *)
(* any.  The premise: no rename overtakes a call on the name it replaces.   *)
THEOREM ImageIsPristine == Spec /\ [][NoRace]_vars => []SharedIsPristine
<1>1. PInv /\ [Next]_vars /\ [NoRace]_vars => PInv'
  BY StepPristine
<1>2. PInv => SharedIsPristine
  BY DEF PInv
<1>. QED BY <1>1, <1>2, InitPristine, PTL DEF Spec

-----------------------------------------------------------------------------
(* The table *)

(* A process that makes only opens which enter their descriptor.            *)
EntersAll(p) == "fopen" \notin load[p].ops /\ ("openread" \notin load[p].ops \/ load[p].track)

(* A process makes the calls of its load; where there is no fclose, a       *)
(* closed descriptor has no entry; where there is no fopen, one that is     *)
(* open for writing has its own, and where every open enters its            *)
(* descriptor, one open for reading too.                                    *)
Entry(p, n) ==
    /\ fds[p][n] # Closed => fds[p][n].path # None
    /\ fds[p][n] # Closed => tab[p][n] \in {None, fds[p][n].path}
    /\ fds[p][n] # Closed /\ EntersAll(p) => tab[p][n] # None
    /\ fds[p][n].wr /\ "fopen" \notin load[p].ops => tab[p][n] # None
    /\ fds[p][n] = Closed /\ "fclose" \notin load[p].ops => tab[p][n] = None
Entries(p) == Tidy(p) => \A n \in Fds : Entry(p, n)

TInv == /\ CowInv
        /\ \A p \in Procs : th[p].op \in load[p].ops \cup {"none"}
        /\ \A p \in Procs : Entries(p)

(* A closed descriptor is not open for writing.                             *)
LEMMA ClosedIsNot == ~Closed.wr
BY DEF Closed

(* A step of p keeps the entries of the others.                             *)
LEMMA EntryStep ==
    ASSUME TInv, CowInv', NEW p \in Procs, UNCHANGED load, th'[p].op \in load[p].ops \cup {"none"},
           \A q \in Procs : q # p => /\ th'[q] = th[q]
                                     /\ \A n \in Fds : fds'[q][n] = fds[q][n] /\ tab'[q][n] = tab[q][n],
           Entries(p)'
    PROVE  TInv'
<1>1. ASSUME NEW q \in Procs PROVE Entries(q)'
  <2>1. CASE q = p
    BY <2>1
  <2>2. CASE q # p
    BY <2>2 DEF TInv, Entries, Tidy, Entry, EntersAll
  <2>. QED BY <2>1, <2>2
<1>2. ASSUME NEW q \in Procs PROVE th'[q].op \in load'[q].ops \cup {"none"}
  <2>1. CASE q = p
    BY <2>1
  <2>2. CASE q # p
    BY <2>2 DEF TInv
  <2>. QED BY <2>1, <2>2
<1>. QED BY <1>1, <1>2 DEF TInv

(* Steps that leave the descriptors and the table. *)
LEMMA EntriesStay ==
    ASSUME TInv, CowInv', NEW p \in Procs, UNCHANGED <<fds, tab, load>>,
           th'[p].op \in load[p].ops \cup {"none"}, \A q \in Procs : q # p => th'[q] = th[q]
    PROVE  TInv'
<1>1. Entries(p)'
  BY DEF TInv, Entries, Tidy, Entry, EntersAll
<1>. QED BY <1>1, EntryStep

(* A call begins or goes on. *)
LEMMA EntriesInCall ==
    ASSUME TInv, CowInv', NEW p \in Procs,
           \/ \E op \in Ops, f, g \in Files : CallPath(p, op, f, g)
           \/ \E op \in FdOps, n \in Fds : CallFd(p, op, n)
           \/ CopyUp(p)
    PROVE  TInv'
<1>1. ASSUME NEW x, th' = [th EXCEPT ![p] = x], x.op \in load[p].ops \cup {"none"}, UNCHANGED <<fds, tab, load>>
      PROVE  TInv'
  <2>1. th'[p] = x /\ \A q \in Procs : q # p => th'[q] = th[q]
    BY <1>1, ThreadOnly DEF TInv
  <2>. QED BY <1>1, <2>1, EntriesStay
<1>2. th[p] \in Thread /\ th[p].op \in load[p].ops \cup {"none"}
  BY Pieces DEF TInv
<1>3. ASSUME NEW op \in Ops, NEW f \in Files, NEW g \in Files, CallPath(p, op, f, g) PROVE TInv'
  <2>1. op \in load[p].ops /\ UNCHANGED <<fds, tab, load>>
    BY <1>3 DEF CallPath
  <2>2. PICK pc \in {"stat", "act"} :
           th' = [th EXCEPT ![p] = [Outside EXCEPT !.pc = pc, !.op = op, !.f = f, !.g = g]]
    <3>1. CASE th' = [th EXCEPT ![p] = [Outside EXCEPT !.op = op, !.f = f, !.g = g,
                          !.pc = IF Here(p, f) = Here(p, g) /\ Here(p, f) # None THEN "act" ELSE "stat"]]
      <4>1. CASE Here(p, f) = Here(p, g) /\ Here(p, f) # None
        BY <3>1, <4>1 DEF Outside
      <4>2. CASE ~(Here(p, f) = Here(p, g) /\ Here(p, f) # None)
        BY <3>1, <4>2 DEF Outside
      <4>. QED BY <4>1, <4>2
    <3>. QED BY <1>3, <3>1 DEF CallPath
  <2>3. [Outside EXCEPT !.pc = pc, !.op = op, !.f = f, !.g = g].op = op
    BY DEF Outside
  <2>. QED BY <1>1, <2>1, <2>2, <2>3
<1>4. ASSUME NEW op \in FdOps, NEW n \in Fds, CallFd(p, op, n) PROVE TInv'
  <2> DEFINE x == [Outside EXCEPT !.op = op, !.f = tab[p][n], !.g = tab[p][n], !.n = n,
                                  !.pc = IF tab[p][n] = None THEN "act" ELSE "stat"]
  <2>1. op \in load[p].ops /\ UNCHANGED <<fds, tab, load>> /\ th' = [th EXCEPT ![p] = x]
    BY <1>4 DEF CallFd
  <2>2. x.op = op
    BY DEF Outside
  <2> HIDE DEF x
  <2>. QED BY <1>1, <2>1, <2>2
<1>5. CASE Stat(p)
  <2>1. UNCHANGED <<fds, tab, load>>
    BY <1>5 DEF Stat
  <2>2. CASE th' = [th EXCEPT ![p].pc = "act"]
    <3>1. th' = [th EXCEPT ![p] = [th[p] EXCEPT !.pc = "act"]]
      BY <2>2, Pieces DEF TInv
    <3>2. [th[p] EXCEPT !.pc = "act"].op = th[p].op
      BY <1>2 DEF Thread
    <3>. QED BY <1>1, <1>2, <2>1, <3>1, <3>2
  <2>3. CASE LookAt(p, Here(p, th[p].g))
    <3> DEFINE i == Here(p, th[p].g)
               x == [th[p] EXCEPT !.pc = "temp", !.meta = ino[i].meta, !.size = ino[i].len]
    <3>1. x.op = th[p].op /\ th' = [th EXCEPT ![p] = x]
      BY <1>2, <2>3 DEF Thread, LookAt
    <3> HIDE DEF x
    <3>. QED BY <1>1, <1>2, <2>1, <3>1
  <2>. QED BY <1>5, <2>2, <2>3 DEF Stat, Goto
<1>6. CASE MakeTemp(p)
  <2>1. PICK i \in Free :
           th' = [th EXCEPT ![p] = [th[p] EXCEPT !.tmp = i,
                                        !.pc = IF CopiesData(th[p].op) THEN "copy" ELSE "rename"]]
    BY <1>6 DEF MakeTemp
  <2>2. [th[p] EXCEPT !.tmp = i, !.pc = IF CopiesData(th[p].op) THEN "copy" ELSE "rename"].op = th[p].op
    BY <1>2 DEF Thread
  <2>. QED BY <1>1, <1>2, <1>6, <2>1, <2>2 DEF MakeTemp
<1>7. CASE CopyData(p)
  <2>1. th' = [th EXCEPT ![p] = [th[p] EXCEPT !.pc = "rename"]]
    BY <1>7, Pieces DEF CopyData, Goto, TInv
  <2>2. [th[p] EXCEPT !.pc = "rename"].op = th[p].op
    BY <1>2 DEF Thread
  <2>. QED BY <1>1, <1>2, <1>7, <2>1, <2>2 DEF CopyData
<1>8. CASE Publish(p)
  <2>1. [th[p] EXCEPT !.tmp = None, !.pc = "act"].op = th[p].op
    BY <1>2 DEF Thread
  <2>. QED BY <1>1, <1>2, <1>8, <2>1 DEF Publish
<1>9. CASE CopyUpFails(p)
  <2>1. Outside.op = "none"
    BY DEF Outside
  <2>. QED BY <1>1, <1>9, <2>1 DEF CopyUpFails, Return
<1>. QED BY <1>3, <1>4, <1>5, <1>6, <1>7, <1>8, <1>9 DEF CopyUp

(* A process that returns has no call. *)
LEMMA EntriesReturn ==
    ASSUME TInv, CowInv', NEW p \in Procs, Return(p), UNCHANGED load,
           \A q \in Procs : q # p => \A n \in Fds : fds'[q][n] = fds[q][n] /\ tab'[q][n] = tab[q][n],
           Entries(p)'
    PROVE  TInv'
<1>1. th'[p] = Outside /\ \A q \in Procs : q # p => th'[q] = th[q]
  BY Returned DEF TInv
<1>2. Outside.op = "none"
  BY DEF Outside
<1>. QED BY <1>1, <1>2, EntryStep

(* open enters the descriptor; an open that does not gets one that has no   *)
(* entry.                                                                   *)
LEMMA EntriesOpen ==
    ASSUME TInv, CowInv', NEW p \in Procs, ActOpen(p)
    PROVE  TInv'
<1> DEFINE f == th[p].f
           enters == th[p].op # "fopen" /\ (th[p].op # "openread" \/ load[p].track)
<1>1. /\ Return(p) /\ UNCHANGED <<calls, load>> /\ th[p].pc = "act" /\ th[p].op \in OpenOps
      /\ CowInv /\ load \in Loads
  BY Pieces DEF ActOpen, At, TInv
<1>2. f \in Files /\ f # None /\ th[p].op \in load[p].ops
  BY <1>1, CowAssumption DEF CowInv, HasNames, Inodes, TInv, OpenOps
<1>3. CASE UNCHANGED <<fds, tab>>
  <2>1. Entries(p)'
    BY <1>1, <1>3 DEF TInv, Entries, Tidy, Entry, EntersAll
  <2>. QED BY <1>1, <1>3, <2>1, EntriesReturn
<1>4. ASSUME NEW n \in FreeFd(p), NEW j, NEW wr \in BOOLEAN,
             wr <=> th[p].op # "openread",
             fds' = [fds EXCEPT ![p][n] = [ino |-> j, wr |-> wr, path |-> f, at |-> f]],
             Tracked(p, n, f)
      PROVE  TInv'
  <2>1. n \in Fds /\ fds[p][n] = Closed
    BY DEF FreeFd
  <2>2. /\ fds'[p][n].path = f /\ f # None /\ fds'[p][n].wr = wr
        /\ \A q \in Procs, m \in Fds : q # p \/ m # n => fds'[q][m] = fds[q][m]
        /\ fds'[p][n] # Closed
    <3>1. fds'[p][n] = [ino |-> j, wr |-> wr, path |-> f, at |-> f]
      BY <1>1, <1>4, <2>1, Pieces
    <3>. QED BY <1>1, <1>2, <1>4, <2>1, <3>1, Pieces DEF Closed
  <2>3. /\ \A q \in Procs, m \in Fds : q # p \/ m # n => tab'[q][m] = tab[q][m]
        /\ IF enters THEN tab'[p][n] = f ELSE tab'[p][n] = tab[p][n]
    BY <1>1, <1>4, <2>1, Pieces DEF Tracked
  <2>4. Tidy(p) /\ ~enters => tab[p][n] = None
    BY <1>1, <1>2, <2>1 DEF TInv, Entries, Entry, Tidy
  <2>5. Tidy(p) => Entry(p, n)'
    <3>1. CASE enters
      BY <1>1, <1>2, <2>2, <2>3, <3>1 DEF Entry
    <3>2. CASE ~enters
      BY <1>1, <1>2, <1>4, <2>2, <2>3, <2>4, <3>2 DEF Entry, EntersAll
    <3>. QED BY <3>1, <3>2
  <2>6. \A m \in Fds : m # n /\ Tidy(p) => Entry(p, m)'
    BY <1>1, <2>2, <2>3 DEF TInv, Entries, Entry, EntersAll
  <2>7. Entries(p)'
    BY <1>1, <2>5, <2>6 DEF Entries, Tidy
  <2>. QED BY <1>1, <2>2, <2>3, <2>7, EntriesReturn
<1>5. (th[p].op # "openread") \in BOOLEAN
  OBVIOUS
<1>. QED BY <1>3, <1>4, <1>5 DEF ActOpen

(* A rename leaves the path a descriptor was opened with.                   *)
LEMMA EntriesRename == ASSUME TInv, CowInv', NEW p \in Procs, ActRename(p) PROVE TInv'
<1> DEFINE f == th[p].f
           g == th[p].g
           c == Home[p]
<1>1. /\ Return(p) /\ UNCHANGED <<ino, tab, calls, load>> /\ th[p].pc = "act" /\ th[p].op = "rename"
      /\ CowInv
  BY DEF ActRename, At, TInv
<1>2. f \in Files /\ g \in Files
  BY <1>1 DEF CowInv, HasNames, PathOps
<1>3. ASSUME NEW q \in Procs, NEW n \in Fds
      PROVE  /\ fds'[q][n].path = fds[q][n].path /\ fds'[q][n].wr = fds[q][n].wr
             /\ fds[q][n] = Closed => fds'[q][n] = Closed
  <2>1. CASE fds' = fds
    BY <2>1
  <2>2. CASE fds' = [r \in Procs |-> [m \in Fds |->
                       IF Home[r] # c THEN fds[r][m]
                       ELSE [fds[r][m] EXCEPT !.at = IF @ = g THEN None ELSE IF @ = f THEN g ELSE @]]]
    <3> HIDE DEF f, g, c
    <3>1. fds[q][n] \in Descriptor
      BY <1>1, Pieces
    <3>2. CASE Home[q] # c
      BY <2>2, <3>2
    <3>3. CASE Home[q] = c
      <4> DEFINE a == IF fds[q][n].at = g THEN None ELSE IF fds[q][n].at = f THEN g ELSE fds[q][n].at
      <4>1. fds'[q][n] = [fds[q][n] EXCEPT !.at = a]
        BY <2>2, <3>3
      <4>2. fds[q][n] = Closed => a = None
        BY <1>2, CowAssumption DEF Closed, Inodes
      <4> HIDE DEF a
      <4>3. fds'[q][n].path = fds[q][n].path /\ fds'[q][n].wr = fds[q][n].wr
        BY <3>1, <4>1 DEF Descriptor
      <4>. QED BY <4>1, <4>2, <4>3 DEF Closed
    <3>. QED BY <3>2, <3>3
  <2>. QED BY <2>1, <2>2 DEF ActRename
<1>4. ASSUME NEW q \in Procs, NEW n \in Fds, Tidy(q) PROVE Entry(q, n)'
  <2>1. Entry(q, n) /\ tab'[q][n] = tab[q][n]
    BY <1>1, <1>4 DEF TInv, Entries
  <2>2. fds[q][n] = Closed <=> fds'[q][n] = Closed
    <3>1. Closed.path = None
      BY DEF Closed
    <3>. QED BY <1>3, <2>1, <3>1 DEF Entry
  <2>. QED BY <1>1, <1>3, <2>1, <2>2 DEF Entry, EntersAll
<1>5. th'[p] = Outside /\ \A q \in Procs : q # p => th'[q] = th[q]
  BY <1>1, Returned
<1>6. \A q \in Procs : th'[q].op \in load'[q].ops \cup {"none"}
  BY <1>1, <1>5 DEF TInv, Outside
<1>7. \A q \in Procs : Entries(q)'
  BY <1>1, <1>4 DEF Entries, Tidy
<1>. QED BY <1>6, <1>7 DEF TInv

(* The other calls leave the table and what is open.                        *)
LEMMA EntriesAct ==
    ASSUME TInv, CowInv', NEW p \in Procs, Act(p) \/ Kill(p)
    PROVE  TInv'
<1>1. CASE ActPath(p) \/ ActFd(p) \/ ActSyscall(p)
  <2>1. Return(p) /\ UNCHANGED <<fds, tab, load>>
    BY <1>1 DEF ActPath, ActFd, ActSyscall
  <2>2. Entries(p)'
    BY <2>1 DEF TInv, Entries, Tidy, Entry, EntersAll
  <2>. QED BY <2>1, <2>2, EntriesReturn
<1>2. CASE Kill(p)
  <2>1. /\ Return(p) /\ UNCHANGED load /\ CowInv
        /\ fds' = [fds EXCEPT ![p] = [n \in Fds |-> Closed]]
        /\ tab' = [tab EXCEPT ![p] = [n \in Fds |-> None]]
    BY <1>2 DEF Kill, TInv
  <2>2. /\ \A q \in Procs : q # p => \A n \in Fds : fds'[q][n] = fds[q][n] /\ tab'[q][n] = tab[q][n]
        /\ \A n \in Fds : fds'[p][n] = Closed /\ tab'[p][n] = None
    BY <2>1, Pieces
  <2>3. Entries(p)'
    BY <2>2, ClosedIsNot DEF Entries, Entry
  <2>. QED BY <2>1, <2>2, <2>3, EntriesReturn
<1>. QED BY <1>1, <1>2, EntriesOpen, EntriesRename DEF Act

(* Closing and duplicating.                                                 *)
LEMMA EntriesDirect ==
    ASSUME TInv, CowInv', NEW p \in Procs, NEW n \in Fds, NEW m \in Fds,
           WriteFd(p, n) \/ Close(p, n) \/ Fclose(p, n) \/ Dup(p, n, m) \/ Dup2(p, n, m)
    PROVE  TInv'
<1>1. /\ UNCHANGED <<th, load>> /\ th'[p].op \in load[p].ops \cup {"none"} /\ CowInv /\ load \in Loads
  BY Pieces DEF TInv, WriteFd, Close, Fclose, Dup, Dup2
<1>2. CASE WriteFd(p, n)
  BY <1>1, <1>2, EntriesStay DEF WriteFd
<1>3. CASE Close(p, n)
  <2>1. \A q \in Procs, k \in Fds :
            /\ q # p \/ k # n => fds'[q][k] = fds[q][k] /\ tab'[q][k] = tab[q][k]
            /\ q = p /\ k = n => fds'[q][k] = Closed /\ tab'[q][k] = None
    BY <1>1, <1>3, Pieces DEF Close
  <2>2. Entries(p)'
    BY <1>1, <2>1, ClosedIsNot DEF TInv, Entries, Tidy, Entry, EntersAll
  <2>. QED BY <1>1, <2>1, <2>2, EntryStep
<1>4. CASE Fclose(p, n)
  <2>1. \A q \in Procs, k \in Fds :
            /\ tab'[q][k] = tab[q][k]
            /\ q # p \/ k # n => fds'[q][k] = fds[q][k]
            /\ q = p /\ k = n => fds'[q][k] = Closed
    BY <1>1, <1>4, Pieces DEF Fclose
  <2>2. "fclose" \in load[p].ops
    BY <1>4 DEF Fclose, Begin
  <2>3. Entries(p)'
    BY <1>1, <2>1, <2>2, ClosedIsNot DEF TInv, Entries, Tidy, Entry, EntersAll
  <2>. QED BY <1>1, <2>1, <2>3, EntryStep
<1>5. ASSUME fds[p][n] # Closed, fds' = [fds EXCEPT ![p][m] = fds[p][n]],
             \/ tab' = [tab EXCEPT ![p][m] = tab[p][n]]
             \/ tab' = tab /\ tab[p][n] = None /\ fds[p][m] = Closed
      PROVE  TInv'
  <2>1. Tidy(p) => Entry(p, n) /\ Entry(p, m)
    BY DEF TInv, Entries
  <2>2. Tidy(p) /\ tab[p][n] = None /\ fds[p][m] = Closed => tab[p][m] = None
    BY <1>5, <2>1 DEF Entry, Tidy, EntersAll
  <2>3. \A q \in Procs, k \in Fds :
            /\ q # p \/ k # m => fds'[q][k] = fds[q][k] /\ tab'[q][k] = tab[q][k]
            /\ q = p /\ k = m => /\ fds'[q][k] = fds[p][n]
                                 /\ Tidy(p) => tab'[q][k] = tab[p][n]
    <3>1. CASE tab' = [tab EXCEPT ![p][m] = tab[p][n]]
      BY <1>1, <1>5, <3>1, Pieces
    <3>2. CASE tab' = tab /\ tab[p][n] = None /\ fds[p][m] = Closed
      BY <1>1, <1>5, <2>2, <3>2, Pieces
    <3>. QED BY <1>5, <3>1, <3>2
  <2>4. Entries(p)'
    BY <1>1, <1>5, <2>3 DEF TInv, Entries, Tidy, Entry, EntersAll
  <2>. QED BY <1>1, <2>3, <2>4, EntryStep
<1>6. CASE Dup(p, n, m)
  BY <1>5, <1>6 DEF Dup, FreeFd
<1>7. CASE Dup2(p, n, m)
  BY <1>5, <1>7 DEF Dup2
<1>. QED BY <1>2, <1>3, <1>4, <1>6, <1>7

(* A dup2 onto itself may spoil the entry; the process is then not tidy.    *)
LEMMA EntriesSelf ==
    ASSUME TInv, CowInv', NEW p \in Procs, NEW n \in Fds, Dup2Self(p, n) PROVE TInv'
<1>1. /\ UNCHANGED <<dir, ino, fds, th, load>> /\ "dup2self" \in load[p].ops
      /\ tab' = tab \/ tab' = [tab EXCEPT ![p][n] = Stray]
  BY DEF Dup2Self, Begin
<1>2. \A q \in Procs, k \in Fds : q # p => tab'[q][k] = tab[q][k]
  BY <1>1, Pieces DEF TInv
<1>3. Entries(p)'
  BY <1>1 DEF Entries, Tidy
<1>4. th'[p].op \in load[p].ops \cup {"none"}
  BY <1>1 DEF TInv
<1>. QED BY <1>1, <1>2, <1>3, <1>4, EntryStep

(* fd_paths is true: for a tidy process the library knows the path of an     *)
(* open descriptor or has none, and it has one for every descriptor that is  *)
(* open for writing but those from fopen.                                    *)
THEOREM TableIsKept == Spec => []TableIsTrue
<1>1. Init => TInv
  <2> SUFFICES ASSUME Init PROVE TInv
    OBVIOUS
  <2>1. \A p \in Procs, n \in Fds : fds[p][n] = Closed /\ tab[p][n] = None
    BY DEF Init
  <2>2. \A p \in Procs : Entries(p)
    BY <2>1, ClosedIsNot DEF Entries, Entry
  <2>3. \A p \in Procs : th[p].op = "none"
    BY DEF Init, Outside
  <2>. QED BY <2>2, <2>3, InitInv DEF TInv
<1>2. TInv /\ [Next]_vars => TInv'
  <2> SUFFICES ASSUME TInv, [Next]_vars PROVE TInv'
    OBVIOUS
  <2>1. CowInv'
    BY StepInv DEF TInv
  <2>2. ASSUME NEW p \in Procs,
               \/ \E op \in Ops, f, g \in Files : CallPath(p, op, f, g)
               \/ \E op \in FdOps, n \in Fds : CallFd(p, op, n)
               \/ CopyUp(p)
        PROVE  TInv'
    BY <2>1, <2>2, EntriesInCall
  <2>3. ASSUME NEW p \in Procs, Act(p) \/ Kill(p) PROVE TInv'
    BY <2>1, <2>3, EntriesAct
  <2>4. ASSUME NEW p \in Procs, NEW n \in Fds, NEW m \in Fds,
               WriteFd(p, n) \/ Close(p, n) \/ Fclose(p, n) \/ Dup(p, n, m) \/ Dup2(p, n, m)
        PROVE  TInv'
    BY <2>1, <2>4, EntriesDirect
  <2>6. ASSUME NEW p \in Procs, NEW n \in Fds, Dup2Self(p, n) PROVE TInv'
    BY <2>1, <2>6, EntriesSelf
  <2>5. CASE RemoveImage \/ UNCHANGED vars
    <3>1. UNCHANGED <<fds, tab, th, load>>
      BY <2>5 DEF RemoveImage, vars
    <3>. QED BY <2>1, <3>1 DEF TInv, Entries, Tidy, Entry, EntersAll
  <2>. QED BY <2>2, <2>3, <2>4, <2>5, <2>6 DEF Next
<1>3. TInv => TableIsTrue
  BY DEF TInv, Entries, Entry, TableIsTrue
<1>. QED BY <1>1, <1>2, <1>3, PTL DEF Spec

-----------------------------------------------------------------------------
(* A process alone in its container writes to the file its tree shows *)

(* A tree shows an inode under one name.                                    *)
OneName == \A t \in Trees, f, g \in Files : dir[t][f] = dir[t][g] /\ dir[t][f] # None => f = g

(* A descriptor for writing is on an inode of its tree alone, the one of    *)
(* its name; a copy-up is not of its name.                                  *)
FdFollows(p, n) == fds[p][n].wr =>
    /\ fds[p][n].ino # None
    /\ \A i \in Inodes : fds[p][n].ino = i => ~Shared(i)
    /\ fds[p][n].at # None => /\ dir[Home[p]][fds[p][n].at] = fds[p][n].ino
                              /\ th[p].pc \in {"temp", "copy", "rename"} => fds[p][n].at # th[p].g

(* What is about to be opened for writing is of its tree alone.             *)
CallFollows(p) ==
    /\ th[p].op # "rename" => th[p].f = th[p].g
    /\ th[p].pc = "act" /\ th[p].op \in OpenOps \ {"openread", "openexcl"} =>
          \A i \in Inodes : Here(p, th[p].f) = i => ~Shared(i)

FInv == /\ CowInv /\ OneName
        /\ \A p \in Procs : Alone(p) => CallFollows(p) /\ \A n \in Fds : FdFollows(p, n)

(* The converse of OneLink: an inode that one tree has, under one name, has *)
(* one link.                                                                *)
LEMMA OneTree ==
    ASSUME OneName, NEW i \in Inodes, ~Shared(i) PROVE Cardinality(Links(i)) <= 1
<1>1. ASSUME NEW x \in Links(i), NEW y \in Links(i) PROVE x = y
  <2>1. /\ x \in Trees \X Files /\ y \in Trees \X Files
        /\ dir[x[1]][x[2]] = i /\ dir[y[1]][y[2]] = i
    BY DEF Links
  <2>2. x[1] = y[1]
    BY <2>1 DEF Shared, InTree
  <2>3. i # None
    BY CowAssumption
  <2>. QED BY <2>1, <2>2, <2>3 DEF OneName
<1>2. CASE Links(i) = {}
  BY <1>2, FS_EmptySet
<1>3. CASE Links(i) # {}
  <2>1. PICK x \in Links(i) : TRUE
    BY <1>3
  <2>2. Links(i) = {x}
    BY <1>1, <2>1
  <2>. QED BY <2>2, FS_Singleton
<1>. QED BY <1>2, <1>3

(* A step in another container, or one that leaves the process and its      *)
(* tree.                                                                    *)
LEMMA OtherFollows ==
    ASSUME FInv, NEW q \in Procs, Alone(q)', UNCHANGED load, th'[q] = th[q],
           \A n \in Fds : fds'[q][n] = fds[q][n],
           \A f \in Files : dir'[Home[q]][f] = dir[Home[q]][f],
           \A i \in Inodes : Shared(i)' => Shared(i)
    PROVE  CallFollows(q)' /\ \A n \in Fds : FdFollows(q, n)'
<1>1. Home' = Home
  BY DEF Home
<1>2. CallFollows(q) /\ \A n \in Fds : FdFollows(q, n)
  BY <1>1 DEF FInv, Alone
<1>3. /\ \A n \in Fds : fds[q][n].at \in Files \cup {None}
      /\ th[q].pc = "act" /\ th[q].op \in OpenOps => th[q].f \in Files
  BY Pieces DEF FInv, Thread, Descriptor, CowInv, HasNames
<1>4. CallFollows(q)'
  BY <1>1, <1>2, <1>3 DEF CallFollows, Here
<1>5. ASSUME NEW n \in Fds PROVE FdFollows(q, n)'
  BY <1>1, <1>2, <1>3 DEF FdFollows
<1>. QED BY <1>4, <1>5

(* A step of one process, which changes no tree but its own.                *)
LEMMA FollowStep ==
    ASSUME FInv, CowInv', NEW p \in Procs, UNCHANGED load,
           \A q \in Procs : q # p => th'[q] = th[q]
               /\ (Home[q] # Home[p] => \A n \in Fds : fds'[q][n] = fds[q][n]),
           \A t \in Trees : t # Home[p] => dir'[t] = dir[t],
           \A i \in Inodes : Shared(i)' => Shared(i),
           OneName', Alone(p) => CallFollows(p)' /\ \A n \in Fds : FdFollows(p, n)'
    PROVE  FInv'
<1>1. Home' = Home
  BY DEF Home
<1>2. ASSUME NEW q \in Procs, Alone(q)'
      PROVE  CallFollows(q)' /\ \A n \in Fds : FdFollows(q, n)'
  <2>1. Alone(q)
    BY <1>1, <1>2 DEF Alone
  <2>2. CASE q = p
    BY <2>1, <2>2
  <2>3. CASE q # p
    <3>1. Home[q] # Home[p]
      BY <2>1, <2>3 DEF Alone
    <3>2. Home[q] \in Trees
      BY HomeIsTree, Pieces DEF FInv
    <3>. QED BY <1>2, <2>3, <3>1, <3>2, OtherFollows
  <2>. QED BY <2>2, <2>3
<1>. QED BY <1>2 DEF FInv

(* A step within a call that leaves the trees and the descriptors.          *)
LEMMA CallStep ==
    ASSUME FInv, CowInv', NEW p \in Procs, UNCHANGED <<dir, fds, load>>,
           \A q \in Procs : q # p => th'[q] = th[q],
           Alone(p) => CallFollows(p)',
           Alone(p) /\ th'[p].pc \in {"temp", "copy", "rename"} =>
               \/ th[p].pc \in {"temp", "copy", "rename"} /\ th'[p].g = th[p].g
               \/ \A n \in Fds : fds[p][n].wr /\ fds[p][n].at # None => fds[p][n].at # th'[p].g
    PROVE  FInv'
<1>1. Home' = Home
  BY DEF Home
<1>2. \A i \in Inodes : Shared(i)' => Shared(i)
  BY SameTrees
<1>3. OneName'
  BY DEF FInv, OneName
<1>4. ASSUME Alone(p), NEW n \in Fds PROVE FdFollows(p, n)'
  <2>1. FdFollows(p, n)
    BY <1>4 DEF FInv
  <2>. QED BY <1>1, <1>2, <1>4, <2>1 DEF FdFollows
<1>. QED BY <1>2, <1>3, <1>4, FollowStep

(* A call begins. *)
LEMMA CallPathFollows ==
    ASSUME FInv, CowInv', NEW p \in Procs, NEW op \in Ops, NEW f \in Files, NEW g \in Files,
           CallPath(p, op, f, g)
    PROVE  FInv'
<1>1. UNCHANGED <<dir, ino, fds, tab, load>>
  BY DEF CallPath
<1>2. PICK pc \in {"stat", "act"} :
         /\ th' = [th EXCEPT ![p] = [Outside EXCEPT !.pc = pc, !.op = op, !.f = f, !.g = g]]
         /\ op # "rename" => f = g
         /\ pc = "act" => op \in {"openread", "openexcl", "rename"}
  <2>1. CASE /\ op = "rename"
             /\ th' = [th EXCEPT ![p] = [Outside EXCEPT !.op = op, !.f = f, !.g = g,
                          !.pc = IF Here(p, f) = Here(p, g) /\ Here(p, f) # None THEN "act" ELSE "stat"]]
    <3>1. CASE Here(p, f) = Here(p, g) /\ Here(p, f) # None
      BY <2>1, <3>1 DEF Outside
    <3>2. CASE ~(Here(p, f) = Here(p, g) /\ Here(p, f) # None)
      BY <2>1, <3>2 DEF Outside
    <3>. QED BY <3>1, <3>2
  <2>2. CASE op # "rename"
    BY <2>2 DEF CallPath
  <2>. QED BY <2>1, <2>2 DEF CallPath
<1>3. /\ th'[p] = [Outside EXCEPT !.pc = pc, !.op = op, !.f = f, !.g = g]
      /\ \A q \in Procs : q # p => th'[q] = th[q]
  BY <1>2, ThreadOnly DEF FInv
<1>4. th'[p].pc = pc /\ th'[p].op = op /\ th'[p].f = f /\ th'[p].g = g
  BY <1>3 DEF Outside
<1>5. CallFollows(p)'
  BY <1>2, <1>4 DEF CallFollows, OpenOps
<1>. QED BY <1>1, <1>3, <1>4, <1>5, CallStep

\* A call on a descriptor begins with the inode behind that descriptor.
LEMMA CallFdFollows ==
    ASSUME FInv, CowInv', NEW p \in Procs, NEW op \in FdOps, NEW n \in Fds, CallFd(p, op, n)
    PROVE  FInv'
<1> DEFINE x == [Outside EXCEPT !.op = op, !.f = tab[p][n], !.g = tab[p][n], !.n = n,
                                !.pc = IF tab[p][n] = None THEN "act" ELSE "stat"]
<1>1. UNCHANGED <<dir, ino, fds, tab, load>> /\ th' = [th EXCEPT ![p] = x]
  BY DEF CallFd
<1>2. th'[p] = x /\ \A q \in Procs : q # p => th'[q] = th[q]
  BY <1>1, ThreadOnly DEF FInv
<1>3. x.pc \in {"act", "stat"} /\ x.op = op /\ x.f = tab[p][n] /\ x.g = tab[p][n]
  BY DEF Outside
<1>4. op \notin OpenOps
  BY DEF FdOps, OpenOps
<1> HIDE DEF x
<1>5. CallFollows(p)'
  BY <1>2, <1>3, <1>4 DEF CallFollows
<1>. QED BY <1>1, <1>2, <1>3, <1>5, CallStep

(* The look at the link count: an inode with more than one link is not the  *)
(* one of a descriptor for writing, and one with one link is of this tree.  *)
LEMMA StatFollows == ASSUME FInv, CowInv', NEW p \in Procs, Stat(p) PROVE FInv'
<1> DEFINE i == Here(p, th[p].g)
           x == [th[p] EXCEPT !.pc = "act"]
           y == [th[p] EXCEPT !.pc = "temp", !.meta = ino[i].meta, !.size = ino[i].len]
<1>1. /\ th[p].pc = "stat" /\ UNCHANGED <<dir, ino, fds, tab, calls, load>>
      /\ th[p] \in Thread /\ Home' = Home
      /\ i # None => th[p].g \in Files /\ i = dir[Home[p]][th[p].g]
  BY InCopyUp DEF Stat, At, FInv, Here, Home
<1>2. CASE i = None \/ Cardinality(Links(i)) <= 1
  <2>1. th' = [th EXCEPT ![p] = x]
    BY <1>2, Pieces DEF Stat, Goto, FInv
  <2>2. th'[p] = x /\ \A q \in Procs : q # p => th'[q] = th[q]
    BY <2>1, ThreadOnly DEF FInv
  <2>3. /\ th'[p].pc = "act" /\ th'[p].op = th[p].op /\ th'[p].f = th[p].f /\ th'[p].g = th[p].g
    BY <1>1, <2>2 DEF Thread
  <2>4. \A j \in Inodes : i = j => ~Shared(j)'
    BY <1>1, <1>2, OneLink, SameTrees, CowAssumption DEF FInv
  <2>5. Alone(p) => CallFollows(p)'
    <3> SUFFICES ASSUME Alone(p) PROVE CallFollows(p)'
      OBVIOUS
    <3>1. th[p].op # "rename" => th[p].f = th[p].g
      BY DEF FInv, CallFollows
    <3>2. "rename" \notin OpenOps
      BY DEF OpenOps
    <3>3. Here(p, th[p].g)' = i
      BY <1>1, <2>3 DEF Here
    <3>4. th[p].f = th[p].g => Here(p, th[p].f)' = i
      BY <2>3, <3>3 DEF Here
    <3>. QED BY <2>3, <2>4, <3>1, <3>2, <3>4 DEF CallFollows
  <2>. QED BY <1>1, <2>2, <2>3, <2>5, CallStep
<1>3. CASE ~(i = None \/ Cardinality(Links(i)) <= 1)
  <2>1. th' = [th EXCEPT ![p] = y]
    BY <1>3 DEF Stat, LookAt
  <2>2. th'[p] = y /\ \A q \in Procs : q # p => th'[q] = th[q]
    BY <2>1, ThreadOnly DEF FInv
  <2>3. i \in Inodes /\ Shared(i)
    <3>1. i \in Inodes
      BY <1>1, <1>3, HomeIsTree, Pieces DEF FInv
    <3>. QED BY <1>3, <3>1, OneTree DEF FInv
  <2>4. Alone(p) => \A n \in Fds : fds[p][n].wr /\ fds[p][n].at # None => fds[p][n].at # th[p].g
    BY <1>1, <1>3, <2>3 DEF FInv, FdFollows
  <2> HIDE DEF i
  <2>5. /\ th'[p].pc = "temp" /\ th'[p].op = th[p].op /\ th'[p].f = th[p].f /\ th'[p].g = th[p].g
    BY <1>1, <2>2 DEF Thread
  <2>6. Alone(p) => CallFollows(p)'
    BY <2>5 DEF FInv, CallFollows
  <2>7. Alone(p) => \A n \in Fds : fds[p][n].wr /\ fds[p][n].at # None => fds[p][n].at # th'[p].g
    BY <2>4, <2>5
  <2>8. \A q \in Procs : q # p => th'[q] = th[q]
    BY <2>2
  <2>. QED BY <1>1, <2>6, <2>7, <2>8, CallStep
<1>. QED BY <1>2, <1>3

(* What a copy-up leaves of its call. *)
LEMMA InCopyFollows ==
    ASSUME FInv, CowInv', NEW p \in Procs, UNCHANGED <<dir, fds, load>>,
           th[p].pc \in {"temp", "copy", "rename"},
           NEW x, th' = [th EXCEPT ![p] = x],
           x.op = th[p].op, x.f = th[p].f, x.g = th[p].g, x.pc # "act"
    PROVE  FInv'
<1>1. th'[p] = x /\ \A q \in Procs : q # p => th'[q] = th[q]
  BY ThreadOnly DEF FInv
<1>2. Alone(p) => CallFollows(p)'
  BY <1>1 DEF FInv, CallFollows
<1>. QED BY <1>1, <1>2, CallStep

\* Making the temporary copy changes no name a call has resolved.
LEMMA MakeTempFollows == ASSUME FInv, CowInv', NEW p \in Procs, MakeTemp(p) PROVE FInv'
<1>1. th[p].pc = "temp" /\ UNCHANGED <<dir, fds, tab, calls, load>> /\ th[p] \in Thread
  BY InCopyUp DEF MakeTemp, At, FInv
<1>2. PICK i \in Free :
         /\ ino' = [ino EXCEPT ![i] = [data |-> IF CopiesData(th[p].op) THEN "part" ELSE "own",
                                       meta |-> th[p].meta, len |-> 0]]
         /\ th' = [th EXCEPT ![p] = [th[p] EXCEPT !.tmp = i,
                                        !.pc = IF CopiesData(th[p].op) THEN "copy" ELSE "rename"]]
  BY DEF MakeTemp
<1> DEFINE x == [th[p] EXCEPT !.tmp = i, !.pc = IF CopiesData(th[p].op) THEN "copy" ELSE "rename"]
<1>3. x.op = th[p].op /\ x.f = th[p].f /\ x.g = th[p].g /\ x.pc # "act"
  BY <1>1 DEF Thread
<1>4. th' = [th EXCEPT ![p] = x]
  BY <1>2
<1> HIDE DEF x
<1>. QED BY <1>1, <1>3, <1>4, InCopyFollows

\* Copying the data into it does not either.
LEMMA CopyDataFollows == ASSUME FInv, CowInv', NEW p \in Procs, CopyData(p) PROVE FInv'
<1>1. th[p].pc = "copy" /\ UNCHANGED <<dir, fds, tab, calls, load>> /\ th[p] \in Thread
  BY InCopyUp DEF CopyData, At, FInv
<1> DEFINE x == [th[p] EXCEPT !.pc = "rename"]
<1>2. th' = [th EXCEPT ![p] = x]
  BY Pieces DEF CopyData, Goto, FInv
<1>3. x.op = th[p].op /\ x.f = th[p].f /\ x.g = th[p].g /\ x.pc # "act"
  BY <1>1 DEF Thread
<1> HIDE DEF x
<1>. QED BY <1>1, <1>2, <1>3, InCopyFollows

(* A call that changes neither trees nor descriptors returns. *)
LEMMA ReturnFollows ==
    ASSUME FInv, CowInv', NEW p \in Procs, Return(p), UNCHANGED <<dir, fds, load>> PROVE FInv'
<1>1. th'[p] = Outside /\ \A q \in Procs : q # p => th'[q] = th[q]
  BY Returned DEF FInv
<1>2. CallFollows(p)'
  BY <1>1 DEF CallFollows, Outside
<1>. QED BY <1>1, <1>2, OutsideIsThread, CallStep

(* The copy is published under its name: the descriptors have other names.  *)
LEMMA PublishFollows == ASSUME FInv, CowInv', NEW p \in Procs, Publish(p) PROVE FInv'
<1>1. /\ th[p].pc = "rename" /\ UNCHANGED <<ino, fds, tab, calls, load>> /\ th[p] \in Thread
      /\ th[p].tmp # None /\ th[p].g \in Files /\ CowInv
  BY InCopyUp DEF Publish, At, FInv
<1>2. PICK j \in Inodes : j = th[p].tmp
  BY <1>1 DEF Thread
<1>3. PICK c \in Trees : c = Home[p]
  BY <1>1, HomeIsTree, Pieces
<1>4. dir' = [dir EXCEPT ![c][th[p].g] = j] /\ \A t \in Trees, f \in Files : dir[t][f] # j
  BY <1>1, <1>2, <1>3 DEF Publish, CowInv, Owned
<1>5. /\ \A t \in Trees, f \in Files : IF t = c /\ f = th[p].g THEN dir'[t][f] = j ELSE dir'[t][f] = dir[t][f]
      /\ \A t \in Trees : t # c => dir'[t] = dir[t]
  BY <1>1, <1>4, Pieces
<1>6. ~Shared(j)' /\ \A i \in Inodes : Shared(i)' => Shared(i) /\ i # j
  BY <1>4, <1>5, NewInode
<1>7. th'[p] = [th[p] EXCEPT !.tmp = None, !.pc = "act"] /\ \A q \in Procs : q # p => th'[q] = th[q]
  BY <1>1, ThreadOnly DEF Publish
<1>8. th'[p].pc = "act" /\ th'[p].op = th[p].op /\ th'[p].f = th[p].f /\ th'[p].g = th[p].g
  BY <1>1, <1>7 DEF Thread
<1>9. Home' = Home
  BY <1>1 DEF Home
<1>10. OneName'
  BY <1>4, <1>5 DEF FInv, OneName
<1>11. ASSUME Alone(p) PROVE CallFollows(p)' /\ \A n \in Fds : FdFollows(p, n)'
  <2>1. CallFollows(p)'
    <3>1. th[p].op # "rename" => th[p].f = th[p].g
      BY <1>11 DEF FInv, CallFollows
    <3>2. dir'[Home[p]][th[p].g] = j
      BY <1>1, <1>3, <1>5
    <3>3. "rename" \notin OpenOps
      BY DEF OpenOps
    <3>4. Here(p, th[p].g)' = j
      BY <1>1, <1>8, <1>9, <3>2 DEF Here
    <3>5. th[p].f = th[p].g => Here(p, th[p].f)' = j
      BY <1>8, <3>4 DEF Here
    <3>. QED BY <1>6, <1>8, <3>1, <3>3, <3>5 DEF CallFollows
  <2>2. ASSUME NEW n \in Fds PROVE FdFollows(p, n)'
    <3>1. FdFollows(p, n) /\ fds[p][n].at \in Files \cup {None}
      BY <1>1, <1>11, Pieces DEF FInv, Descriptor
    <3>. QED BY <1>1, <1>3, <1>5, <1>6, <1>8, <1>9, <3>1 DEF FdFollows
  <2>. QED BY <2>1, <2>2
<1>. QED BY <1>1, <1>3, <1>5, <1>6, <1>7, <1>10, <1>11, FollowStep

(* A file is opened for writing that is of this tree alone, or new.         *)
LEMMA OpenFollows == ASSUME FInv, CowInv', NEW p \in Procs, ActOpen(p) PROVE FInv'
<1> DEFINE f == th[p].f
           i == Here(p, f)
           wr == th[p].op # "openread"
<1>1. /\ Return(p) /\ UNCHANGED <<calls, load>> /\ th[p].pc = "act" /\ th[p].op \in OpenOps
      /\ CowInv /\ load \in Loads
  BY Pieces DEF ActOpen, At, FInv
<1>2. PICK c \in Trees : c = Home[p]
  BY <1>1, HomeIsTree
<1>3. f \in Files /\ i = dir[c][f]
  BY <1>1, <1>2 DEF CowInv, HasNames, Here
<1>4. CASE UNCHANGED <<fds, tab, dir, ino>>
  BY <1>1, <1>4, ReturnFollows
<1>5. ASSUME NEW n \in Fds, NEW CONSTANT j, j \in (IF i = None THEN Free ELSE {i}),
             IF i = None THEN wr ELSE th[p].op # "openexcl",
             fds' = [fds EXCEPT ![p][n] = [ino |-> j, wr |-> wr, path |-> f, at |-> f]],
             dir' = [dir EXCEPT ![c][f] = j]
      PROVE  FInv'
  <2> wr \in BOOLEAN
    OBVIOUS
  <2>1. /\ \A t \in Trees, g \in Files : IF t = c /\ g = f THEN dir'[t][g] = j ELSE dir'[t][g] = dir[t][g]
        /\ \A t \in Trees : t # c => dir'[t] = dir[t]
    BY <1>1, <1>3, <1>5, Pieces
  <2>2. j # None /\ (i # None => j = i)
    BY <1>5, FreeIsNew
  <2>3. /\ \A k \in Inodes : Shared(k)' => Shared(k)
        /\ Alone(p) /\ wr => \A k \in Inodes : j = k => ~Shared(k)'
        /\ OneName'
    <3>1. CASE i = None
      <4>1. \A t \in Trees, g \in Files : dir[t][g] # j
        BY <1>5, <3>1, FreeIsNew
      <4>2. ~Shared(j)' /\ \A k \in Inodes : Shared(k)' => Shared(k) /\ k # j
        BY <2>1, <4>1, NewInode
      <4>3. OneName'
        BY <2>1, <4>1 DEF FInv, OneName
      <4>. QED BY <4>2, <4>3
    <3>2. CASE i # None
      <4>1. \A t \in Trees, g \in Files : dir'[t][g] = dir[t][g]
        BY <1>3, <2>1, <2>2, <3>2
      <4>2. OneName' /\ \A k \in Inodes : Shared(k)' => Shared(k)
        BY <4>1 DEF FInv, OneName, Shared, InTree
      <4>3. Alone(p) /\ wr => \A k \in Inodes : j = k => ~Shared(k)
        BY <1>1, <1>5, <2>2, <3>2 DEF FInv, CallFollows
      <4>. QED BY <4>2, <4>3
    <3>. QED BY <3>1, <3>2
  <2>4. th'[p] = Outside /\ \A q \in Procs : q # p => th'[q] = th[q]
    BY <1>1, Returned
  <2>5. CallFollows(p)' /\ th'[p].pc = "idle"
    BY <2>4, OutsideIsThread DEF CallFollows, Outside
  <2>6. Home' = Home
    BY <1>1 DEF Home
  <2> HIDE DEF f, i, wr
  <2>7. /\ fds'[p][n].wr = wr /\ fds'[p][n].ino = j /\ fds'[p][n].at = f
        /\ \A q \in Procs, m \in Fds : q # p \/ m # n => fds'[q][m] = fds[q][m]
    BY <1>1, <1>5, Pieces
  <2>8. ASSUME Alone(p), NEW m \in Fds PROVE FdFollows(p, m)'
    <3>1. CASE m = n
      BY <1>2, <1>3, <2>1, <2>2, <2>3, <2>5, <2>6, <2>7, <2>8, <3>1 DEF FdFollows
    <3>2. CASE m # n
      <4>1. FdFollows(p, m) /\ fds'[p][m] = fds[p][m] /\ fds[p][m].at \in Files \cup {None}
        BY <1>1, <2>7, <2>8, <3>2, Pieces DEF FInv, Descriptor
      <4>2. fds[p][m].wr /\ fds[p][m].at = f => j = dir[c][f]
        BY <1>2, <1>3, <2>2, <4>1, CowAssumption DEF FdFollows, Inodes
      <4>. QED BY <1>2, <2>1, <2>3, <2>5, <2>6, <4>1, <4>2 DEF FdFollows
    <3>. QED BY <3>1, <3>2
  <2>. QED BY <1>1, <1>2, <2>1, <2>3, <2>4, <2>5, <2>7, <2>8, FollowStep
<1>6. \/ UNCHANGED <<fds, tab, dir, ino>>
      \/ \E n \in Fds, j \in IF i = None THEN Free ELSE {i} :
            /\ IF i = None THEN wr ELSE th[p].op # "openexcl"
            /\ fds' = [fds EXCEPT ![p][n] = [ino |-> j, wr |-> wr, path |-> f, at |-> f]]
            /\ dir' = [dir EXCEPT ![c][f] = j]
  <2> HIDE DEF i
  <2>. QED BY <1>2 DEF ActOpen, FreeFd, i
<1>. QED BY <1>4, <1>5, <1>6

(* rename takes the descriptors of both names with it.                      *)
LEMMA RenameFollows == ASSUME FInv, CowInv', NEW p \in Procs, ActRename(p) PROVE FInv'
<1> DEFINE f == th[p].f
           g == th[p].g
           c == Home[p]
<1>1. /\ Return(p) /\ UNCHANGED <<ino, tab, calls, load>> /\ th[p].pc = "act" /\ th[p].op = "rename"
      /\ CowInv
  BY DEF ActRename, At, FInv
<1>2. f \in Files /\ g \in Files /\ c \in Trees
  BY <1>1, HomeIsTree, Pieces DEF CowInv, HasNames, PathOps
<1>3. th'[p] = Outside /\ (\A q \in Procs : q # p => th'[q] = th[q])
  BY <1>1, Returned
<1>4. CASE UNCHANGED <<dir, fds>>
  BY <1>1, <1>4, ReturnFollows
<1>5. CASE /\ dir[c][f] \notin {None, dir[c][g]}
           /\ dir' = [dir EXCEPT ![c][g] = dir[c][f], ![c][f] = None]
           /\ fds' = [q \in Procs |-> [n \in Fds |->
                        IF Home[q] # c THEN fds[q][n]
                        ELSE [fds[q][n] EXCEPT !.at = IF @ = g THEN None ELSE IF @ = f THEN g ELSE @]]]
  <2> HIDE DEF f, g, c
  <2>1. f # g
    BY <1>5
  <2>2. /\ \A t \in Trees : t # c => dir'[t] = dir[t]
        /\ \A h \in Files : dir'[c][h] = IF h = f THEN None ELSE IF h = g THEN dir[c][f] ELSE dir[c][h]
    <3>1. dir[c] \in [Files -> Inodes \cup {None}]
      BY <1>1, <1>2, Pieces
    <3>2. \A t \in Trees : t # c => dir'[t] = dir[t]
      BY <1>1, <1>2, <1>5, Pieces
    <3>3. \A h \in Files : dir'[c][h] = IF h = f THEN None ELSE IF h = g THEN dir[c][f] ELSE dir[c][h]
      BY <1>1, <1>2, <1>5, <2>1, <3>1, Pieces
    <3>. QED BY <3>2, <3>3
  <2>3. \A t \in Trees, h \in Files : dir'[t][h] = None \/ \E k \in Files : dir'[t][h] = dir[t][k]
    BY <1>2, <2>2
  <2>4. \A i \in Inodes : Shared(i)' => Shared(i)
    BY <2>3, NoNewSharing
  <2>5. OneName'
    BY <1>2, <2>2 DEF FInv, OneName
  <2>6. \A q \in Procs, n \in Fds : Home[q] # c => fds'[q][n] = fds[q][n]
    BY <1>5
  <2>7. CallFollows(p)' /\ th'[p].pc = "idle"
    BY <1>3, OutsideIsThread DEF CallFollows, Outside
  <2>8. Home' = Home
    BY <1>1 DEF Home
  <2>9. ASSUME Alone(p), NEW n \in Fds PROVE FdFollows(p, n)'
    <3> DEFINE d == fds[p][n]
               a == IF d.at = g THEN None ELSE IF d.at = f THEN g ELSE d.at
    <3>1. d \in Descriptor /\ FdFollows(p, n)
      BY <1>1, <2>9, Pieces DEF FInv
    <3>2. fds'[p][n] = [d EXCEPT !.at = a]
      BY <1>5 DEF c
    <3> HIDE DEF a
    <3>3. fds'[p][n].wr = d.wr /\ fds'[p][n].ino = d.ino /\ fds'[p][n].at = a
      BY <3>1, <3>2 DEF Descriptor
    <3>4. d.at \in Files \cup {None}
      BY <3>1 DEF Descriptor
    <3>5. d.wr /\ a # None => dir'[c][a] = d.ino
      BY <1>2, <2>1, <2>2, <3>1, <3>4, CowAssumption DEF FdFollows, a, c, Inodes
    <3>. QED BY <2>4, <2>7, <2>8, <3>1, <3>3, <3>5 DEF FdFollows, c
  <2>. QED BY <1>1, <1>3, <2>2, <2>4, <2>5, <2>6, <2>7, <2>9, FollowStep DEF c
<1>. QED BY <1>2, <1>4, <1>5 DEF ActRename, Here

(* A descriptor closes, or is a copy of another one of its process.         *)
LEMMA FdsFollow ==
    ASSUME FInv, CowInv', NEW p \in Procs, UNCHANGED <<dir, load>>,
           th'[p] = Outside \/ (th'[p] = th[p] /\ th[p].pc = "idle"),
           \A q \in Procs : q # p => th'[q] = th[q] /\ \A n \in Fds : fds'[q][n] = fds[q][n],
           \A n \in Fds : fds'[p][n] = Closed \/ \E m \in Fds : fds'[p][n] = fds[p][m]
    PROVE  FInv'
<1>1. Home' = Home
  BY DEF Home
<1>2. \A i \in Inodes : Shared(i)' => Shared(i)
  BY SameTrees
<1>3. OneName'
  BY DEF FInv, OneName
<1>4. th'[p].pc = "idle"
  BY OutsideIsThread
<1>5. ASSUME Alone(p) PROVE CallFollows(p)'
  BY <1>4, <1>5 DEF FInv, CallFollows, Outside
<1>6. ASSUME Alone(p), NEW n \in Fds PROVE FdFollows(p, n)'
  <2>1. CASE fds'[p][n] = Closed
    BY <2>1 DEF FdFollows, Closed
  <2>2. ASSUME NEW m \in Fds, fds'[p][n] = fds[p][m] PROVE FdFollows(p, n)'
    <3>1. FdFollows(p, m)
      BY <1>6 DEF FInv
    <3>. QED BY <1>1, <1>2, <1>4, <2>2, <3>1 DEF FdFollows
  <2>. QED BY <2>1, <2>2
<1>. QED BY <1>2, <1>3, <1>5, <1>6, FollowStep

\* A write outside the copy-on-write path goes to the file under its name.
LEMMA DirectFollows ==
    ASSUME FInv, CowInv', NEW p \in Procs, NEW n \in Fds, NEW m \in Fds,
           WriteFd(p, n) \/ Close(p, n) \/ Fclose(p, n) \/ Dup(p, n, m) \/ Dup2(p, n, m)
    PROVE  FInv'
<1>1. th' = th /\ th[p].pc = "idle" /\ UNCHANGED <<dir, load>>
  BY DEF WriteFd, Close, Fclose, Dup, Dup2, Begin, At
<1>2. fds \in [Procs -> [Fds -> Descriptor]]
  BY Pieces DEF FInv
<1>3. CASE WriteFd(p, n)
  BY <1>1, <1>3, FdsFollow DEF WriteFd
<1>4. CASE Close(p, n) \/ Fclose(p, n)
  <2>1. fds' = [fds EXCEPT ![p][n] = Closed]
    BY <1>4 DEF Close, Fclose
  <2>2. /\ \A q \in Procs : q # p => \A k \in Fds : fds'[q][k] = fds[q][k]
        /\ \A k \in Fds : fds'[p][k] \in {Closed, fds[p][k]}
    BY <1>2, <2>1
  <2>. QED BY <1>1, <2>2, FdsFollow
<1>5. CASE Dup(p, n, m) \/ Dup2(p, n, m)
  <2>1. fds' = [fds EXCEPT ![p][m] = fds[p][n]]
    BY <1>5 DEF Dup, Dup2
  <2>2. /\ \A q \in Procs : q # p => \A k \in Fds : fds'[q][k] = fds[q][k]
        /\ \A k \in Fds : fds'[p][k] \in {fds[p][n], fds[p][k]}
    BY <1>2, <2>1
  <2>. QED BY <1>1, <2>2, FdsFollow
<1>. QED BY <1>3, <1>4, <1>5

\* A dup2 onto itself leaves the descriptors.
LEMMA SelfFollows ==
    ASSUME FInv, CowInv', NEW p \in Procs, NEW n \in Fds, Dup2Self(p, n) PROVE FInv'
<1>1. th' = th /\ th[p].pc = "idle" /\ UNCHANGED <<dir, fds, load>>
  BY DEF Dup2Self, Begin, At
<1>. QED BY <1>1, FdsFollow

\* The death of a process leaves the others as they were.
LEMMA KillFollows == ASSUME FInv, CowInv', NEW p \in Procs, Kill(p) PROVE FInv'
<1>1. /\ Return(p) /\ UNCHANGED <<dir, load>> /\ CowInv
      /\ fds' = [fds EXCEPT ![p] = [n \in Fds |-> Closed]]
  BY DEF Kill, FInv
<1>2. /\ \A q \in Procs : q # p => \A n \in Fds : fds'[q][n] = fds[q][n]
      /\ \A n \in Fds : fds'[p][n] = Closed
  BY <1>1, Pieces
<1>3. th'[p] = Outside /\ \A q \in Procs : q # p => th'[q] = th[q]
  BY <1>1, Returned
<1>. QED BY <1>1, <1>2, <1>3, FdsFollow

(* No process lives in the image. *)
LEMMA RemoveFollows == ASSUME FInv, CowInv', RemoveImage PROVE FInv'
<1>1. /\ dir' = [dir EXCEPT ![Image] = [f \in Files |-> None]]
      /\ UNCHANGED <<ino, fds, tab, th, calls, load>>
  BY DEF RemoveImage
<1>2. /\ \A t \in Trees, f \in Files : dir'[t][f] \in {None, dir[t][f]}
      /\ \A t \in Trees : t # Image => dir'[t] = dir[t]
  BY <1>1, Pieces DEF FInv
<1>3. \A i \in Inodes : Shared(i)' => Shared(i)
  BY <1>2, NoNewSharing
<1>4. OneName'
  <2>1. ASSUME NEW t \in Trees PROVE dir'[t] = dir[t] \/ \A f \in Files : dir'[t][f] = None
    BY <1>1, <1>2, Pieces DEF FInv, Trees
  <2>. QED BY <2>1 DEF FInv, OneName
<1>5. ASSUME NEW q \in Procs, Alone(q)' PROVE CallFollows(q)' /\ \A n \in Fds : FdFollows(q, n)'
  <2>1. Home[q] \in Trees /\ Home[q] # Image
    BY HomeIsTree, Pieces, CowAssumption DEF FInv
  <2>. QED BY <1>1, <1>2, <1>3, <1>5, <2>1, OtherFollows
<1>. QED BY <1>4, <1>5 DEF FInv

(* "the file in merged has its own inode": a process alone in its container *)
(* writes to the file its tree shows.  A copy-up never leaves an open       *)
(* descriptor on the old inode, because what is open for writing has one    *)
(* link.  No load is excluded.                                              *)
THEOREM WritesStayVisible == Spec => []WritesAreVisible
<1>1. Init => FInv
  <2> SUFFICES ASSUME Init PROVE FInv
    OBVIOUS
  <2>1. CowInv
    BY InitInv
  <2>2. OneName
    BY DEF Init, OneName
  <2>3. ASSUME NEW p \in Procs PROVE CallFollows(p) /\ \A n \in Fds : FdFollows(p, n)
    <3>1. th[p] = Outside /\ \A n \in Fds : fds[p][n] = Closed
      BY DEF Init
    <3>2. CallFollows(p)
      BY <3>1 DEF CallFollows, Outside
    <3>. QED BY <3>1, <3>2 DEF FdFollows, Closed
  <2>. QED BY <2>1, <2>2, <2>3 DEF FInv
<1>2. FInv /\ [Next]_vars => FInv'
  <2> SUFFICES ASSUME FInv, [Next]_vars PROVE FInv'
    OBVIOUS
  <2>1. CowInv'
    BY StepInv DEF FInv
  <2>2. ASSUME NEW p \in Procs, NEW op \in Ops, NEW f \in Files, NEW g \in Files, CallPath(p, op, f, g)
        PROVE  FInv'
    BY <2>1, <2>2, CallPathFollows
  <2>3. ASSUME NEW p \in Procs, NEW op \in FdOps, NEW n \in Fds, CallFd(p, op, n) PROVE FInv'
    BY <2>1, <2>3, CallFdFollows
  <2>4. ASSUME NEW p \in Procs, CopyUp(p) PROVE FInv'
    <3>1. CASE CopyUpFails(p)
      BY <2>1, <3>1, ReturnFollows DEF CopyUpFails
    <3>. QED BY <2>1, <2>4, <3>1, StatFollows, MakeTempFollows, CopyDataFollows, PublishFollows DEF CopyUp
  <2>5. ASSUME NEW p \in Procs, Act(p) PROVE FInv'
    <3>1. CASE ActPath(p) \/ ActFd(p) \/ ActSyscall(p)
      BY <2>1, <3>1, ReturnFollows DEF ActPath, ActFd, ActSyscall
    <3>. QED BY <2>1, <2>5, <3>1, OpenFollows, RenameFollows DEF Act
  <2>6. ASSUME NEW p \in Procs, NEW n \in Fds, NEW m \in Fds,
               WriteFd(p, n) \/ Close(p, n) \/ Fclose(p, n) \/ Dup(p, n, m) \/ Dup2(p, n, m)
        PROVE  FInv'
    BY <2>1, <2>6, DirectFollows
  <2>8. ASSUME NEW p \in Procs, NEW n \in Fds, Dup2Self(p, n) PROVE FInv'
    BY <2>1, <2>8, SelfFollows
  <2>7. CASE UNCHANGED vars
    <3>1. UNCHANGED <<dir, fds, th, load>>
      BY <2>7 DEF vars
    <3>2. \A i \in Inodes : Shared(i)' => Shared(i)
      BY <3>1, SameTrees
    <3>. QED BY <2>1, <3>1, <3>2, OtherFollows DEF FInv, OneName
  <2>. QED BY <2>1, <2>2, <2>3, <2>4, <2>5, <2>6, <2>7, <2>8, KillFollows, RemoveFollows DEF Next
<1>3. FInv => WritesAreVisible
  BY DEF FInv, FdFollows, WritesAreVisible
<1>. QED BY <1>1, <1>2, <1>3, PTL DEF Spec

-----------------------------------------------------------------------------
(* No tree shows half a copy *)

(* A tree that at most one process changes.                                 *)
Lone(t) == \A p, q \in Procs : Home[p] = t /\ Home[q] = t => p = q

(* An inode that is open for writing is in the tree of its process only.    *)
WritesHome == \A p \in Procs, n \in Fds, t \in Trees, f \in Files :
    fds[p][n].wr /\ dir[t][f] # None /\ dir[t][f] = fds[p][n].ino => t = Home[p]

LoneIsWhole == \A t \in Trees, f \in Files :
    Lone(t) /\ dir[t][f] # None => ino[dir[t][f]].data # "prefix"

(* A process alone in its container copies a file that is as long as it was *)
(* when the process looked at it.                                           *)
CopiesWhole(p) ==
    /\ th[p].pc \in {"temp", "copy"} => \A i \in Inodes : Here(p, th[p].g) = i => ino[i].len <= th[p].size
    /\ th[p].pc = "rename" => ino[th[p].tmp].data # "prefix"

HInv == PInv /\ WritesHome /\ LoneIsWhole /\ \A p \in Procs : Alone(p) => CopiesWhole(p)

(* Nothing new is open for writing or shown.                                *)
LEMMA KeepHome ==
    ASSUME WritesHome, UNCHANGED load,
           \A q \in Procs, n \in Fds : ~fds'[q][n].wr
               \/ \E m \in Fds : fds[q][m].wr /\ fds'[q][n].ino = fds[q][m].ino,
           \A t \in Trees, f \in Files : dir'[t][f] = None \/ \E g \in Files : dir'[t][f] = dir[t][g]
    PROVE  WritesHome'
<1>1. Home' = Home
  BY DEF Home
<1>2. ASSUME NEW q \in Procs, NEW n \in Fds, NEW t \in Trees, NEW f \in Files,
             fds'[q][n].wr, dir'[t][f] # None, dir'[t][f] = fds'[q][n].ino
      PROVE  t = Home[q]
  <2>1. PICK m \in Fds : fds[q][m].wr /\ fds'[q][n].ino = fds[q][m].ino
    BY <1>2
  <2>2. PICK g \in Files : dir'[t][f] = dir[t][g]
    BY <1>2
  <2>. QED BY <1>2, <2>1, <2>2 DEF WritesHome
<1>. QED BY <1>1, <1>2 DEF WritesHome

(* A step of one process: it changes its own tree, makes half a copy of     *)
(* nothing but its temporary file, and changes the length of no inode that  *)
(* another tree has.                                                        *)
LEMMA LoneStep ==
    ASSUME HInv, PInv', WritesHome', NEW p \in Procs, UNCHANGED load,
           \A q \in Procs : q # p => th'[q] = th[q],
           \A t \in Trees : t # Home[p] => dir'[t] = dir[t],
           \A j \in Inodes : ino'[j].data = "prefix" => ino[j].data = "prefix" \/ j = th[p].tmp,
           \A j \in Inodes, t \in Trees, f \in Files :
               dir[t][f] = j /\ t # Home[p] => ino'[j].len = ino[j].len,
           Alone(p) => CopiesWhole(p)',
           \A f \in Files : \/ dir'[Home[p]][f] = None
                            \/ \E g \in Files : dir'[Home[p]][f] = dir[Home[p]][g]
                            \/ Alone(p) => ino'[dir'[Home[p]][f]].data # "prefix"
    PROVE  HInv'
<1>1. Home' = Home /\ (\A q \in Procs : Alone(q)' <=> Alone(q)) /\ (\A t : Lone(t)' <=> Lone(t))
  BY DEF Home, Alone, Lone
<1>2. CowInv /\ CowInv' /\ Home[p] \in Trees
  BY HomeIsTree, Pieces DEF HInv, PInv
<1>3. ASSUME NEW q \in Procs, Alone(q) PROVE CopiesWhole(q)'
  <2>1. CASE q = p
    BY <1>3, <2>1
  <2>2. CASE q # p
    <3>1. th'[q] = th[q] /\ Home[q] # Home[p] /\ CopiesWhole(q)
      BY <1>3, <2>2 DEF Alone, HInv
    <3>2. Home[q] \in Trees /\ dir'[Home[q]] = dir[Home[q]]
      BY <1>2, <3>1, HomeIsTree, Pieces
    <3>3. Here(q, th[q].g)' = Here(q, th[q].g)
      BY <1>1, <3>1, <3>2 DEF Here
    <3>4. ASSUME th[q].pc \in {"temp", "copy"}, NEW i \in Inodes, Here(q, th[q].g) = i
          PROVE  ino'[i].len <= th[q].size
      <4>1. dir[Home[q]][th[q].g] = i /\ th[q].g \in Files
        BY <3>4, CowAssumption DEF Here
      <4>2. ino'[i].len = ino[i].len
        BY <3>1, <3>2, <4>1
      <4>. QED BY <3>1, <3>4, <4>2 DEF CopiesWhole
    <3>5. th[q].pc = "rename" => ino'[th[q].tmp].data # "prefix"
      <4> SUFFICES ASSUME th[q].pc = "rename" PROVE ino'[th[q].tmp].data # "prefix"
        OBVIOUS
      <4>1. th[q].tmp \in Inodes /\ th[q].tmp # None
        BY <1>2 DEF CowInv, TypeOK
      <4>2. th[q].tmp # th[p].tmp
        BY <1>2, <2>2, <4>1 DEF CowInv, Owned
      <4>. QED BY <3>1, <4>1, <4>2 DEF CopiesWhole
    <3>. QED BY <3>1, <3>3, <3>4, <3>5 DEF CopiesWhole
  <2>. QED BY <2>1, <2>2
<1>4. ASSUME NEW t \in Trees, NEW f \in Files, dir[t][f] # None, Lone(t)
      PROVE  ino'[dir[t][f]].data # "prefix"
  <2>1. dir[t][f] \in Inodes /\ dir[t][f] # th[p].tmp
    BY <1>2, <1>4, Pieces DEF CowInv, Owned
  <2>. QED BY <1>4, <2>1 DEF HInv, LoneIsWhole
<1>5. Lone(Home[p]) <=> Alone(p)
  BY DEF Lone, Alone
<1>6. LoneIsWhole'
  <2> SUFFICES ASSUME NEW t \in Trees, NEW f \in Files, Lone(t), dir'[t][f] # None
               PROVE  ino'[dir'[t][f]].data # "prefix"
    BY <1>1 DEF LoneIsWhole
  <2>1. CASE t # Home[p]
    BY <1>4, <2>1
  <2>2. CASE t = Home[p]
    BY <1>2, <1>4, <1>5, <2>2
  <2>. QED BY <2>1, <2>2
<1>. QED BY <1>1, <1>3, <1>6 DEF HInv

(* A step of a process that leaves the trees.                               *)
LEMMA SameDirStep ==
    ASSUME HInv, PInv', NEW p \in Procs, UNCHANGED <<dir, load>>,
           \A q \in Procs : q # p => th'[q] = th[q],
           \A q \in Procs, n \in Fds : ~fds'[q][n].wr
               \/ \E m \in Fds : fds[q][m].wr /\ fds'[q][n].ino = fds[q][m].ino,
           \A j \in Inodes : ino'[j].data = "prefix" => ino[j].data = "prefix" \/ j = th[p].tmp,
           \A j \in Inodes, t \in Trees, f \in Files :
               dir[t][f] = j /\ t # Home[p] => ino'[j].len = ino[j].len,
           Alone(p) => CopiesWhole(p)'
    PROVE  HInv'
<1>1. WritesHome'
  BY KeepHome DEF HInv
<1>. QED BY <1>1, LoneStep

(* A call that changes an inode of its tree alone, or metadata only.        *)
LEMMA AlterStep ==
    ASSUME HInv, PInv', NEW p \in Procs, UNCHANGED <<dir, fds, load>>,
           \A q \in Procs : q # p => th'[q] = th[q], th'[p].pc = "idle",
           NEW i, Alter(i),
           Touch(i) \/ \A t \in Trees, f \in Files : i \in Inodes /\ dir[t][f] = i => t = Home[p]
    PROVE  HInv'
<1>1. CowInv
  BY DEF HInv, PInv
<1>2. \A j \in Inodes : ino'[j].data = "prefix" => ino[j].data = "prefix"
  BY <1>1, Changed
<1>3. ASSUME NEW j \in Inodes, NEW t \in Trees, NEW f \in Files, dir[t][f] = j, t # Home[p]
      PROVE  ino'[j].len = ino[j].len
  <2>1. CASE Touch(i)
    BY <1>1, <2>1, Pieces DEF Touch, Inode
  <2>2. CASE ~Touch(i)
    <3>1. j # i
      BY <1>3, <2>2
    <3>. QED BY <1>1, <3>1, Changed
  <2>. QED BY <2>1, <2>2
<1>4. CopiesWhole(p)'
  BY DEF CopiesWhole
<1>. QED BY <1>2, <1>3, <1>4, SameDirStep

(* The inode a safe call changes is of its tree alone.                      *)
LEMMA ActsHome ==
    ASSUME HInv, NEW p \in Procs, th[p].pc = "act", th[p].op \in Changers, th[p].f # None,
           NEW t \in Trees, NEW f \in Files, Here(p, th[p].f) \in Inodes, dir[t][f] = Here(p, th[p].f)
    PROVE  t = Home[p]
<1>1. CowInv /\ CallIsSafe(p)
  BY DEF HInv, PInv
<1>2. Home[p] \in Trees
  BY <1>1, HomeIsTree, Pieces
<1>3. PICK i \in Inodes : i = Here(p, th[p].f)
  OBVIOUS
<1>4. i \in InTree(Home[p]) /\ i \in InTree(t)
  BY <1>3, CowAssumption DEF Here, InTree
<1>5. ~Shared(i)
  BY <1>1, <1>3 DEF CallIsSafe
<1>. QED BY <1>2, <1>4, <1>5 DEF Shared

(* A call begins, or fails, or a process dies.                              *)
LEMMA CallHome ==
    ASSUME HInv, PInv', NEW p \in Procs,
           \/ \E op \in Ops, f, g \in Files : CallPath(p, op, f, g)
           \/ \E op \in FdOps, n \in Fds : CallFd(p, op, n)
           \/ CopyUpFails(p) \/ Kill(p)
    PROVE  HInv'
<1>1. CowInv /\ UNCHANGED <<dir, ino, load>>
  BY DEF HInv, PInv, CallPath, CallFd, CopyUpFails, Kill
<1>2. \E x : th' = [th EXCEPT ![p] = x] /\ x.pc \in {"idle", "stat", "act"}
  <2>2. ASSUME NEW op \in Ops, NEW f \in Files, NEW g \in Files, NEW pc \in {"stat", "act"}
        PROVE  [Outside EXCEPT !.pc = pc, !.op = op, !.f = f, !.g = g].pc = pc
    BY DEF Outside
  <2>3. ASSUME NEW op \in FdOps, NEW n \in Fds, CallFd(p, op, n)
        PROVE  \E x : th' = [th EXCEPT ![p] = x] /\ x.pc \in {"stat", "act"}
    <3> DEFINE x == [Outside EXCEPT !.op = op, !.f = tab[p][n], !.g = tab[p][n], !.n = n,
                                    !.pc = IF tab[p][n] = None THEN "act" ELSE "stat"]
    <3>1. th' = [th EXCEPT ![p] = x]
      BY <2>3 DEF CallFd
    <3>2. x.pc \in {"stat", "act"}
      BY DEF Outside
    <3> HIDE DEF x
    <3>. QED BY <3>1, <3>2
  <2>4. CASE CopyUpFails(p) \/ Kill(p)
    <3>1. th' = [th EXCEPT ![p] = Outside]
      BY <2>4 DEF CopyUpFails, Kill, Return
    <3>. QED BY <3>1, OutsideIsThread
  <2>5. ASSUME NEW op \in Ops, NEW f \in Files, NEW g \in Files, CallPath(p, op, f, g)
        PROVE  \E x : th' = [th EXCEPT ![p] = x] /\ x.pc \in {"stat", "act"}
    <3>1. PICK pc \in {"stat", "act"} :
             th' = [th EXCEPT ![p] = [Outside EXCEPT !.pc = pc, !.op = op, !.f = f, !.g = g]]
      <4>1. CASE th' = [th EXCEPT ![p] = [Outside EXCEPT !.op = op, !.f = f, !.g = g,
                           !.pc = IF Here(p, f) = Here(p, g) /\ Here(p, f) # None THEN "act" ELSE "stat"]]
        <5>1. CASE Here(p, f) = Here(p, g) /\ Here(p, f) # None
          BY <4>1, <5>1 DEF Outside
        <5>2. CASE ~(Here(p, f) = Here(p, g) /\ Here(p, f) # None)
          BY <4>1, <5>2 DEF Outside
        <5>. QED BY <5>1, <5>2
      <4>. QED BY <2>5, <4>1 DEF CallPath
    <3> DEFINE x == [Outside EXCEPT !.pc = pc, !.op = op, !.f = f, !.g = g]
    <3>2. th' = [th EXCEPT ![p] = x] /\ x.pc = pc
      BY <2>2, <3>1
    <3> HIDE DEF x
    <3>. QED BY <3>2
  <2>6. CASE \E op \in Ops, f, g \in Files : CallPath(p, op, f, g)
    BY <2>5, <2>6
  <2>7. CASE \E op \in FdOps, n \in Fds : CallFd(p, op, n)
    BY <2>3, <2>7
  <2>. QED BY <2>4, <2>6, <2>7
<1>3. /\ \A q \in Procs : q # p => th'[q] = th[q]
      /\ th'[p].pc \in {"idle", "stat", "act"}
  BY <1>1, <1>2, ThreadOnly
<1>4. CopiesWhole(p)'
  BY <1>3 DEF CopiesWhole
<1>5. fds' = fds \/ (Kill(p) /\ fds' = [fds EXCEPT ![p] = [n \in Fds |-> Closed]])
  BY DEF CallPath, CallFd, CopyUpFails, Kill
<1>6. \A q \in Procs, n \in Fds : fds'[q][n] \in {Closed, fds[q][n]}
  BY <1>1, <1>5, Pieces
<1>. QED BY <1>1, <1>3, <1>4, <1>6, ClosedIsNot, SameDirStep

(* The look takes the length the file has.                                  *)
LEMMA StatHome == ASSUME HInv, PInv', NEW p \in Procs, Stat(p) PROVE HInv'
<1> DEFINE i == Here(p, th[p].g)
           y == [th[p] EXCEPT !.pc = "temp", !.meta = ino[i].meta, !.size = ino[i].len]
<1>1. CowInv /\ UNCHANGED <<dir, ino, fds, tab, calls, load>> /\ th[p] \in Thread /\ Home' = Home
  BY Pieces DEF HInv, PInv, Stat, Home
<1>2. CASE th' = [th EXCEPT ![p].pc = "act"]
  <2>1. th'[p].pc = "act" /\ \A q \in Procs : q # p => th'[q] = th[q]
    BY <1>1, <1>2, Pieces DEF Thread
  <2>2. CopiesWhole(p)'
    BY <2>1 DEF CopiesWhole
  <2>. QED BY <1>1, <2>1, <2>2, SameDirStep
<1>3. CASE th' = [th EXCEPT ![p] = y]
  <2>1. th'[p] = y /\ \A q \in Procs : q # p => th'[q] = th[q]
    BY <1>1, <1>3, ThreadOnly
  <2>2. y.pc = "temp" /\ y.g = th[p].g /\ y.size = ino[i].len
    BY <1>1 DEF Thread
  <2> HIDE DEF y
  <2>3. Here(p, th[p].g)' = i
    BY <1>1, <2>1, <2>2 DEF Here
  <2>4. \A j \in Inodes : ino[j].len <= ino[j].len
    BY <1>1, Pieces DEF Inode, Length
  <2>5. CopiesWhole(p)'
    BY <1>1, <2>1, <2>2, <2>3, <2>4 DEF CopiesWhole
  <2>. QED BY <1>1, <2>1, <2>5, SameDirStep
<1>. QED BY <1>2, <1>3 DEF Stat, Goto, LookAt

(* The temporary file is no file of a tree.                                 *)
LEMMA MakeTempHome == ASSUME HInv, PInv', NEW p \in Procs, MakeTemp(p) PROVE HInv'
<1>1. /\ CowInv /\ UNCHANGED <<dir, fds, tab, calls, load>> /\ th[p] \in Thread /\ Home' = Home
      /\ th[p].pc = "temp"
  BY Pieces DEF HInv, PInv, MakeTemp, Home, At
<1>2. PICK i \in Free :
         /\ ino' = [ino EXCEPT ![i] = [data |-> IF CopiesData(th[p].op) THEN "part" ELSE "own",
                                       meta |-> th[p].meta, len |-> 0]]
         /\ th' = [th EXCEPT ![p] = [th[p] EXCEPT !.tmp = i,
                                        !.pc = IF CopiesData(th[p].op) THEN "copy" ELSE "rename"]]
  BY DEF MakeTemp
<1>3. i \in Inodes /\ \A t \in Trees, f \in Files : dir[t][f] # i
  BY FreeIsNew
<1> DEFINE x == [th[p] EXCEPT !.tmp = i, !.pc = IF CopiesData(th[p].op) THEN "copy" ELSE "rename"]
<1>4. x.tmp = i /\ x.g = th[p].g /\ x.size = th[p].size /\ x.pc \in {"copy", "rename"}
  BY <1>1 DEF Thread
<1>5. th' = [th EXCEPT ![p] = x]
  BY <1>2
<1> HIDE DEF x
<1>6. th'[p] = x /\ \A q \in Procs : q # p => th'[q] = th[q]
  BY <1>1, <1>5, ThreadOnly
<1>7. /\ \A j \in Inodes : j # i => ino'[j] = ino[j]
      /\ ino'[i].data # "prefix"
  BY <1>1, <1>2, <1>3, Pieces
<1>8. Here(p, th[p].g)' = Here(p, th[p].g) /\ Here(p, th[p].g) # i
  <2>1. Home[p] \in Trees
    BY <1>1, HomeIsTree, Pieces
  <2>. QED BY <1>1, <1>3, <1>4, <1>6, <2>1, CowAssumption DEF Here
<1>9. Alone(p) => CopiesWhole(p)'
  BY <1>1, <1>4, <1>6, <1>7, <1>8 DEF CopiesWhole, HInv
<1>. QED BY <1>1, <1>3, <1>6, <1>7, <1>9, SameDirStep

(* The copy is cut short only if the file grew.                             *)
LEMMA CopyDataHome == ASSUME HInv, PInv', NEW p \in Procs, CopyData(p) PROVE HInv'
<1> DEFINE k == th[p].tmp
           x == [th[p] EXCEPT !.pc = "rename"]
<1>1. /\ CowInv /\ UNCHANGED <<dir, fds, tab, calls, load>> /\ th[p] \in Thread /\ Home' = Home
      /\ th[p].pc = "copy" /\ k \in Inodes /\ k # None /\ Here(p, th[p].g) # None
      /\ th[p].g \in Files /\ Home[p] \in Trees
  <2>1. CowInv /\ th[p].pc = "copy"
    BY DEF HInv, PInv, CopyData, At
  <2>. QED BY <2>1, InCopyUp, HomeIsTree, Pieces DEF CopyData, Home, Thread
<1>2. PICK j \in Inodes : j = Here(p, th[p].g)
  BY <1>1, Pieces DEF Here
<1>3. PICK y \in Copies(ino[j], th[p].size) :
         ino' = [ino EXCEPT ![k] = [data |-> y.data, meta |-> th[p].meta, len |-> y.len]]
  BY <1>2 DEF CopyData
<1>4. th' = [th EXCEPT ![p] = x] /\ x.pc = "rename" /\ x.tmp = k
  BY <1>1, Pieces DEF CopyData, Goto, Thread
<1>5. \A t \in Trees, f \in Files : dir[t][f] # k
  BY <1>1 DEF CowInv, Owned
<1> HIDE DEF x
<1>6. th'[p] = x /\ \A q \in Procs : q # p => th'[q] = th[q]
  BY <1>1, <1>4, ThreadOnly
<1>7. Alone(p) => y.data # "prefix"
  <2> SUFFICES ASSUME Alone(p) PROVE y.data # "prefix"
    OBVIOUS
  <2>1. Lone(Home[p]) /\ CopiesWhole(p)
    BY DEF Alone, Lone, HInv
  <2>2. dir[Home[p]][th[p].g] = j /\ j # None
    BY <1>1, <1>2 DEF Here
  <2>3. ino[j].data # "prefix"
    BY <1>1, <2>1, <2>2 DEF HInv, LoneIsWhole
  <2>4. ino[j].len <= th[p].size /\ ino[j].len \in Nat /\ th[p].size \in Nat
    BY <1>1, <1>2, <2>1, Pieces DEF CopiesWhole, Inode, Thread, Length
  <2>. QED BY <2>3, <2>4 DEF Copies
<1> HIDE DEF k
<1>8. /\ \A i \in Inodes : i # k => ino'[i] = ino[i]
      /\ ino'[k].data = y.data
  BY <1>1, <1>3, Pieces
<1>9. Alone(p) => CopiesWhole(p)'
  BY <1>4, <1>6, <1>7, <1>8 DEF CopiesWhole
<1>. QED BY <1>1, <1>5, <1>6, <1>8, <1>9, SameDirStep DEF k

(* What is published by a process alone is whole.                           *)
LEMMA PublishHome == ASSUME HInv, PInv', NEW p \in Procs, Publish(p) PROVE HInv'
<1>1. /\ CowInv /\ UNCHANGED <<ino, fds, tab, calls, load>> /\ th[p] \in Thread /\ Home' = Home
      /\ th[p].pc = "rename" /\ th[p].tmp # None /\ th[p].g \in Files /\ Home[p] \in Trees
  <2>1. CowInv /\ th[p].pc = "rename"
    BY DEF HInv, PInv, Publish, At
  <2>. QED BY <2>1, InCopyUp, HomeIsTree, Pieces DEF Publish, Home
<1>2. PICK k \in Inodes : k = th[p].tmp
  BY <1>1 DEF Thread
<1>3. PICK c \in Trees : c = Home[p]
  BY <1>1
<1>4. /\ \A t \in Trees, f \in Files : IF t = c /\ f = th[p].g THEN dir'[t][f] = k ELSE dir'[t][f] = dir[t][f]
      /\ \A t \in Trees : t # c => dir'[t] = dir[t]
  BY <1>1, <1>2, <1>3, Pieces DEF Publish
<1>5. /\ th'[p].pc = "act" /\ \A q \in Procs : q # p => th'[q] = th[q]
  <2>1. th'[p] = [th[p] EXCEPT !.tmp = None, !.pc = "act"] /\ \A q \in Procs : q # p => th'[q] = th[q]
    BY <1>1, ThreadOnly DEF Publish
  <2>. QED BY <1>1, <2>1 DEF Thread
<1>6. Alone(p) => ino[k].data # "prefix"
  BY <1>1, <1>2 DEF HInv, CopiesWhole
<1>7. \A q \in Procs, n \in Fds : fds[q][n].ino # k
  BY <1>1, <1>2 DEF CowInv, Owned
<1>8. WritesHome'
  <2> SUFFICES ASSUME NEW q \in Procs, NEW n \in Fds, NEW t \in Trees, NEW f \in Files,
                      fds[q][n].wr, dir'[t][f] # None, dir'[t][f] = fds[q][n].ino
               PROVE  t = Home[q]
    BY <1>1 DEF WritesHome
  <2>1. dir'[t][f] = dir[t][f]
    BY <1>4, <1>7
  <2>. QED BY <2>1 DEF HInv, WritesHome
<1>9. CopiesWhole(p)'
  BY <1>5 DEF CopiesWhole
<1>10. \A f \in Files : dir'[Home[p]][f] = dir[Home[p]][f] \/ (Alone(p) => ino'[dir'[Home[p]][f]].data # "prefix")
  BY <1>1, <1>3, <1>4, <1>6
<1>. QED BY <1>1, <1>3, <1>4, <1>5, <1>8, <1>9, <1>10, LoneStep

(* Calls on names and descriptors change an inode of their own tree.        *)
LEMMA ActHome ==
    ASSUME HInv, PInv', NEW p \in Procs, ActPath(p) \/ ActFd(p) \/ ActSyscall(p)
    PROVE  HInv'
<1>1. /\ CowInv /\ Return(p) /\ UNCHANGED <<dir, fds, load>> /\ th[p].pc = "act" /\ CallIsSafe(p)
  BY DEF HInv, PInv, ActPath, ActFd, ActSyscall, At
<1>2. th'[p].pc = "idle" /\ \A q \in Procs : q # p => th'[q] = th[q]
  BY <1>1, Returned, OutsideIsThread
<1>3. ASSUME NEW i, Alter(i), i = Here(p, th[p].f), th[p].op \in Changers, th[p].f # None PROVE HInv'
  BY <1>1, <1>2, <1>3, ActsHome, AlterStep
<1>4. CASE ActPath(p)
  <2>1. Alter(Here(p, th[p].f)) /\ th[p].op \in {"chmod", "truncate", "truncate0"}
    BY <1>4, Lengths DEF ActPath, Alter
  <2>2. th[p].op \in Changers /\ th[p].op \in PathOps
    BY <2>1 DEF Changers, Ops, PathOps
  <2>3. th[p].f # None
    BY <1>1, <2>2, CowAssumption DEF CowInv, HasNames, Inodes
  <2>. QED BY <1>3, <2>1, <2>2, <2>3
<1>5. CASE ActSyscall(p)
  BY <1>1, <1>2, <1>5, AlterStep DEF ActSyscall, Alter
<1>6. CASE ActFd(p)
  <2>1. PICK i : /\ i = IF th[p].f # None THEN Here(p, th[p].f)
                         ELSE IF th[p].op = "fchmod" \/ fds[p][th[p].n].wr THEN fds[p][th[p].n].ino ELSE None
                 /\ Alter(i)
    BY <1>6, ActFdAlters
  <2>2. th[p].op \in {"fchmod", "ftruncate", "ftruncate0"}
    BY <1>6 DEF ActFd
  <2>3. th[p].op \in Changers /\ th[p].op \in FdOps
    BY <2>2 DEF Changers, Ops, FdOps
  <2>4. CASE th[p].f # None
    BY <1>3, <2>1, <2>3, <2>4
  <2>5. CASE th[p].f = None /\ th[p].op = "fchmod"
    <3>1. i = fds[p][th[p].n].ino
      BY <2>1, <2>5
    <3>2. Touch(i) \/ UNCHANGED ino
      BY <1>6, <2>5, <3>1 DEF ActFd
    <3>3. CASE Touch(i)
      BY <1>1, <1>2, <2>1, <3>3, AlterStep
    <3>4. CASE UNCHANGED ino
      <4>1. Alter(None) /\ None \notin Inodes
        BY <3>4, CowAssumption DEF Alter
      <4>. QED BY <1>1, <1>2, <4>1, AlterStep
    <3>. QED BY <3>2, <3>3, <3>4
  <2>6. CASE th[p].f = None /\ th[p].op # "fchmod"
    <3>1. th[p].n \in Fds /\ None \notin Inodes
      BY <1>1, <2>3, CowAssumption DEF CallIsSafe
    <3>2. \A t \in Trees, f \in Files : i \in Inodes /\ dir[t][f] = i => t = Home[p]
      BY <2>1, <2>6, <3>1 DEF HInv, WritesHome
    <3>. QED BY <1>1, <1>2, <2>1, <3>2, AlterStep
  <2>. QED BY <2>4, <2>5, <2>6
<1>. QED BY <1>4, <1>5, <1>6

(* A write is to an inode of the tree of its process.                       *)
LEMMA WriteHome == ASSUME HInv, PInv', NEW p \in Procs, NEW n \in Fds, WriteFd(p, n) PROVE HInv'
<1>1. /\ UNCHANGED <<dir, fds, th, load>> /\ th[p].pc = "idle" /\ Alter(fds[p][n].ino) /\ fds[p][n].wr
  BY DEF WriteFd, Begin, At, Alter
<1>2. \A t \in Trees, f \in Files :
         fds[p][n].ino \in Inodes /\ dir[t][f] = fds[p][n].ino => t = Home[p]
  BY <1>1, CowAssumption DEF HInv, WritesHome
<1>. QED BY <1>1, <1>2, AlterStep

(* Closing and duplicating open nothing new.                                *)
LEMMA DescriptorsHome ==
    ASSUME HInv, PInv', NEW p \in Procs, NEW n \in Fds, NEW m \in Fds,
           Close(p, n) \/ Fclose(p, n) \/ Dup(p, n, m) \/ Dup2(p, n, m) \/ Dup2Self(p, n)
    PROVE  HInv'
<1>1. CowInv /\ UNCHANGED <<dir, ino, th, load>> /\ th[p].pc = "idle"
  BY DEF HInv, PInv, Close, Fclose, Dup, Dup2, Dup2Self, Begin, At
<1>2. \/ fds' = fds
      \/ fds' = [fds EXCEPT ![p][n] = Closed]
      \/ fds' = [fds EXCEPT ![p][m] = fds[p][n]]
  BY DEF Close, Fclose, Dup, Dup2, Dup2Self
<1>3. \A q \in Procs, k \in Fds : ~fds'[q][k].wr
               \/ \E l \in Fds : fds[q][l].wr /\ fds'[q][k].ino = fds[q][l].ino
  <2>1. CASE fds' = fds
    BY <2>1
  <2>2. CASE fds' = [fds EXCEPT ![p][n] = Closed]
    <3>1. \A q \in Procs, k \in Fds : fds'[q][k] \in {Closed, fds[q][k]}
      BY <1>1, <2>2, Pieces
    <3>. QED BY <3>1, ClosedIsNot
  <2>3. CASE fds' = [fds EXCEPT ![p][m] = fds[p][n]]
    <3>1. \A q \in Procs, k \in Fds : fds'[q][k] = fds[q][k] \/ (q = p /\ fds'[q][k] = fds[p][n])
      BY <1>1, <2>3, Pieces
    <3>. QED BY <3>1
  <2>. QED BY <1>2, <2>1, <2>2, <2>3
<1>4. CopiesWhole(p)'
  BY <1>1 DEF CopiesWhole
<1>. QED BY <1>1, <1>3, <1>4, SameDirStep

(* What is opened for writing is an inode of this tree alone, or a new one. *)
LEMMA OpenHome == ASSUME HInv, PInv', NEW p \in Procs, ActOpen(p) PROVE HInv'
<1> DEFINE f == th[p].f
           i == Here(p, f)
           wr == th[p].op # "openread"
<1>1. /\ CowInv /\ Return(p) /\ UNCHANGED <<calls, load>> /\ th[p].pc = "act" /\ th[p].op \in OpenOps
      /\ Home' = Home
  BY DEF HInv, PInv, ActOpen, At, Home
<1>2. f \in Files /\ Home[p] \in Trees /\ i = dir[Home[p]][f] /\ f # None
  BY <1>1, HomeIsTree, Pieces, CowAssumption DEF CowInv, HasNames, Here, Inodes
<1>3. th'[p].pc = "idle" /\ \A q \in Procs : q # p => th'[q] = th[q]
  BY <1>1, Returned, OutsideIsThread
<1>4. CopiesWhole(p)'
  BY <1>3 DEF CopiesWhole
<1>5. CASE UNCHANGED <<fds, tab, dir, ino>>
  BY <1>1, <1>3, <1>4, <1>5, SameDirStep
<1>6. ASSUME NEW n \in Fds, NEW CONSTANT j, j \in (IF i = None THEN Free ELSE {i}),
             IF i = None THEN wr ELSE th[p].op # "openexcl",
             fds' = [fds EXCEPT ![p][n] = [ino |-> j, wr |-> wr, path |-> f, at |-> f]],
             dir' = [dir EXCEPT ![Home[p]][f] = j],
             ino' = IF i = None THEN [ino EXCEPT ![j] = New]
                    ELSE IF th[p].op = "opentrunc" THEN [ino EXCEPT ![j] = [New EXCEPT !.meta = ino[j].meta]]
                    ELSE ino
      PROVE  HInv'
  <2> wr \in BOOLEAN
    OBVIOUS
  <2>1. j \in Inodes /\ j # None
    BY <1>1, <1>2, <1>6, FreeIsNew, Pieces, CowAssumption
  <2>2. /\ \A t \in Trees, g \in Files : IF t = Home[p] /\ g = f THEN dir'[t][g] = j ELSE dir'[t][g] = dir[t][g]
        /\ \A t \in Trees : t # Home[p] => dir'[t] = dir[t]
    BY <1>1, <1>2, <1>6, Pieces
  <2>3. /\ fds'[p][n].wr = wr /\ fds'[p][n].ino = j
        /\ \A q \in Procs, m \in Fds : q # p \/ m # n => fds'[q][m] = fds[q][m]
    BY <1>1, <1>6, Pieces
  <2>4. /\ \A k \in Inodes : k # j => ino'[k] = ino[k]
        /\ ino'[j].data = "prefix" => i # None /\ ino[j].data = "prefix"
        /\ ino' = ino \/ i = None \/ th[p].op = "opentrunc"
    BY <1>1, <1>6, <2>1, Pieces DEF New
  <2>5. i = None => \A t \in Trees, g \in Files : dir[t][g] # j
    BY <1>6, FreeIsNew
  <2>6. i # None => j = i
    BY <1>6
  <2>7. (i = None \/ (wr /\ th[p].op # "openexcl")) =>
            \A t \in Trees, g \in Files : dir[t][g] = j => t = Home[p]
    <3>1. CASE i = None
      BY <2>5, <3>1
    <3>2. CASE i # None
      <4>1. wr /\ th[p].op # "openexcl" => th[p].op \in Changers
        BY <1>1 DEF Changers, Ops, OpenOps
      <4>. QED BY <1>1, <1>2, <2>1, <2>6, <3>2, <4>1, ActsHome
    <3>. QED BY <3>1, <3>2
  <2>8. \A k \in Inodes, t \in Trees, g \in Files : dir[t][g] = k /\ t # Home[p] => ino'[k].len = ino[k].len
    BY <1>6, <2>4, <2>7
  <2>9. WritesHome'
    <3> SUFFICES ASSUME NEW q \in Procs, NEW m \in Fds, NEW t \in Trees, NEW g \in Files,
                        fds'[q][m].wr, dir'[t][g] # None, dir'[t][g] = fds'[q][m].ino
                 PROVE  t = Home[q]
      BY <1>1 DEF WritesHome
    <3>1. CASE q = p /\ m = n
      <4>1. wr /\ dir'[t][g] = j
        BY <2>3, <3>1
      <4>2. i = None \/ (wr /\ th[p].op # "openexcl")
        BY <1>6, <4>1
      <4>3. t # Home[p] => dir[t][g] = j
        BY <2>2, <4>1
      <4>. QED BY <2>7, <3>1, <4>2, <4>3
    <3>2. CASE q # p \/ m # n
      <4>1. fds'[q][m] = fds[q][m]
        BY <2>3, <3>2
      <4>2. CASE dir'[t][g] = dir[t][g]
        BY <4>1, <4>2 DEF HInv, WritesHome
      <4>3. CASE dir'[t][g] # dir[t][g]
        <5>1. i = None /\ dir'[t][g] = j
          BY <1>2, <2>2, <2>6, <4>3
        <5>2. \A r \in Procs, l \in Fds : fds[r][l].ino # j
          BY <1>6, <5>1, FreeIsNew
        <5>. QED BY <4>1, <5>1, <5>2
      <4>. QED BY <4>2, <4>3
    <3>. QED BY <3>1, <3>2
  <2>10. \A g \in Files : dir'[Home[p]][g] = dir[Home[p]][g] \/ ino'[dir'[Home[p]][g]].data # "prefix"
    BY <1>2, <2>2, <2>4, <2>6
  <2>. QED BY <1>1, <1>3, <1>4, <2>2, <2>4, <2>8, <2>9, <2>10, LoneStep
<1>7. \/ UNCHANGED <<fds, tab, dir, ino>>
      \/ \E n \in Fds, j \in IF i = None THEN Free ELSE {i} :
            /\ IF i = None THEN wr ELSE th[p].op # "openexcl"
            /\ fds' = [fds EXCEPT ![p][n] = [ino |-> j, wr |-> wr, path |-> f, at |-> f]]
            /\ dir' = [dir EXCEPT ![Home[p]][f] = j]
            /\ ino' = IF i = None THEN [ino EXCEPT ![j] = New]
                      ELSE IF th[p].op = "opentrunc" THEN [ino EXCEPT ![j] = [New EXCEPT !.meta = ino[j].meta]]
                      ELSE ino
  <2> HIDE DEF i
  <2>. QED BY DEF ActOpen, FreeFd, i
<1>. QED BY <1>5, <1>6, <1>7

(* A rename moves a file within its tree.                                   *)
LEMMA RenameHome == ASSUME HInv, PInv', NEW p \in Procs, ActRename(p) PROVE HInv'
<1> DEFINE f == th[p].f
           g == th[p].g
           c == Home[p]
<1>1. /\ CowInv /\ Return(p) /\ UNCHANGED <<ino, tab, calls, load>> /\ th[p].pc = "act" /\ th[p].op = "rename"
  BY DEF HInv, PInv, ActRename, At
<1>2. f \in Files /\ g \in Files /\ c \in Trees
  BY <1>1, HomeIsTree, Pieces DEF CowInv, HasNames, PathOps
<1>3. th'[p].pc = "idle" /\ \A q \in Procs : q # p => th'[q] = th[q]
  BY <1>1, Returned, OutsideIsThread
<1>4. CopiesWhole(p)'
  BY <1>3 DEF CopiesWhole
<1>5. CASE UNCHANGED <<dir, fds>>
  BY <1>1, <1>3, <1>4, <1>5, SameDirStep
<1>6. CASE /\ dir' = [dir EXCEPT ![c][g] = dir[c][f], ![c][f] = None]
           /\ fds' = [q \in Procs |-> [n \in Fds |->
                        IF Home[q] # c THEN fds[q][n]
                        ELSE [fds[q][n] EXCEPT !.at = IF @ = g THEN None ELSE IF @ = f THEN g ELSE @]]]
  <2> HIDE DEF f, g, c
  <2>1. /\ \A t \in Trees, h \in Files : dir'[t][h] = None \/ \E k \in Files : dir'[t][h] = dir[t][k]
        /\ \A t \in Trees : t # c => dir'[t] = dir[t]
    <3>1. \A t \in Trees : t # c => dir'[t] = dir[t]
      BY <1>1, <1>2, <1>6, Pieces
    <3>2. \A h \in Files : dir'[c][h] \in {None, dir[c][f], dir[c][h]}
      BY <1>1, <1>2, <1>6, Pieces
    <3>. QED BY <1>2, <3>1, <3>2
  <2>2. ASSUME NEW q \in Procs, NEW n \in Fds
        PROVE  fds'[q][n].wr = fds[q][n].wr /\ fds'[q][n].ino = fds[q][n].ino
    <3>1. fds[q][n] \in Descriptor
      BY <1>1, Pieces
    <3>2. CASE Home[q] # c
      BY <1>6, <3>2
    <3>3. CASE Home[q] = c
      <4> DEFINE a == IF fds[q][n].at = g THEN None ELSE IF fds[q][n].at = f THEN g ELSE fds[q][n].at
      <4>1. fds'[q][n] = [fds[q][n] EXCEPT !.at = a]
        BY <1>6, <3>3
      <4> HIDE DEF a
      <4>. QED BY <3>1, <4>1 DEF Descriptor
    <3>. QED BY <3>2, <3>3
  <2>3. WritesHome'
    BY <1>1, <2>1, <2>2, KeepHome DEF HInv
  <2>. QED BY <1>1, <1>2, <1>3, <1>4, <2>1, <2>3, LoneStep DEF c
<1>. QED BY <1>2, <1>5, <1>6 DEF ActRename, Here

(* The image loses its names.                                               *)
LEMMA RemoveHome == ASSUME HInv, PInv', RemoveImage PROVE HInv'
<1>1. /\ CowInv /\ dir' = [dir EXCEPT ![Image] = [f \in Files |-> None]]
      /\ UNCHANGED <<ino, fds, tab, th, calls, load>>
  BY DEF HInv, PInv, RemoveImage
<1>2. /\ \A t \in Trees, f \in Files : dir'[t][f] \in {None, dir[t][f]}
      /\ \A t \in Trees : t # Image => dir'[t] = dir[t]
  BY <1>1, Pieces
<1>3. Home' = Home /\ (\A q \in Procs : Alone(q)' <=> Alone(q)) /\ (\A t : Lone(t)' <=> Lone(t))
  BY <1>1 DEF Home, Alone, Lone
<1>4. WritesHome'
  BY <1>1, <1>2, KeepHome DEF HInv
<1>5. LoneIsWhole'
  BY <1>1, <1>2, <1>3 DEF HInv, LoneIsWhole
<1>6. ASSUME NEW q \in Procs, Alone(q) PROVE CopiesWhole(q)'
  <2>1. Home[q] \in Trees /\ Home[q] # Image
    BY <1>1, HomeIsTree, Pieces, CowAssumption
  <2>2. Here(q, th[q].g)' = Here(q, th[q].g)
    BY <1>1, <1>2, <1>3, <2>1 DEF Here
  <2>. QED BY <1>1, <1>6, <2>2 DEF HInv, CopiesWhole
<1>. QED BY <1>3, <1>4, <1>5, <1>6 DEF HInv

(* rename(2) makes the copy-up atomic, for any trees, files, processes,     *)
(* settings and descriptors, and whatever fails or is killed: no tree shows *)
(* a copy that is being made, and a tree with at most one process never     *)
(* shows a file that was copied in part.  The premise is that of            *)
(* ImageIsPristine: a process whose look was overtaken by a rename may      *)
(* write to an inode that another container is copying.                     *)
THEOREM NoHalfCopy == Spec /\ [][NoRace]_vars => []NeverPartial
<1>1. Init => HInv
  <2> SUFFICES ASSUME Init PROVE HInv
    OBVIOUS
  <2>1. PInv /\ CowInv
    BY InitPristine DEF PInv
  <2>2. \A q \in Procs : th[q].pc = "idle" /\ \A n \in Fds : ~fds[q][n].wr
    BY OutsideIsThread, ClosedIsNot DEF Init
  <2>3. WritesHome /\ \A q \in Procs : CopiesWhole(q)
    BY <2>2 DEF WritesHome, CopiesWhole
  <2>4. LoneIsWhole
    BY CowAssumption DEF Init, LoneIsWhole, Inodes, Pristine
  <2>. QED BY <2>1, <2>3, <2>4 DEF HInv
<1>2. HInv /\ [Next]_vars /\ [NoRace]_vars => HInv'
  <2> SUFFICES ASSUME HInv, [Next]_vars, [NoRace]_vars PROVE HInv'
    OBVIOUS
  <2>1. PInv'
    BY StepPristine DEF HInv
  <2>2. ASSUME NEW p \in Procs,
               \/ \E op \in Ops, f, g \in Files : CallPath(p, op, f, g)
               \/ \E op \in FdOps, n \in Fds : CallFd(p, op, n)
               \/ Kill(p)
        PROVE  HInv'
    BY <2>1, <2>2, CallHome
  <2>3. ASSUME NEW p \in Procs, CopyUp(p) PROVE HInv'
    <3>1. CASE CopyUpFails(p)
      BY <2>1, <3>1, CallHome
    <3>. QED BY <2>1, <2>3, <3>1, StatHome, MakeTempHome, CopyDataHome, PublishHome DEF CopyUp
  <2>4. ASSUME NEW p \in Procs, Act(p) PROVE HInv'
    <3>1. CASE ActPath(p) \/ ActFd(p) \/ ActSyscall(p)
      BY <2>1, <3>1, ActHome
    <3>. QED BY <2>1, <2>4, <3>1, OpenHome, RenameHome DEF Act
  <2>5. ASSUME NEW p \in Procs, NEW n \in Fds, WriteFd(p, n) PROVE HInv'
    BY <2>1, <2>5, WriteHome
  <2>6. ASSUME NEW p \in Procs, NEW n \in Fds, NEW m \in Fds,
               Close(p, n) \/ Fclose(p, n) \/ Dup(p, n, m) \/ Dup2(p, n, m) \/ Dup2Self(p, n)
        PROVE  HInv'
    BY <2>1, <2>6, DescriptorsHome
  <2>7. CASE UNCHANGED vars
    BY <2>1, <2>7 DEF vars, HInv, WritesHome, LoneIsWhole, CopiesWhole, Lone, Alone, Home, Here
  <2>. QED BY <2>1, <2>2, <2>3, <2>4, <2>5, <2>6, <2>7, RemoveHome DEF Next
<1>3. HInv => NeverPartial
  BY DEF HInv, PInv, CowInv, NeverPart, LoneIsWhole, Lone, NeverPartial
<1>. QED BY <1>1, <1>2, <1>3, PTL DEF Spec

=============================================================================
