------------------------------ MODULE CowOverlay ------------------------------
(***************************************************************************)
(* libcow, the preloaded library that gives every container its own view   *)
(* of an image tree which was cloned with hard links.  Before a call that  *)
(* changes a file it copies a file with more than one link to a temporary  *)
(* name and renames the copy over it (a copy-up); then it makes the call.  *)
(*                                                                         *)
(* A file of the image is the inode with its name, shared by the image and *)
(* the clones until somebody copies it up.  The table of paths of the      *)
(* library is kept apart from the descriptors of the kernel, because only  *)
(* some of the calls that change the second keep up the first.             *)
(*                                                                         *)
(* Abstracted: an inode has a content, a length and one mark for changed   *)
(* metadata; the variants of a call with the same hook are one operation;  *)
(* a copy reads its source at once.                                        *)
(***************************************************************************)
EXTENDS Naturals, FiniteSets

CONSTANTS Image,         \* the tree of the image
          Containers,    \* its clones
          Files,         \* the files of the image; each names its inode
          Spare,         \* inodes the file system has left
          Procs,         \* processes that preload the library
          Loads,         \* what the processes may be set to do: each gives the
                         \* container, the calls and the number of calls of a process
                         \* and whether it has PDOCKER_COW_TRACK_READONLY_FDS set
          Fds,           \* the descriptors of a process
          MaxLen,        \* bound on the length of a file
          Stray,         \* a path in the table that names no file
          None

Trees  == Containers \cup {Image}
Inodes == Files \cup Spare

PathOps   == {"chmod", "truncate", "truncate0", "rename"}
OpenOps   == {"open", "opentrunc", "openread", "openexcl", "fopen"}
FdOps     == {"fchmod", "ftruncate", "ftruncate0", "syscall"}
DirectOps == {"write", "close", "fclose", "dup", "dup2", "dup2self"}
Ops == PathOps \cup OpenOps \cup FdOps \cup DirectOps

ASSUME CowAssumption ==
    /\ Image \notin Containers /\ Files \cap Spare = {} /\ None \notin Inodes
    /\ Loads \subseteq [Procs -> [home : Containers, ops : SUBSET Ops, max : Nat, track : BOOLEAN]]
    /\ Fds \subseteq Nat /\ MaxLen \in Nat \ {0} /\ Stray \notin Files \cup {None}
    /\ IsFiniteSet(Containers) /\ IsFiniteSet(Files)

VARIABLES dir,    \* dir[t][f]: the inode file f of tree t is a link to, or None
          ino,    \* ino[i]: content, length and metadata of an inode
          fds,    \* fds[p][n]: descriptor n of process p, as the kernel has it
          tab,    \* tab[p][n]: fd_paths of the library
          th,     \* th[p]: where process p is in a call
          calls,  \* calls[p]: calls made by p
          load    \* the load of this behaviour

vars == <<dir, ino, fds, tab, th, calls, load>>

(* What an inode holds: the bytes of the image, a copy that is being made,    *)
(* the first bytes only of the file that was copied, or what somebody wrote.  *)
Content  == {"image", "part", "prefix", "own"}
Length   == 0..MaxLen
Closed   == [ino |-> None, wr |-> FALSE, path |-> None, at |-> None]
Pristine == [data |-> "image", meta |-> FALSE, len |-> 1]
New      == [data |-> "own", meta |-> FALSE, len |-> 0]
Outside  == [pc |-> "idle", op |-> "none", f |-> None, g |-> None, n |-> 0, tmp |-> None,
             meta |-> FALSE, size |-> 0]

Init == /\ dir = [t \in Trees |-> [f \in Files |-> f]]
        /\ ino = [i \in Inodes |-> IF i \in Files THEN Pristine ELSE New]
        /\ fds = [p \in Procs |-> [n \in Fds |-> Closed]]
        /\ tab = [p \in Procs |-> [n \in Fds |-> None]]
        /\ th = [p \in Procs |-> Outside]
        /\ calls = [p \in Procs |-> 0]
        /\ load \in Loads

-----------------------------------------------------------------------------
(* The file system *)

Home == [p \in Procs |-> load[p].home]
InTree(t) == {dir[t][f] : f \in Files}
Links(i) == {x \in Trees \X Files : dir[x[1]][x[2]] = i}
Used     == {dir[t][f] : t \in Trees, f \in Files}
            \cup {th[p].tmp : p \in Procs}
            \cup UNION {{fds[p][n].ino : n \in Fds} : p \in Procs}
Free     == Spare \ Used
FreeFd(p) == {n \in Fds : fds[p][n] = Closed}

At(p, pc)  == th[p].pc = pc
Goto(p, pc) == th' = [th EXCEPT ![p].pc = pc]
Return(p)  == th' = [th EXCEPT ![p] = Outside]
Here(p, f) == IF f \in Files THEN dir[Home[p]][f] ELSE None

(* The operations that throw the old content away copy up no data. *)
CopiesData(op) == op \notin {"opentrunc", "truncate0", "ftruncate0"}

-----------------------------------------------------------------------------
(* A call begins.  The hook looks a descriptor up in its own table; what it *)
(* does not find there goes to the kernel as it is.                         *)

CallPath(p, op, f, g) ==
    /\ At(p, "idle") /\ op \in load[p].ops /\ calls[p] < load[p].max
    /\ calls' = [calls EXCEPT ![p] = @ + 1]
    /\ \/ /\ op \in (PathOps \cup OpenOps) \ {"openread", "openexcl", "rename"}
          /\ f = g
          /\ th' = [th EXCEPT ![p] = [Outside EXCEPT !.pc = "stat", !.op = op, !.f = f, !.g = g]]
       \/ /\ op \in {"openread", "openexcl"}
          /\ f = g
          /\ th' = [th EXCEPT ![p] = [Outside EXCEPT !.pc = "act", !.op = op, !.f = f, !.g = g]]
       \/ /\ op = "rename"
          /\ f # g
          /\ th' = [th EXCEPT ![p] = [Outside EXCEPT !.op = op, !.f = f, !.g = g,
                       !.pc = IF Here(p, f) = Here(p, g) /\ Here(p, f) # None THEN "act" ELSE "stat"]]
    /\ UNCHANGED <<dir, ino, fds, tab, load>>

CallFd(p, op, n) ==
    /\ At(p, "idle") /\ op \in load[p].ops \cap FdOps /\ calls[p] < load[p].max
    /\ fds[p][n] # Closed
    /\ calls' = [calls EXCEPT ![p] = @ + 1]
    /\ th' = [th EXCEPT ![p] = [Outside EXCEPT !.op = op, !.f = tab[p][n], !.g = tab[p][n], !.n = n,
                                   !.pc = IF tab[p][n] = None THEN "act" ELSE "stat"]]
    /\ UNCHANGED <<dir, ino, fds, tab, load>>

-----------------------------------------------------------------------------
(* break_hardlink_copy_stat: the look at the file gives the number of links, *)
(* the mode for the temporary file, and the length the copy will have.       *)

LookAt(p, i) == th' = [th EXCEPT ![p] = [th[p] EXCEPT !.pc = "temp", !.meta = ino[i].meta, !.size = ino[i].len]]

(* Regression: a file with two links is taken for private. *)
StatOffByOne(p) ==
    /\ At(p, "stat")
    /\ LET i == Here(p, th[p].g) IN
       IF i = None \/ Cardinality(Links(i)) <= 2 THEN Goto(p, "act")
       ELSE LookAt(p, i)
    /\ UNCHANGED <<dir, ino, fds, tab, calls, load>>

(* Regression: a file of the container alone is copied up again. *)
StatAlways(p) ==
    /\ At(p, "stat")
    /\ LET i == Here(p, th[p].g) IN
       IF i = None THEN Goto(p, "act")
       ELSE LookAt(p, i)
    /\ UNCHANGED <<dir, ino, fds, tab, calls, load>>

Stat(p) ==
    /\ At(p, "stat")
    /\ LET i == Here(p, th[p].g) IN
       IF i = None \/ Cardinality(Links(i)) <= 1 THEN Goto(p, "act")
       ELSE LookAt(p, i)
    /\ UNCHANGED <<dir, ino, fds, tab, calls, load>>

(* Regression: the copy is published before its bytes are there. *)
MakeTempFirst(p) ==
    /\ At(p, "temp")
    /\ \E i \in Free :
         /\ ino' = [ino EXCEPT ![i] = [data |-> IF CopiesData(th[p].op) THEN "part"
                                                ELSE "own",
                                       meta |-> th[p].meta, len |-> 0]]
         /\ th' = [th EXCEPT ![p] = [th[p] EXCEPT !.tmp = i, !.pc = "rename"]]
    /\ UNCHANGED <<dir, fds, tab, calls, load>>

(* mkstemp, in the directory of the file. *)
MakeTemp(p) ==
    /\ At(p, "temp")
    /\ \E i \in Free :
         /\ ino' = [ino EXCEPT ![i] = [data |-> IF CopiesData(th[p].op) THEN "part"
                                                ELSE "own",
                                       meta |-> th[p].meta, len |-> 0]]
         /\ th' = [th EXCEPT ![p] = [th[p] EXCEPT !.tmp = i,
                                        !.pc = IF CopiesData(th[p].op) THEN "copy" ELSE "rename"]]
    /\ UNCHANGED <<dir, fds, tab, calls, load>>

(* copy_file_fast copies the file the name shows by now, up to the length it *)
(* had at the look; copy_file_fallback, which serves an empty file and       *)
(* kernels without copy_file_range, copies it whole.                         *)
Copies(src, size) ==
    {[data |-> src.data, len |-> src.len]}
    \cup {[data |-> "prefix", len |-> n] : n \in {m \in {size} : m > 0 /\ m < src.len}}

CopyData(p) ==
    /\ At(p, "copy")
    /\ Here(p, th[p].g) # None
    /\ \E x \in Copies(ino[Here(p, th[p].g)], th[p].size) :
         ino' = [ino EXCEPT ![th[p].tmp] = [data |-> x.data, meta |-> th[p].meta, len |-> x.len]]
    /\ Goto(p, "rename")
    /\ UNCHANGED <<dir, fds, tab, calls, load>>

Publish(p) ==
    /\ At(p, "rename")
    /\ dir' = [dir EXCEPT ![Home[p]][th[p].g] = th[p].tmp]
    /\ th' = [th EXCEPT ![p] = [th[p] EXCEPT !.tmp = None, !.pc = "act"]]
    /\ UNCHANGED <<ino, fds, tab, calls, load>>

(* A step of the copy-up fails: the temporary file goes, and the call is    *)
(* refused before it changed anything.                                      *)
CopyUpFails(p) ==
    /\ th[p].pc \in {"temp", "copy", "rename"}
    /\ Return(p)
    /\ UNCHANGED <<dir, ino, fds, tab, calls, load>>

-----------------------------------------------------------------------------
(* The call itself *)

Touch(i)    == ino' = [ino EXCEPT ![i].meta = TRUE]
Write(i, n) == ino' = [ino EXCEPT ![i] = [data |-> IF ino[i].data = "prefix" /\ n > 0 THEN "prefix" ELSE "own",
                                          meta |-> ino[i].meta, len |-> n]]

ActPath(p) ==
    /\ At(p, "act") /\ th[p].op \in {"chmod", "truncate", "truncate0"}
    /\ LET i == Here(p, th[p].f) IN
       \/ i = None /\ UNCHANGED ino
       \/ i # None /\ th[p].op = "chmod" /\ Touch(i)
       \/ i # None /\ th[p].op = "truncate" /\ \E n \in 1..MaxLen : Write(i, n)
       \/ i # None /\ th[p].op = "truncate0" /\ Write(i, 0)
    /\ Return(p)
    /\ UNCHANGED <<dir, fds, tab, calls, load>>

(* The descriptor is entered in the table if it was opened for writing, or  *)
(* if all are tracked; fopen does not enter it.                             *)
Tracked(p, n, f) ==
    tab' = IF th[p].op # "fopen" /\ (th[p].op # "openread" \/ load[p].track)
           THEN [tab EXCEPT ![p][n] = f] ELSE tab

ActOpen(p) ==
    /\ At(p, "act") /\ th[p].op \in OpenOps
    /\ LET f == th[p].f
           i == Here(p, f)
           wr == th[p].op # "openread"
       IN \/ \E n \in FreeFd(p), j \in IF i = None THEN Free ELSE {i} :
                /\ IF i = None THEN wr ELSE th[p].op # "openexcl"
                /\ fds' = [fds EXCEPT ![p][n] = [ino |-> j, wr |-> wr, path |-> f, at |-> f]]
                /\ Tracked(p, n, f)
                /\ dir' = [dir EXCEPT ![Home[p]][f] = j]
                /\ ino' = IF i = None THEN [ino EXCEPT ![j] = New]
                          ELSE IF th[p].op = "opentrunc" THEN [ino EXCEPT ![j] = [New EXCEPT !.meta = ino[j].meta]]
                          ELSE ino
          \/ /\ \/ FreeFd(p) = {}
                \/ IF i = None THEN ~wr \/ Free = {} ELSE th[p].op = "openexcl"
             /\ UNCHANGED <<fds, tab, dir, ino>>
    /\ Return(p)
    /\ UNCHANGED <<calls, load>>

(* On a tracked descriptor the call is made on the path, whatever it was    *)
(* opened for; on another one on the descriptor, which ftruncate refuses if *)
(* it is not open for writing.                                              *)
ActFd(p) ==
    /\ At(p, "act") /\ th[p].op \in {"fchmod", "ftruncate", "ftruncate0"}
    /\ LET d == fds[p][th[p].n]
           i == IF th[p].f # None THEN Here(p, th[p].f)
                ELSE IF th[p].op = "fchmod" \/ d.wr THEN d.ino ELSE None
       IN \/ i = None /\ UNCHANGED ino
          \/ i # None /\ th[p].op = "fchmod" /\ Touch(i)
          \/ i # None /\ th[p].op = "ftruncate" /\ \E n \in 1..MaxLen : Write(i, n)
          \/ i # None /\ th[p].op = "ftruncate0" /\ Write(i, 0)
    /\ Return(p)
    /\ UNCHANGED <<dir, fds, tab, calls, load>>

(* syscall(SYS_fchmod, ...): the hook copies up, but the call it passes on  *)
(* has the descriptor.                                                      *)
ActSyscall(p) ==
    /\ At(p, "act") /\ th[p].op = "syscall"
    /\ Touch(fds[p][th[p].n].ino)
    /\ Return(p)
    /\ UNCHANGED <<dir, fds, tab, calls, load>>

(* rename: nothing happens between two names of one inode.  The descriptors *)
(* on both files follow them, or lose their name.                           *)
ActRename(p) ==
    /\ At(p, "act") /\ th[p].op = "rename"
    /\ LET f == th[p].f
           g == th[p].g
           c == Home[p]
       IN IF Here(p, f) \in {None, Here(p, g)} THEN UNCHANGED <<dir, fds>>
          ELSE /\ dir' = [dir EXCEPT ![c][g] = dir[c][f], ![c][f] = None]
               /\ fds' = [q \in Procs |-> [n \in Fds |->
                            IF Home[q] # c THEN fds[q][n]
                            ELSE [fds[q][n] EXCEPT !.at = IF @ = g THEN None ELSE IF @ = f THEN g ELSE @]]]
    /\ Return(p)
    /\ UNCHANGED <<ino, tab, calls, load>>

-----------------------------------------------------------------------------
(* Calls without a copy-up *)

Begin(p, op) == At(p, "idle") /\ op \in load[p].ops /\ calls[p] < load[p].max
                /\ calls' = [calls EXCEPT ![p] = @ + 1]

WriteFd(p, n) == /\ Begin(p, "write") /\ fds[p][n].wr
                 /\ \E m \in Length : /\ m >= ino[fds[p][n].ino].len /\ m > 0
                                     /\ Write(fds[p][n].ino, m)
                 /\ UNCHANGED <<dir, fds, tab, th, load>>

Close(p, n) == /\ Begin(p, "close") /\ fds[p][n] # Closed
               /\ fds' = [fds EXCEPT ![p][n] = Closed]
               /\ tab' = [tab EXCEPT ![p][n] = None]
               /\ UNCHANGED <<dir, ino, th, load>>

(* fclose closes inside the C library, where the hook is not. *)
Fclose(p, n) == /\ Begin(p, "fclose") /\ fds[p][n] # Closed
                /\ fds' = [fds EXCEPT ![p][n] = Closed]
                /\ UNCHANGED <<dir, ino, tab, th, load>>

(* Regression: the copy of a descriptor is not entered. *)
DupUntracked(p, n, m) == /\ Begin(p, "dup") /\ fds[p][n] # Closed /\ m \in FreeFd(p)
                         /\ fds' = [fds EXCEPT ![p][m] = fds[p][n]]
                         /\ UNCHANGED <<dir, ino, tab, th, load>>

Dup(p, n, m) == /\ Begin(p, "dup") /\ fds[p][n] # Closed /\ m \in FreeFd(p)
                /\ fds' = [fds EXCEPT ![p][m] = fds[p][n]]
                /\ tab' = IF tab[p][n] = None THEN tab ELSE [tab EXCEPT ![p][m] = tab[p][n]]
                /\ UNCHANGED <<dir, ino, th, load>>

(* dup2 and dup3 copy the entry also when there is none. *)
Dup2(p, n, m) == /\ Begin(p, "dup2") /\ fds[p][n] # Closed
                 /\ fds' = [fds EXCEPT ![p][m] = fds[p][n]]
                 /\ tab' = [tab EXCEPT ![p][m] = tab[p][n]]
                 /\ UNCHANGED <<dir, ino, th, load>>

(* dup2(n, n) changes no descriptor, but fdtab_set frees the path it is     *)
(* given before it copies it: what the copy holds is the path or garbage.   *)
Dup2Self(p, n) == /\ Begin(p, "dup2self") /\ fds[p][n] # Closed
                  /\ \/ UNCHANGED tab
                     \/ tab[p][n] # None /\ tab' = [tab EXCEPT ![p][n] = Stray]
                  /\ UNCHANGED <<dir, ino, fds, th, load>>

-----------------------------------------------------------------------------
(* A process is killed, also within a copy-up, and another takes its place: *)
(* the temporary name stays, and nothing else of it.                        *)
Kill(p) == /\ ~At(p, "idle")
           /\ Return(p)
           /\ fds' = [fds EXCEPT ![p] = [n \in Fds |-> Closed]]
           /\ tab' = [tab EXCEPT ![p] = [n \in Fds |-> None]]
           /\ UNCHANGED <<dir, ino, calls, load>>

(* The image is removed; its clones keep the inodes. *)
RemoveImage == /\ \E f \in Files : dir[Image][f] # None
               /\ dir' = [dir EXCEPT ![Image] = [f \in Files |-> None]]
               /\ UNCHANGED <<ino, fds, tab, th, calls, load>>

CopyUp(p) == Stat(p) \/ MakeTemp(p) \/ CopyData(p) \/ Publish(p) \/ CopyUpFails(p)
Act(p)    == ActPath(p) \/ ActOpen(p) \/ ActFd(p) \/ ActSyscall(p) \/ ActRename(p)

Next == \/ \E p \in Procs :
              \/ \E op \in Ops, f, g \in Files : CallPath(p, op, f, g)
              \/ \E op \in FdOps, n \in Fds : CallFd(p, op, n)
              \/ CopyUp(p) \/ Act(p) \/ Kill(p)
              \/ \E n \in Fds : WriteFd(p, n) \/ Close(p, n) \/ Fclose(p, n) \/ Dup2Self(p, n)
              \/ \E n, m \in Fds : n # m /\ (Dup(p, n, m) \/ Dup2(p, n, m))
        \/ RemoveImage

Spec == Init /\ [][Next]_vars

-----------------------------------------------------------------------------
(* Types of the trees, the inodes, the descriptors and the calls; a process *)
(* owns a temporary file exactly while it fills and publishes it.           *)
TypeOK ==
    /\ dir \in [Trees -> [Files -> Inodes \cup {None}]]
    /\ ino \in [Inodes -> [data : Content, meta : BOOLEAN, len : Length]]
    /\ fds \in [Procs -> [Fds -> [ino : Inodes \cup {None}, wr : BOOLEAN,
                                  path : Files \cup {None}, at : Files \cup {None}]]]
    /\ tab \in [Procs -> [Fds -> Files \cup {None, Stray}]]
    /\ th \in [Procs -> [pc : {"idle", "stat", "temp", "copy", "rename", "act"}, op : Ops \cup {"none"},
                         f : Files \cup {None, Stray}, g : Files \cup {None, Stray}, n : Fds \cup {0},
                         tmp : Inodes \cup {None}, meta : BOOLEAN, size : Length]]
    /\ load \in Loads
    /\ calls \in [Procs -> Nat] /\ \A p \in Procs : calls[p] <= load[p].max
    /\ \A p \in Procs : th[p].tmp # None <=> th[p].pc \in {"copy", "rename"}

(* The library lets the metadata of the image change through a descriptor   *)
(* that was opened for reading: by fchmod when it is not in the table, which *)
(* is the default, and by syscall(SYS_fchmod) always.                       *)
MayTouch == \E p \in Procs : /\ "openread" \in load[p].ops
                            /\ \/ "fchmod" \in load[p].ops /\ ~load[p].track
                               \/ "syscall" \in load[p].ops

(* "writes do not leak to lower (the image rootfs)": an inode that two      *)
(* trees share is as the image had it.  Its bytes are always, whatever the  *)
(* processes call, fail at or are killed in; its metadata are unless        *)
(* MayTouch.  One premise remains, that no rename overtakes a call (NoRace).*)
SharedIsPristine ==
    \A t, u \in Trees : t # u =>
        \A f \in Files \cap InTree(t) \cap InTree(u) :
            ino[f] = Pristine \/ (MayTouch /\ ino[f] = [Pristine EXCEPT !.meta = TRUE])

(* No process renames onto a name that another process of its container has *)
(* a call in flight on: the look of that call would be at another file.     *)
NoRace == \A p, q \in Procs : p # q /\ Home[p] = Home[q] /\ th[q].pc # "idle" =>
              ~(ActRename(p) /\ th[p].g \in {th[q].f, th[q].g})

(* rename(2) makes the copy-up atomic: no tree ever shows a file whose copy *)
(* is not complete.  A tree with several processes may show one that was    *)
(* copied up to the length it had earlier.                                  *)
NeverPartial == \A t \in Trees, f \in Files : dir[t][f] # None =>
    /\ ino[dir[t][f]].data # "part"
    /\ (\A p, q \in Procs : Home[p] = t /\ Home[q] = t => p = q) => ino[dir[t][f]].data # "prefix"

(* A process that closes no stream whose number an open that leaves the     *)
(* table alone may get next, and makes no dup2(n, n).                       *)
Tidy(p) == LET ops == load[p].ops IN
    /\ "dup2self" \notin ops
    /\ "fclose" \in ops => "fopen" \notin ops /\ ("openread" \notin ops \/ load[p].track)

(* "we track writable opens ourselves": the path the table has for an open  *)
(* descriptor of a tidy process is the one it was opened with, and a         *)
(* descriptor for writing has one, unless it may be from fopen.             *)
TableIsTrue == \A p \in Procs, n \in Fds : Tidy(p) /\ fds[p][n] # Closed =>
    /\ tab[p][n] \in {None, fds[p][n].path}
    /\ fds[p][n].wr /\ "fopen" \notin load[p].ops => tab[p][n] # None

(* A process alone in its container writes to the file its tree shows: as   *)
(* long as the name is not replaced, a later copy-up does not leave an open *)
(* descriptor behind on the old inode.                                      *)
Alone(p) == \A q \in Procs : Home[q] = Home[p] => q = p
WritesAreVisible == \A p \in Procs, n \in Fds :
    (Alone(p) /\ fds[p][n].wr /\ fds[p][n].at # None) => dir[Home[p]][fds[p][n].at] = fds[p][n].ino

==============================================================================
