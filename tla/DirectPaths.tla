------------------------------ MODULE DirectPaths ------------------------------
(***************************************************************************)
(* How the direct executor makes a directory of the host the root of a      *)
(* program: absolute paths of the program are rewritten to the root          *)
(* directory or to the host directory of a bind, paths are validated before *)
(* the call goes on, the working directory is tracked, absolute links of an  *)
(* image are made relative once, hard links are copied, and a program is     *)
(* started through the loader or the interpreter of its script.             *)
(*                                                                         *)
(* GuestObject is the reference: where the path leads in a container whose   *)
(* root is that directory, with the binds mounted.                          *)
(*                                                                         *)
(* Abstracted: a path is a sequence of names, with a flag for the leading    *)
(* slash; /proc, /dev and /sys are left to the kernel by the code and do not *)
(* occur; the caches of validations are in DirectTracer.                    *)
(***************************************************************************)
EXTENDS Naturals, SequencesExt, FiniteSets

CONSTANTS Root,        \* host path of the root directory
          Binds,       \* sequence of [host, guest]
          Tree,        \* the file system when the program starts
          GuestPaths,  \* the paths the program uses, [abs, seg]
          LinkPairs,   \* the hard links it makes, <<old, new>> guest paths
          Replaced,    \* the host paths that name dpkg's status-old
          MaxSteps,    \* bound on the calls
          NoFile       \* no such object

Dir      == [kind |-> "dir"]
File(c)  == [kind |-> "file", data |-> c]
Link(p)  == [kind |-> "link", to |-> p]
Script(p) == [kind |-> "script", interp |-> p]
Abs(s)   == [abs |-> TRUE, seg |-> s]
Rel(s)   == [abs |-> FALSE, seg |-> s]
Partial  == 0

VARIABLES tree,   \* the file system: host paths to objects
          hcwd,   \* the working directory, as the kernel has it
          gcwd,   \* guest_cwd, as the executor tells the program
          strayed,\* the program went up, or into a bind on the way
          marked, \* the links of the image have been normalized
          copy,   \* the copy that stands for a hard link, while the tracer makes it
          steps

fvars == <<tree, hcwd, gcwd, strayed, marked, copy, steps>>

-----------------------------------------------------------------------------
(* The kernel: follow a host path from a directory.                         *)
Kind(t, h) == IF h \in DOMAIN t THEN t[h].kind ELSE "none"
Up(h)      == IF h = <<>> THEN h ELSE Front(h)

RECURSIVE Walk(_, _, _, _)
Walk(t, at, rest, follow) ==
    IF rest = <<>> THEN at
    ELSE LET name == Head(rest)
             more == Tail(rest)
             here == Append(at, name)
         IN IF name = ".." THEN Walk(t, Up(at), more, follow)
            ELSE CASE Kind(t, here) = "none" -> NoFile
                   [] Kind(t, here) = "link" /\ (more # <<>> \/ follow) ->
                        Walk(t, IF t[here].to.abs THEN <<>> ELSE at, t[here].to.seg \o more, follow)
                   [] Kind(t, here) = "dir" -> Walk(t, here, more, follow)
                   [] OTHER -> IF more = <<>> THEN here ELSE NoFile

Realpath(t, h) == Walk(t, <<>>, h, TRUE)

-----------------------------------------------------------------------------
(* Binds and the rewriting of absolute paths *)

Matches(g)  == {i \in DOMAIN Binds : IsPrefix(Binds[i].guest, g)}
Longest(S, len(_)) == CHOOSE i \in S : \A j \in S : len(j) < len(i) \/ (len(j) = len(i) /\ j <= i)
GuestLen(i) == Len(Binds[i].guest)
HostLen(i)  == Len(Binds[i].host)
After(s, prefix) == SubSeq(s, Len(prefix) + 1, Len(s))

(* Regression: the first bind that matches, not the longest. *)
BindOfFirst(g) == CHOOSE i \in Matches(g) : \A j \in Matches(g) : i <= j
(* resolve_bind_path: the longest match, the later one of two equals.       *)
BindOf(g) == Longest(Matches(g), GuestLen)

(* resolve_guest_host_path *)
HostOf(g) == IF Matches(g) = {} THEN Root \o g
             ELSE Binds[BindOf(g)].host \o After(g, Binds[BindOf(g)].guest)

(* bind_host_to_guest_path *)
HostMatches(h) == {i \in DOMAIN Binds : IsPrefix(Binds[i].host, h)}
GuestOfBind(h) == LET i == Longest(HostMatches(h), HostLen)
                  IN Binds[i].guest \o After(h, Binds[i].host)

(* host_path_is_under_allowed_host_path *)
Allowed(h) == IsPrefix(Root, h) \/ HostMatches(h) # {}

-----------------------------------------------------------------------------
(* Validation *)

(* normalize_absolute_path_lexical, and normalize_guest_path *)
Pushed(s, name) == IF name = ".." THEN Up(s) ELSE Append(s, name)
Lexical(s) == FoldLeft(Pushed, <<>>, s)

(* The nearest ancestor, by its text, that exists. *)
Ancestor(h) == LET k == CHOOSE k \in 0..(Len(h) - 1) :
                            /\ Realpath(tree, SubSeq(h, 1, k)) # NoFile
                            /\ \A m \in (k + 1)..(Len(h) - 1) : Realpath(tree, SubSeq(h, 1, m)) = NoFile
               IN SubSeq(h, 1, k)

(* validate_host_path_under_allowed *)
Valid(h, follow) ==
    /\ Allowed(Lexical(h))
    /\ IF follow /\ Realpath(tree, h) # NoFile THEN Allowed(Realpath(tree, h))
       ELSE Allowed(Realpath(tree, Ancestor(h)))

Denied   == [rc |-> "denied", at |-> NoFile]
Passed(h) == [rc |-> "passed", at |-> h]

(* rewrite_at_path_arg: where the call that goes on to the kernel leads, a   *)
(* relative path from the working directory (or the directory given).        *)
Rewrite(p, follow) ==
    IF p.abs THEN IF Valid(HostOf(p.seg), follow) THEN Passed(HostOf(p.seg)) ELSE Denied
    ELSE IF Allowed(hcwd) /\ Valid(hcwd \o p.seg, follow) THEN Passed(hcwd \o p.seg) ELSE Denied

(* rewrite_path_arg_scratch: the calls that take no directory, chdir among   *)
(* them, pass a relative path on without looking at it.                     *)
RewritePlain(p) == IF p.abs THEN Rewrite(p, TRUE) ELSE Passed(hcwd \o p.seg)

-----------------------------------------------------------------------------
(* The reference: a container with its mounts *)

(* The deepest mount point on the way has the object; of two binds on one     *)
(* mount point, the later.                                                  *)
NodeOf(g) ==
    LET over == {i \in DOMAIN Binds : IsPrefix(Binds[i].guest, g)}
        top == CHOOSE i \in over : \A j \in over :
                   IsStrictPrefix(Binds[j].guest, Binds[i].guest) \/ (Binds[i].guest = Binds[j].guest /\ j <= i)
    IN IF over = {} THEN Root \o g ELSE Binds[top].host \o After(g, Binds[top].guest)

RECURSIVE GuestWalk(_, _, _, _)
GuestWalk(t, at, rest, follow) ==
    IF rest = <<>> THEN at
    ELSE LET name == Head(rest)
             more == Tail(rest)
             here == Append(at, name)
             node == NodeOf(here)
         IN IF name = ".." THEN GuestWalk(t, Up(at), more, follow)
            ELSE CASE Kind(t, node) = "none" -> NoFile
                   [] Kind(t, node) = "link" /\ (more # <<>> \/ follow) ->
                        GuestWalk(t, IF t[node].to.abs THEN <<>> ELSE at, t[node].to.seg \o more, follow)
                   [] Kind(t, node) = "dir" -> GuestWalk(t, here, more, follow)
                   [] OTHER -> IF more = <<>> THEN here ELSE NoFile

GuestDir == IF HostMatches(hcwd) # {} THEN GuestOfBind(hcwd) ELSE After(hcwd, Root)
GuestObject(p, follow) == LET g == GuestWalk(tree, IF p.abs THEN <<>> ELSE GuestDir, p.seg, follow)
                          IN IF g = NoFile THEN NoFile ELSE NodeOf(g)

-----------------------------------------------------------------------------
(* A relative path is not rewritten, and the bind of an absolute one is       *)
(* found by its text: neither gets into a bind on the way.                  *)
CrossesMount(p) == \E k \in 1..Len(p.seg) :
    LET way == Matches(Lexical((IF p.abs THEN <<>> ELSE GuestDir) \o SubSeq(p.seg, 1, k)))
    IN IF p.abs THEN ~(way \subseteq Matches(p.seg)) ELSE way # Matches(GuestDir)

NoCopy == [pc |-> "none"]
FilesInit == /\ tree = Tree /\ hcwd = Root /\ gcwd = <<>> /\ strayed = FALSE /\ marked = FALSE
             /\ copy = NoCopy /\ steps = 0

(* A call of the program, which is stopped while a copy is made. *)
Step == copy = NoCopy /\ steps < MaxSteps /\ steps' = steps + 1

(* Regression: an absolute path is joined as a relative one. *)
JoinedBelow(p) == Lexical(gcwd \o p.seg)
Joined(p) == Lexical((IF p.abs THEN <<>> ELSE gcwd) \o p.seg)

(* chdir, with the stop at its end: the path is joined to guest_cwd by its   *)
(* text, and becomes guest_cwd if the kernel accepts it.                    *)
Chdir(p) ==
    /\ Step
    /\ LET r == RewritePlain(p)
           d == IF r.rc = "denied" THEN NoFile ELSE Realpath(tree, r.at)
       IN /\ d # NoFile /\ Kind(tree, d) = "dir"
          /\ hcwd' = d
          /\ gcwd' = Joined(p)
          /\ strayed' = (strayed \/ Contains(p.seg, "..") \/ CrossesMount(p))
    /\ UNCHANGED <<tree, marked, copy>>

(* relative_path_between *)
Between(from, to) ==
    LET k == CHOOSE k \in 0..Len(from) :
                 /\ IsPrefix(SubSeq(from, 1, k), to)
                 /\ k = Len(from) \/ ~IsPrefix(SubSeq(from, 1, k + 1), to)
    IN [i \in 1..(Len(from) - k) |-> ".."] \o SubSeq(to, k + 1, Len(to))

Relinked(t, h) == LET to == Root \o t[h].to.seg IN Link(Rel(Between(Front(h), to)))

(* normalize_absolute_symlinks_once, before the program starts.              *)
AbsoluteLinks == {h \in DOMAIN tree : IsPrefix(Root, h) /\ tree[h].kind = "link" /\ tree[h].to.abs}
Normalize ==
    /\ ~marked /\ steps = 0 /\ hcwd = Root
    /\ tree' = [h \in DOMAIN tree |-> IF h \in AbsoluteLinks THEN Relinked(tree, h) ELSE tree[h]]
    /\ marked' = TRUE
    /\ UNCHANGED <<hcwd, gcwd, strayed, copy, steps>>

Put(h, o) == [x \in DOMAIN tree \cup {h} |-> IF x = h THEN o ELSE tree[x]]
Without(t, h) == [x \in DOMAIN t \ {h} |-> t[x]]

(* resolve_tracee_host_path; a relative path from outside of the root        *)
(* directory is left to the kernel.                                         *)
Resolved(p) == IF p.abs THEN HostOf(p.seg) ELSE IF IsPrefix(Root, hcwd) THEN hcwd \o p.seg ELSE NoFile

(* emulate_linkat_copy begins: a regular file is opened, and the new name is  *)
(* created, which must not be there; but a status-old of dpkg is unlinked     *)
(* first.                                                                   *)
LinkBegins(pair) ==
    /\ Step
    /\ LET from == Resolved(pair[1])
           to == Resolved(pair[2])
           old == IF from = NoFile THEN NoFile ELSE Realpath(tree, from)
           dir == IF to = NoFile THEN NoFile ELSE Realpath(tree, Front(to))
           new == Append(dir, Last(to))
       IN /\ old # NoFile /\ Kind(tree, old) \in {"file", "script"} /\ dir # NoFile /\ Kind(tree, dir) = "dir"
          /\ new \in DOMAIN tree => to \in Replaced /\ Kind(tree, new) # "dir"
          /\ copy' = [pc |-> "created", new |-> new, data |-> tree[old]]
          /\ tree' = Put(new, File(Partial))
    /\ UNCHANGED <<hcwd, gcwd, strayed, marked>>

(* All is read and written. *)
LinkWrites ==
    /\ copy.pc = "created"
    /\ tree' = Put(copy.new, copy.data) /\ copy' = [copy EXCEPT !.pc = "written"]
    /\ UNCHANGED <<hcwd, gcwd, strayed, marked, steps>>

(* fchmod and close succeed as well. *)
LinkEnds ==
    /\ copy.pc = "written"
    /\ copy' = NoCopy
    /\ UNCHANGED <<tree, hcwd, gcwd, strayed, marked, steps>>

(* Regression: the file is left where the copy failed. *)
LinkFailsAndStays ==
    /\ copy.pc \in {"created", "written"}
    /\ copy' = NoCopy
    /\ UNCHANGED <<tree, hcwd, gcwd, strayed, marked, steps>>

(* A read, a write, fchmod or close fails: what was created is removed again. *)
LinkFails ==
    /\ copy.pc \in {"created", "written"}
    /\ tree' = Without(tree, copy.new) /\ copy' = NoCopy
    /\ UNCHANGED <<hcwd, gcwd, strayed, marked, steps>>

(* The executor is killed, and its program with it. *)
LinkKilled ==
    /\ copy.pc \in {"created", "written"}
    /\ copy' = [copy EXCEPT !.pc = "killed"]
    /\ UNCHANGED <<tree, hcwd, gcwd, strayed, marked, steps>>

(* rewrite_execve_arg: an absolute path is looked for in the root directory, *)
(* a relative one in the working directory; if nothing is there the call     *)
(* goes on as it is.  A script is replaced by its interpreter, and the       *)
(* script becomes its argument.                                             *)
ExecTarget(p) ==
    IF ~p.abs THEN IF Rewrite(p, TRUE).rc = "denied" THEN NoFile ELSE hcwd \o p.seg
    ELSE IF HostMatches(p.seg) # {} THEN p.seg
    ELSE Root \o p.seg

(* Regression: a script is started as if it were a binary. *)
ProgramAsIs(h) == Realpath(tree, h)
Program(h) == LET o == Realpath(tree, h)
              IN IF o = NoFile THEN NoFile
                 ELSE IF Kind(tree, o) = "script" THEN Realpath(tree, Root \o tree[o].interp) ELSE o

Started(p) == LET h == ExecTarget(p) IN IF h = NoFile THEN NoFile ELSE Program(h)

FilesNext ==
    \/ Normalize
    \/ \E p \in GuestPaths : Chdir(p)
    \/ \E pair \in LinkPairs : LinkBegins(pair)
    \/ LinkWrites \/ LinkEnds \/ LinkFails \/ LinkKilled

-----------------------------------------------------------------------------
GoesUp(p) == Contains(p.seg, "..")

(* A path that is passed on leads to the object the container would see       *)
(* there, whether it goes through a bind, a nested bind, a link or a parent  *)
(* directory; a path that gets into a bind on the way does not.              *)
OpensWhatTheGuestSees ==
    ~strayed => \A p \in GuestPaths, follow \in BOOLEAN :
        LET r == Rewrite(p, follow)
            reached == Walk(tree, <<>>, r.at, follow)
        IN r.rc = "passed" /\ (marked \/ reached # NoFile) /\ ~CrossesMount(p) => reached = GuestObject(p, follow)

(* getcwd names the directory the kernel works in, as long as the program    *)
(* never went up by "..", which guest_cwd follows by its text, nor got into  *)
(* a bind on the way.                                                       *)
CwdAgrees ==
    ~strayed => LET g == GuestWalk(tree, <<>>, gcwd, TRUE) IN g # NoFile /\ NodeOf(g) = hcwd

(* What stands for a hard link is there as a whole or not at all, but for the *)
(* one that is being made, or was when the executor was killed; and it takes  *)
(* the place of nothing that was there before, but of dpkg's status-old.     *)
CopiesAreWhole ==
    /\ \A h \in DOMAIN tree : tree[h] = File(Partial) => copy.pc \in {"created", "killed"} /\ h = copy.new
    /\ \A h \in DOMAIN Tree \ Replaced : h \in DOMAIN tree /\ ((marked /\ Tree[h].kind = "link") \/ tree[h] = Tree[h])

(* A program found by an absolute path outside of the binds is the one the   *)
(* container would start, and a script starts the container's interpreter.   *)
StartsWhatTheGuestSees ==
    marked => \A p \in GuestPaths :
        LET wanted == GuestObject(p, TRUE)
        IN p.abs /\ Matches(p.seg) = {} /\ ~GoesUp(p) /\ Started(p) # NoFile /\ wanted # NoFile =>
              Started(p) = IF Kind(tree, wanted) = "script" THEN GuestObject(Abs(tree[wanted].interp), TRUE)
                           ELSE wanted

==============================================================================
