----------------------------- MODULE DirectTracer -----------------------------
(***************************************************************************)
(* The tracing loop of the direct executor: one thread that waits for any   *)
(* of the processes of a container, looks the process up in a table, does   *)
(* what the reported stop asks for and lets the process go on.  Every       *)
(* process is itself asynchronous: it forks, calls the kernel and ends at   *)
(* any time, stops are reported in any order, and a process the tracer is   *)
(* working for can be killed under its hands.                               *)
(*                                                                         *)
(* own is what the process would know about itself without the executor:    *)
(* its identity and its working directory, taken over from its parent.      *)
(*                                                                         *)
(* Abstracted: an identity (the six emulated credentials) and a directory   *)
(* are one value each; all paths the executor validates are one path, and   *)
(* fs is what it resolves to; both of the executor's path caches are one    *)
(* entry.                                                                   *)
(***************************************************************************)
EXTENDS Naturals, FiniteSets

CONSTANTS Pids, Root,   \* processes, numbered as they begin, and the first one
          Rows,         \* rows of the tracee table (MAX_TRACEES)
          Selective,    \* g_selective_trace: a seccomp filter selects the calls
          Generations,  \* values of the cache generation, a machine word
          Codes,        \* exit codes of processes
          MaxCalls,     \* bound on the calls of all processes
          MaxKills,     \* bound on the processes killed from outside
          NoCall, NoPid

Calls    == {"setuid", "chdir", "stat", "rename", "linkat"}
Identity == {0, 1}
Failed   == 126
Signaled == 200

ASSUME TracerAssumption ==
    /\ Pids \subseteq Nat /\ Root \in Pids /\ Rows # {} /\ IsFiniteSet(Rows) /\ IsFiniteSet(Pids)
    /\ NoPid \notin Pids /\ NoCall \notin Calls /\ NoCall \notin 0..Signaled
    /\ Selective \in BOOLEAN
    /\ Generations \in Nat /\ Generations >= 2 /\ Codes \subseteq 0..125
    /\ MaxCalls \in Nat /\ MaxKills \in Nat

VARIABLES st,      \* st[p]: what process p does, or the stop it has to report
          call,    \* call[p]: the system call it is in
          kid,     \* kid[p]: the child of a fork to be reported
          own,     \* own[p]: identity and directory, had it no tracer
          code,    \* code[p]: its exit code
          budget,  \* calls and kills left
          fs,      \* what the path resolves to
          tbl,     \* tbl[r]: the tracee table
          inflight,\* g_path_cache_mutation_inflight
          gen,     \* g_path_cache_generation
          cache,   \* the cached validation and the generation it belongs to
          held,    \* the process whose stop the tracer has just been given
          full,    \* the table had no room for a process
          over     \* what the executor returns, once the loop has ended

procs  == <<st, call, kid, own, code, budget, fs>>
tracer == <<tbl, inflight, gen, cache, full>>
tvars  == <<st, call, kid, own, code, budget, fs, tbl, inflight, gen, cache, full, held, over>>

Stops   == {"birth", "enter", "leave", "fork", "dead"}
Alive   == {"run", "kernel", "birth", "enter", "leave", "fork"}
EmptyRow == [pid |-> NoPid, uid |-> 0, cwd |-> 0, next |-> NoPid, in |-> FALSE,
             emulated |-> FALSE, pending |-> FALSE]
NewRow(p) == [EmptyRow EXCEPT !.pid = p]
NotOver == NoCall
Nobody  == [pid |-> NoPid, stop |-> "none"]

TracerInit ==
    /\ st = [p \in Pids |-> IF p = Root THEN "birth" ELSE "absent"]
    /\ call = [p \in Pids |-> NoCall] /\ kid = [p \in Pids |-> NoPid]
    /\ own = [p \in Pids |-> [uid |-> 0, cwd |-> 0]]
    /\ code = [p \in Pids |-> 0] /\ budget = [calls |-> MaxCalls, kills |-> MaxKills]
    /\ fs = 0
    /\ tbl = [r \in Rows |-> IF r = CHOOSE f \in Rows : TRUE THEN NewRow(Root) ELSE EmptyRow]
    /\ inflight = 0 /\ gen = 1 /\ cache = [gen |-> 0, val |-> 0]
    /\ full = FALSE /\ held = Nobody /\ over = NotOver

-----------------------------------------------------------------------------
(* The processes *)

Running(p) == over = NotOver /\ st[p] = "run"

(* The filter traces every call modelled here: the process stops before it.  *)
Enter(p, c) ==
    /\ Running(p) /\ budget.calls > 0
    /\ st' = [st EXCEPT ![p] = "enter"] /\ call' = [call EXCEPT ![p] = c]
    /\ budget' = [budget EXCEPT !.calls = @ - 1]
    /\ UNCHANGED <<kid, own, code, fs, tracer, held, over>>

(* The child starts with what its parent had; the kernel reports the fork   *)
(* by the parent and a first stop by the child, each for itself.            *)
Fork(p, c) ==
    /\ Running(p) /\ st[c] = "absent" /\ \A d \in Pids : d < c => st[d] # "absent"
    /\ st' = [st EXCEPT ![p] = "fork", ![c] = "birth"]
    /\ kid' = [kid EXCEPT ![p] = c] /\ own' = [own EXCEPT ![c] = own[p]]
    /\ UNCHANGED <<call, code, budget, fs, tracer, held, over>>

Exit(p) ==
    /\ Running(p)
    /\ st' = [st EXCEPT ![p] = "dead"]
    /\ \E c \in Codes : code' = [code EXCEPT ![p] = c]
    /\ UNCHANGED <<call, kid, own, budget, fs, tracer, held, over>>

(* SIGKILL from outside, in whatever state the process is. *)
Kill(p) ==
    /\ over = NotOver /\ st[p] \in Alive /\ budget.kills > 0
    /\ st' = [st EXCEPT ![p] = "dead"]
    /\ code' = [code EXCEPT ![p] = Signaled]
    /\ budget' = [budget EXCEPT !.kills = @ - 1]
    /\ UNCHANGED <<call, kid, own, fs, tracer, held, over>>

(* The kernel executes the call; it stops at the end of it only if the      *)
(* tracer has asked for that.  A call skipped by the tracer does nothing.   *)
Execute(p, exitStop, skipped) ==
    /\ st' = [st EXCEPT ![p] = IF exitStop THEN "leave" ELSE "run"]
    /\ call' = IF exitStop THEN call ELSE [call EXCEPT ![p] = NoCall]
    /\ fs' = IF call[p] = "rename" /\ ~skipped THEN 1 - fs ELSE fs
    /\ own' = IF call[p] = "chdir" /\ ~skipped THEN [own EXCEPT ![p].cwd = 1 - @] ELSE own

RowsOf(p) == {r \in Rows : tbl[r].pid = p}

Kernel(p) ==
    /\ over = NotOver /\ st[p] = "kernel"
    /\ \E r \in RowsOf(p) : Execute(p, tbl[r].in \/ ~Selective, tbl[r].emulated)
    /\ UNCHANGED <<kid, code, budget, tracer, held, over>>

-----------------------------------------------------------------------------
(* The table and the path caches *)

FreeRows  == {r \in Rows : tbl[r].pid = NoPid}

(* find_tracee, or else add_tracee: a process seen for the first time is     *)
(* taken to be root in "/".                                                 *)
RowFor(t, p) == {r \in Rows : t[r].pid = p}
Added(t, p) == IF RowFor(t, p) # {} THEN t
               ELSE [t EXCEPT ![CHOOSE r \in Rows : t[r].pid = NoPid] = NewRow(p)]

(* invalidate_path_caches: a generation of zero means empty, so the caches  *)
(* are emptied when the word wraps.                                         *)
NextGen(g)   == IF (g + 1) % Generations = 0 THEN 1 ELSE g + 1

(* Regression: the caches are kept when the word wraps.                     *)
InvalidateOnly == gen' = NextGen(gen) /\ UNCHANGED cache

Invalidate   == /\ gen' = NextGen(gen)
                /\ cache' = IF (gen + 1) % Generations = 0 THEN [cache EXCEPT !.gen = 0] ELSE cache

(* Regression: a validation is entered whatever the processes are doing.    *)
ValidateAlways == /\ cache' = IF cache.gen = gen THEN cache ELSE [gen |-> gen, val |-> fs]
                  /\ UNCHANGED gen

(* Validation of the path: from the cache, or from the file system, and     *)
(* then entered in the cache unless a change is on its way.                  *)
Validate == /\ cache' = IF cache.gen = gen \/ inflight > 0 THEN cache ELSE [gen |-> gen, val |-> fs]
            /\ UNCHANGED gen
-----------------------------------------------------------------------------
(* The loop *)

(* waitpid(-1): the stops of different processes come in any order. *)
Wait(p) ==
    /\ over = NotOver /\ held = Nobody /\ st[p] \in Stops
    /\ held' = [pid |-> p, stop |-> st[p]]
    /\ UNCHANGED <<procs, tracer, over>>

This      == held.pid
Held(s)   == over = NotOver /\ held.stop = s
HasRoom   == RowsOf(This) # {} \/ FreeRows # {}
Row       == CHOOSE r \in Rows : Added(tbl, This)[r].pid = This

(* continue_tracee.  A process killed while it was held may be reached in    *)
(* its exit stop, which changes nothing.                                    *)
Continue(to) == /\ st' = [st EXCEPT ![This] = IF @ = "dead" THEN @ ELSE to]
                /\ held' = Nobody
                /\ UNCHANGED <<code, budget, over>>

(* Or the tracer's requests fail: the stop has no effect, or the loop is     *)
(* left, and PTRACE_O_EXITKILL takes all processes along.                   *)
Vanished == over = NotOver /\ held # Nobody /\ held.stop # "dead" /\ st[This] = "dead"
HandleVanished ==
    /\ Vanished
    /\ held' = Nobody
    /\ \/ UNCHANGED <<st, over>>
       \/ over' = Failed /\ st' = [p \in Pids |-> "gone"]
    /\ UNCHANGED <<call, kid, own, code, budget, fs, tracer>>

(* The table is full: a process seen for the first time is killed.          *)
HandleNoRoom ==
    /\ over = NotOver /\ held # Nobody /\ ~HasRoom
    /\ st' = [st EXCEPT ![This] = IF held.stop = "dead" THEN "gone" ELSE "dead"]
    /\ code' = IF st[This] = "dead" THEN code ELSE [code EXCEPT ![This] = Signaled]
    /\ full' = TRUE /\ held' = Nobody
    /\ UNCHANGED <<call, kid, own, budget, fs, tbl, inflight, gen, cache, over>>

(* The initial SIGSTOP. *)
HandleBirth ==
    /\ Held("birth") /\ HasRoom
    /\ tbl' = Added(tbl, This)
    /\ Continue("run")
    /\ UNCHANGED <<call, kid, own, fs, inflight, gen, cache, full>>

(* Regression: a parent whose child finds no room is forgotten. *)
HandleForkStops ==
    /\ Held("fork") /\ HasRoom /\ held' = Nobody
    /\ IF Cardinality(FreeRows) = 0 THEN UNCHANGED <<tbl, st, kid>>
       ELSE /\ tbl' = Added(Added(tbl, This), kid[This])
            /\ st' = [st EXCEPT ![This] = IF @ = "dead" THEN @ ELSE "run"]
            /\ kid' = [kid EXCEPT ![This] = NoPid]
    /\ UNCHANGED <<call, own, code, budget, fs, inflight, gen, cache, full, over>>

(* Regression: the children do not take over anything. *)
HandleForkForgets ==
    /\ Held("fork") /\ HasRoom
    /\ tbl' = Added(tbl, This)
    /\ kid' = [kid EXCEPT ![This] = NoPid]
    /\ Continue("run")
    /\ UNCHANGED <<call, own, fs, inflight, gen, cache, full>>

(* PTRACE_EVENT_FORK: the child takes over the row of its parent.  A child   *)
(* that finds no room is not entered.                                       *)
HandleFork ==
    /\ Held("fork") /\ HasRoom
    /\ LET c == kid[This]
           t == Added(tbl, This)
           room == RowFor(t, c) # {} \/ \E r \in Rows : t[r].pid = NoPid
           u == Added(t, c)
           r == CHOOSE x \in Rows : u[x].pid = c
       IN /\ full' = (full \/ ~room)
          /\ tbl' = IF room THEN [u EXCEPT ![r].uid = t[Row].uid, ![r].cwd = t[Row].cwd] ELSE t
    /\ kid' = [kid EXCEPT ![This] = NoPid]
    /\ Continue("run")
    /\ UNCHANGED <<call, own, fs, inflight, gen, cache>>

(* handle_syscall_entry, by what the call is.                               *)
Mutates(c)  == c \in {"rename", "linkat"}
Emulated(c) == c \in {"setuid", "linkat"}

(* begin_path_cache_mutation precedes the call; a call that the tracer      *)
(* completes itself (a hard link is copied) also ends it here.              *)
HandleEntry ==
    /\ Held("enter") /\ HasRoom
    /\ LET c == call[This]
           r == Row
           t == Added(tbl, This)
       IN /\ \/ ~Mutates(c) /\ c # "stat" /\ UNCHANGED <<gen, cache>>
             \/ Mutates(c) /\ Invalidate
             \/ c = "stat" /\ Validate
          /\ inflight' = IF c = "rename" THEN inflight + 1 ELSE inflight
          /\ fs' = IF c = "linkat" THEN 1 - fs ELSE fs
          /\ own' = IF c = "setuid" THEN [own EXCEPT ![This].uid = 1] ELSE own
          /\ tbl' = [t EXCEPT ![r].uid = IF c = "setuid" THEN 1 ELSE @,
                              ![r].next = IF c = "chdir" THEN 1 - own[This].cwd ELSE @,
                              ![r].emulated = Emulated(c),
                              ![r].pending = c = "rename",
                              ![r].in = ~Selective \/ Emulated(c) \/ c \in {"rename", "chdir"}]
    /\ Continue("kernel")
    /\ UNCHANGED <<call, kid, full>>

(* The stop at the end of a call: a successful chdir becomes the working    *)
(* directory, and the mutation of the file system is over.                  *)
HandleLeave ==
    /\ Held("leave") /\ HasRoom
    /\ LET r == Row
           t == Added(tbl, This)
       IN /\ tbl' = [t EXCEPT ![r].cwd = IF call[This] = "chdir" /\ t[r].next # NoPid
                                         THEN t[r].next ELSE @,
                              ![r].next = NoPid, ![r].emulated = FALSE,
                              ![r].pending = FALSE, ![r].in = FALSE]
          /\ inflight' = IF t[r].pending THEN inflight - 1 ELSE inflight
    /\ call' = [call EXCEPT ![This] = NoCall]
    /\ Continue("run")
    /\ UNCHANGED <<kid, own, fs, gen, cache, full>>

(* WIFEXITED and WIFSIGNALED: remove_tracee; the executor returns when the   *)
(* program it was asked to run has ended and no row is left.                *)
RootDone == st'[Root] = "gone"
(* Regression: a mutation in flight is forgotten with its process. *)
HandleEndLeaks ==
    /\ Held("dead") /\ HasRoom
    /\ tbl' = [Added(tbl, This) EXCEPT ![Row] = EmptyRow]
    /\ st' = [st EXCEPT ![This] = "gone"] /\ held' = Nobody
    /\ over' = IF RootDone /\ \A r \in Rows : tbl'[r].pid = NoPid THEN code[Root] ELSE NotOver
    /\ UNCHANGED <<call, kid, own, code, budget, fs, inflight, gen, cache, full>>

HandleEnd ==
    /\ Held("dead") /\ HasRoom
    /\ LET r == Row
           t == Added(tbl, This)
       IN /\ tbl' = [t EXCEPT ![r] = EmptyRow]
          /\ inflight' = IF t[r].pending THEN inflight - 1 ELSE inflight
    /\ st' = [st EXCEPT ![This] = "gone"] /\ held' = Nobody
    /\ over' = IF RootDone /\ \A r \in Rows : tbl'[r].pid = NoPid THEN code[Root] ELSE NotOver
    /\ UNCHANGED <<call, kid, own, code, budget, fs, gen, cache, full>>

(* Regression: the rows decide, not the kernel. *)
NoChildWaits ==
    /\ over = NotOver /\ held = Nobody /\ \A p \in Pids : st[p] \in {"absent", "gone"}
    /\ \A r \in Rows : tbl[r].pid = NoPid
    /\ over' = code[Root]
    /\ UNCHANGED <<procs, tracer, held>>

(* waitpid finds no process any more (ECHILD), rows may be left.            *)
NoChild ==
    /\ over = NotOver /\ held = Nobody /\ \A p \in Pids : st[p] \in {"absent", "gone"}
    /\ over' = IF st[Root] = "gone" THEN code[Root] ELSE Failed
    /\ UNCHANGED <<procs, tracer, held>>

-----------------------------------------------------------------------------
Handle == \/ HandleNoRoom \/ HandleBirth \/ HandleFork \/ HandleEntry \/ HandleLeave
          \/ HandleEnd \/ HandleVanished
TracerStep == Handle \/ NoChild \/ \E p \in Pids : Wait(p)
ProcessStep == \E p \in Pids :
    \/ Kernel(p) \/ Exit(p) \/ Kill(p)
    \/ \E c \in Calls : Enter(p, c)
    \/ \E c \in Pids : Fork(p, c)
TracerNext == TracerStep \/ ProcessStep
TracerSpec == TracerInit /\ [][TracerNext]_tvars

-----------------------------------------------------------------------------
Pending == {r \in Rows : tbl[r].pending}

(* Types of the processes, the table and the caches.                        *)
TracerTypeOK ==
    /\ st \in [Pids -> Alive \cup {"absent", "dead", "gone"}]
    /\ call \in [Pids -> Calls \cup {NoCall}] /\ kid \in [Pids -> Pids \cup {NoPid}]
    /\ own \in [Pids -> [uid : Identity, cwd : Identity]]
    /\ tbl \in [Rows -> [pid : Pids \cup {NoPid}, uid : Identity, cwd : Identity, next : Identity \cup {NoPid},
                        in : BOOLEAN, emulated : BOOLEAN, pending : BOOLEAN]]
    /\ inflight \in Nat /\ gen \in 1..(Generations - 1) /\ cache \in [gen : 0..(Generations - 1), val : {0, 1}]

(* A cached validation is one the file system would give now, whatever the   *)
(* traced processes have moved since, and however far in a call they are.   *)
CacheIsTrue == over = NotOver /\ cache.gen = gen => cache.val = fs

(* The caches are closed for exactly the changes that are on their way, so  *)
(* they are neither open too early nor closed for ever.                     *)
PendingIsCounted == inflight = Cardinality(Pending)

(* "Process tracking: fork/vfork/clone tracee state inheritance": between   *)
(* its calls, a process is known to have the identity and the directory it   *)
(* took over from its parent and changed since.                             *)
StateIsInherited ==
    \A p \in Pids : over = NotOver /\ st[p] = "run" => \A r \in RowsOf(p) :
        tbl[r].uid = own[p].uid /\ tbl[r].cwd = own[p].cwd

(* The executor fails only over a process that was killed under its hands,   *)
(* and otherwise returns what the program returned, and not before the last *)
(* of its processes has ended, unless there were too many of them.          *)
EndsWithLast ==
    /\ over = Failed => budget.kills < MaxKills
    /\ over \notin {NotOver, Failed} =>
        /\ over = code[Root] /\ st[Root] = "gone"
        /\ ~full /\ budget.kills = MaxKills => \A p \in Pids : st[p] \in {"absent", "gone"}

(* A stopped process goes on. *)
StoppedGoesOn == \A p \in Pids : st[p] \in Stops ~> (st[p] \notin Stops \/ over # NotOver)

(* When all processes have ended the executor returns. *)
Returns == (\A p \in Pids : st[p] \in {"absent", "dead", "gone"}) ~> over # NotOver

TracerFairness == WF_tvars(TracerStep)
==============================================================================
