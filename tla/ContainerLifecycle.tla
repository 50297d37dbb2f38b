-------------------------- MODULE ContainerLifecycle --------------------------
(***************************************************************************)
(* The life of one container in pdockerd.  Every API request is a thread;  *)
(* every start adds a watcher and a process-tracker thread.  All of them   *)
(* load state.json, look at /proc and save the whole file back, with no    *)
(* lock around the cycle: a save publishes whatever its thread loaded.     *)
(*                                                                         *)
(* A process is named by its birth number, which stands for the (Pid,      *)
(* StartTime) identity the code stores.  Pids are reused, so code that     *)
(* uses a bare pid reaches whichever process holds that pid now.  A        *)
(* launcher is the child of Popen (a zombie until the daemon reaps it); a  *)
(* workload is its child and may outlive it; a foreign process belongs to  *)
(* another container or to the app.                                        *)
(*                                                                         *)
(* Abstracted: looking at /proc and saving the result is one step (a       *)
(* process that dies in between could as well die after the save); the     *)
(* first of two loads made back to back is dropped; logs, events, ports    *)
(* and health are other modules' or left out.                              *)
(***************************************************************************)
EXTENDS Naturals, FiniteSets

CONSTANTS Callers,     \* API request threads
          Pollers,     \* request threads of the user interface, which lists again and again
          Ops,         \* the requests the callers may make
          Pids,        \* the pids of the device
          Reuse,       \* whether other programs of the device take freed pids
          AutoRemove,  \* the values of HostConfig.AutoRemove
          MaxBirth,    \* bound on the processes of a behaviour
          MaxCalls,    \* bound on the requests of a behaviour that are not a listing
          MaxCrashes,  \* bound on the daemon crashes of a behaviour
          NoState      \* what load_container_state returns without a file

Births == 1..MaxBirth
Requests == Callers \cup Pollers
Thread == Requests \cup ({"watch", "track"} \X Births)

ASSUME LifecycleAssumption ==
    /\ MaxBirth \in Nat \ {0} /\ MaxCalls \in Nat /\ MaxCrashes \in Nat
    /\ Requests \cap ({"watch", "track"} \X Births) = {}
    /\ Callers \cap Pollers = {}
    /\ Ops \subseteq {"start", "stop", "rm", "rmforce", "prune"}
    /\ 0 \notin Pids
    /\ Reuse \in BOOLEAN /\ AutoRemove \subseteq BOOLEAN

VARIABLES disk,     \* state.json, or NoState when the container has no directory
          proc,     \* proc[b]: the process of birth b
          tracked,  \* running_containers[cid]: birth of the Popen, 0 if none
          th,       \* th[t]: where thread t is and what it holds
          calls,    \* requests made so far, listings aside
          crashes,  \* daemon crashes so far
          cut       \* history: launchers whose start raised after Popen

vars == <<disk, proc, tracked, th, calls, crashes, cut>>

Daemon   == 0              \* parent of the launchers this daemon started
InitProc == MaxBirth + 1   \* parent of those a dead daemon started

Unborn  == [pid |-> 0, kind |-> "none", run |-> "none", parent |-> InitProc, rc |-> "none"]
Created(a) == [status |-> "created", main |-> 0, launcher |-> 0, known |-> {}, exit |-> "0", auto |-> a]
Idle    == [pc |-> "idle", op |-> "none", snap |-> NoState, kept |-> NoState, me |-> 0,
            pids |-> {}, seen |-> {}, old |-> {}, hit |-> FALSE]

Init == /\ \E a \in AutoRemove : disk = Created(a)
        /\ proc = [b \in Births |-> Unborn]
        /\ tracked = 0
        /\ th = [t \in Thread |-> Idle]
        /\ calls = 0 /\ crashes = 0 /\ cut = {}

-----------------------------------------------------------------------------
(* The process table *)

Up             == {b \in Births : proc[b].run = "up"}
Own            == {b \in Up : proc[b].kind \in {"launcher", "workload"}}
FreePids       == Pids \ {proc[b].pid : b \in {x \in Births : proc[x].run \in {"up", "zombie"}}}
Fresh          == {b \in Births : /\ proc[b].run = "none"
                                  /\ \A x \in Births : x < b => proc[x].run # "none"}
PidsOf(bs)     == {proc[b].pid : b \in bs \cap Births}
HoldersOf(ps)  == {b \in Up : proc[b].pid \in ps}
Descendants(bs) == {w \in Up : proc[w].parent \in bs \cap Up}

Born(b, p, k, parent) ==
    [proc EXCEPT ![b] = [pid |-> p, kind |-> k, run |-> "up", parent |-> parent, rc |-> "none"]]

(* A child of the daemon stays a zombie until it is waited for. *)
Ended(bs, rc) ==
    [b \in Births |->
       IF b \notin bs \cap Up THEN proc[b]
       ELSE [proc[b] EXCEPT !.run = IF @ = "up" /\ proc[b].parent = Daemon THEN "zombie" ELSE "gone",
                            !.rc = rc]]

(* Popen.poll() and Popen.wait() reap the zombie they find. *)
Reaped(b) == [x \in Births |-> IF x = b /\ proc[x].run = "zombie"
                               THEN [proc[x] EXCEPT !.run = "gone"] ELSE proc[x]]

ProcExit(b) == /\ b \in Up
               /\ proc' = Ended({b}, "own")
               /\ UNCHANGED <<disk, tracked, th, calls, crashes, cut>>

SpawnWorkload(l) ==
    /\ l \in Up /\ proc[l].kind = "launcher"
    /\ \E b \in Fresh, p \in FreePids : proc' = Born(b, p, "workload", l)
    /\ UNCHANGED <<disk, tracked, th, calls, crashes, cut>>

(* Another program of the device gets a pid that was used before. *)
SpawnForeign ==
    /\ Reuse
    /\ \E b \in Fresh, p \in FreePids \cap PidsOf(Births) : proc' = Born(b, p, "foreign", InitProc)
    /\ UNCHANGED <<disk, tracked, th, calls, crashes, cut>>

-----------------------------------------------------------------------------
(* Helpers on the stored state *)

(* _container_process_entries, and those of them that are alive *)
Entries(s) == (s.known \cup {s.main, s.launcher}) \ {0}
Live(s)    == Entries(s) \cap Up

(* The pid a state with live processes L shows: the current one, else a     *)
(* workload rather than the launcher.                                       *)
Preferred(s, L) == IF L \cap HoldersOf(PidsOf({s.main})) # {} THEN L \cap HoldersOf(PidsOf({s.main}))
                   ELSE IF L \ HoldersOf(PidsOf({s.launcher})) # {}
                   THEN L \ HoldersOf(PidsOf({s.launcher})) ELSE L

(* _refresh_container_process_snapshot: the recorded identities that are    *)
(* alive, whoever holds the pids of roots, and their descendants.           *)
Scanned(s, roots) ==
    LET base == Live(s) \cup HoldersOf(PidsOf(roots)) IN base \cup Descendants(base)

Refreshed(s, roots) ==
    LET L == Scanned(s, roots) IN
    {[s EXCEPT !.known = L, !.main = m] :
        m \in IF L = {} THEN {s.main} ELSE Preferred(s, L)}

(* _normalize_container_exit_state *)
Cleared(s) == [s EXCEPT !.main = 0, !.launcher = 0, !.known = {}]
ExitedWith(s, code) == [Cleared(s) EXCEPT !.status = "exited", !.exit = code]
RunningAs(s, b) == [s EXCEPT !.status = "running", !.main = b]

(* Regression: teardown trusts what state.json and the Popen say. *)
CandidatesRecorded(s, ps) ==
    LET base == HoldersOf(ps) \cup (IF s = NoState THEN {} ELSE Live(s))
    IN  base \cup Descendants(base)

(* _container_process_candidates: any process that refers to the           *)
(* container's paths, the recorded ones, the holders of the given pids.     *)
(* Without a state there is nothing to look for but the pids.               *)
Candidates(s, ps) ==
    LET base == HoldersOf(ps) \cup (IF s = NoState THEN {} ELSE Own \cup Live(s))
    IN  base \cup Descendants(base)

Goto(t, pc)       == th' = [th EXCEPT ![t].pc = pc]
GotoWith(t, pc, s) == th' = [th EXCEPT ![t] = [th[t] EXCEPT !.pc = pc, !.snap = s]]
Finish(t)         == th' = [th EXCEPT ![t] = Idle]
At(t, pc)         == th[t].pc = pc

-----------------------------------------------------------------------------
(* start_container *)

StartLoad(t) ==
    /\ At(t, "s_load")
    /\ IF disk = NoState THEN Finish(t) ELSE GotoWith(t, "s_check", disk)
    /\ UNCHANGED <<disk, proc, tracked, calls, crashes, cut>>

(* A live process is adopted; otherwise a changed bridge environment is     *)
(* saved first, and a failed preflight ends in an exited state.             *)
StartCheck(t) ==
    /\ At(t, "s_check")
    /\ LET s == th[t].snap IN
       \/ /\ Live(s) # {}
          /\ \E b \in Preferred(s, Live(s)) :
               disk' = [RunningAs(s, b) EXCEPT !.exit = "0"]
          /\ Finish(t)
       \/ /\ Live(s) = {}
          /\ disk' \in {disk, s}
          /\ Goto(t, "s_spawn")
       \/ /\ Live(s) = {}
          /\ disk' = [s EXCEPT !.status = "exited", !.main = 0, !.exit = "126"]
          /\ Finish(t)
    /\ UNCHANGED <<proc, tracked, calls, crashes, cut>>

(* Popen; it fails when the device has no process to give. *)
StartSpawn(t) ==
    /\ At(t, "s_spawn")
    /\ \/ \E b \in Fresh, p \in FreePids :
            /\ proc' = Born(b, p, "launcher", Daemon)
            /\ th' = [th EXCEPT ![t] = [th[t] EXCEPT !.pc = "s_register", !.me = b]]
       \/ /\ Fresh = {} \/ FreePids = {}
          /\ Finish(t)
          /\ UNCHANGED proc
    /\ UNCHANGED <<disk, tracked, calls, crashes, cut>>

StartRegister(t) ==
    /\ At(t, "s_register")
    /\ tracked' = th[t].me
    /\ Goto(t, "s_save")
    /\ UNCHANGED <<disk, proc, calls, crashes, cut>>

(* Save the running state; a save that raises ends the request.             *)
StartSave(t) ==
    /\ At(t, "s_save")
    /\ LET b == th[t].me IN
       \/ /\ disk' = [status |-> "running", main |-> b, launcher |-> b,
                      known |-> {b} \cap Up, exit |-> "0", auto |-> th[t].snap.auto]
          /\ Goto(t, "s_event")
          /\ UNCHANGED cut
       \/ /\ Finish(t)
          /\ cut' = cut \cup {b}
          /\ UNCHANGED disk
    /\ UNCHANGED <<proc, tracked, calls, crashes>>

(* The threads of launcher b begin: those of roles. *)
Begun(t, b, roles) ==
    [u \in Thread |->
       IF u = t THEN Idle
       ELSE IF u = <<"watch", b>> /\ "watch" \in roles THEN [Idle EXCEPT !.pc = "w_wait", !.me = b]
       ELSE IF u = <<"track", b>> /\ "track" \in roles THEN [Idle EXCEPT !.pc = "t_load", !.me = b]
       ELSE th[u]]

(* Regression: the watcher is not started when the process died at once. *)
StartThreadsNoWatcher(t) ==
    /\ At(t, "s_event")
    /\ LET b == th[t].me IN
       \E roles \in {{"track", "watch"} \ (IF b \in Up THEN {} ELSE {"watch"}), {"track"}, {}} :
          /\ th' = Begun(t, b, roles)
          /\ cut' = IF roles # {} THEN cut ELSE cut \cup {b}
    /\ UNCHANGED <<disk, proc, tracked, calls, crashes>>

(* Record the event, then start the tracker and the watcher.  An event log  *)
(* that cannot be written or a thread that cannot be made raises: what      *)
(* comes after it is not started.                                           *)
StartThreads(t) ==
    /\ At(t, "s_event")
    /\ LET b == th[t].me IN
       \E roles \in {{"track", "watch"}, {"track"}, {}} :
          /\ th' = Begun(t, b, roles)
          /\ cut' = IF "watch" \in roles THEN cut ELSE cut \cup {b}
    /\ UNCHANGED <<disk, proc, tracked, calls, crashes>>

-----------------------------------------------------------------------------
(* The watcher thread *)

(* Regression: the watcher polls once instead of waiting. *)
WatchPolls(t) ==
    /\ At(t, "w_wait")
    /\ proc' = Reaped(th[t].me)
    /\ Goto(t, "w_load")
    /\ UNCHANGED <<disk, tracked, calls, crashes, cut>>

WatchWait(t) ==
    /\ At(t, "w_wait")
    /\ th[t].me \notin Up
    /\ proc' = Reaped(th[t].me)
    /\ Goto(t, "w_load")
    /\ UNCHANGED <<disk, tracked, calls, crashes, cut>>

(* The load of the refresh it makes next. *)
WatchLoad(t) ==
    /\ At(t, "w_load")
    /\ IF disk = NoState THEN Goto(t, "w_pop") ELSE GotoWith(t, "w_refresh", disk)
    /\ UNCHANGED <<disk, proc, tracked, calls, crashes, cut>>

WatchRefresh(t) ==
    /\ At(t, "w_refresh")
    /\ disk' \in Refreshed(th[t].snap, {th[t].me})
    /\ Goto(t, "w_reload")
    /\ UNCHANGED <<proc, tracked, calls, crashes, cut>>

WatchReload(t) ==
    /\ At(t, "w_reload")
    /\ GotoWith(t, "w_verdict", IF disk = NoState THEN th[t].snap ELSE disk)
    /\ UNCHANGED <<disk, proc, tracked, calls, crashes, cut>>

WatchVerdict(t) ==
    /\ At(t, "w_verdict")
    /\ LET s == th[t].snap IN
       \/ /\ Live(s) # {}
          /\ \E b \in Preferred(s, Live(s)) : disk' = [RunningAs(s, b) EXCEPT !.exit = "0"]
          /\ GotoWith(t, "w_pop_same", NoState)
       \/ /\ Live(s) = {}
          /\ disk' = ExitedWith(s, proc[th[t].me].rc)
          /\ IF s.auto THEN th' = [th EXCEPT ![t] = [Idle EXCEPT !.pc = "i_load", !.op = "rmforce"]]
                           ELSE GotoWith(t, "w_pop", NoState)
    /\ UNCHANGED <<proc, tracked, calls, crashes, cut>>

WatchPopSame(t) ==
    /\ At(t, "w_pop_same")
    /\ tracked' = IF tracked = th[t].me THEN 0 ELSE tracked
    /\ Finish(t)
    /\ UNCHANGED <<disk, proc, calls, crashes, cut>>

WatchPop(t) ==
    /\ At(t, "w_pop")
    /\ tracked' = 0
    /\ Finish(t)
    /\ UNCHANGED <<disk, proc, calls, crashes, cut>>

-----------------------------------------------------------------------------
(* The process-tracker thread *)

TrackLoad(t) ==
    /\ At(t, "t_load")
    /\ IF disk = NoState THEN Finish(t) ELSE GotoWith(t, "t_save", disk)
    /\ UNCHANGED <<disk, proc, tracked, calls, crashes, cut>>

TrackSave(t) ==
    /\ At(t, "t_save")
    /\ disk' \in Refreshed(th[t].snap, {th[t].me})
    /\ th' = [th EXCEPT ![t] = [th[t] EXCEPT !.pc = "t_decide", !.snap = NoState,
                                  !.hit = Scanned(th[t].snap, {th[t].me}) # {}]]
    /\ UNCHANGED <<proc, tracked, calls, crashes, cut>>

(* Regression: the tracker takes one snapshot and ends. *)
TrackOnce(t) ==
    /\ At(t, "t_decide")
    /\ Finish(t)
    /\ UNCHANGED <<disk, proc, tracked, calls, crashes, cut>>

TrackDecide(t) ==
    /\ At(t, "t_decide")
    /\ IF \/ disk = NoState
          \/ ~th[t].hit /\ (disk.status # "running" \/ HoldersOf(PidsOf({th[t].me})) = {})
       THEN Finish(t) ELSE GotoWith(t, "t_load", NoState)
    /\ UNCHANGED <<disk, proc, tracked, calls, crashes, cut>>

-----------------------------------------------------------------------------
(* reconcile_container_state, run by ps, inspect and rm *)

(* A listing is answered, a removal goes on with the reconciled state. *)
Leave(t, s) == IF th[t].op = "ps" THEN Finish(t)
               ELSE th' = [th EXCEPT ![t] = [Idle EXCEPT !.pc = "r_check", !.op = th[t].op, !.snap = s]]

InspectLoad(t) ==
    /\ At(t, "i_load")
    /\ IF disk # NoState THEN GotoWith(t, "i_rec", disk)
       ELSE IF t \in Requests THEN Finish(t) ELSE Goto(t, "w_pop")
    /\ UNCHANGED <<disk, proc, tracked, calls, crashes, cut>>

(* Regression: what reconcile finds out is answered but not saved. *)
ReconcileDeadUnsaved(t) ==
    /\ At(t, "i_rec")
    /\ LET s == th[t].snap
           polled == s.status = "running" /\ tracked # 0
       IN /\ Live(s) = {}
          /\ ~(polled /\ tracked \in Up)
          /\ proc' = IF polled THEN Reaped(tracked) ELSE proc
          /\ Leave(t, ExitedWith(s, "255"))
    /\ UNCHANGED <<disk, tracked, calls, crashes, cut>>

(* Nothing recorded is alive: the state is closed, with the exit code it    *)
(* has or 255.                                                              *)
ReconcileDead(t) ==
    /\ At(t, "i_rec")
    /\ LET s == th[t].snap
           polled == s.status = "running" /\ tracked # 0
           closed == IF s.status # "running" THEN Cleared(s)
                     ELSE ExitedWith(s, IF s.exit = "0" THEN "255" ELSE s.exit)
       IN /\ Live(s) = {}
          /\ ~(polled /\ tracked \in Up)
          /\ proc' = IF polled THEN Reaped(tracked) ELSE proc
          /\ disk' = closed
          /\ Leave(t, closed)
    /\ UNCHANGED <<tracked, calls, crashes, cut>>

(* Running, and the Popen of running_containers says so too: no save. *)
ReconcileTracked(t) ==
    /\ At(t, "i_rec")
    /\ th[t].snap.status = "running" /\ tracked \in Up
    /\ Leave(t, th[t].snap)
    /\ UNCHANGED <<disk, proc, tracked, calls, crashes, cut>>

(* Something recorded is alive: refresh from it (a load, then a save). *)
ReconcileLive(t) ==
    /\ At(t, "i_rec")
    /\ LET s == th[t].snap
           polled == s.status = "running" /\ tracked # 0
       IN /\ Live(s) # {}
          /\ ~(polled /\ tracked \in Up)
          /\ proc' = IF polled THEN Reaped(tracked) ELSE proc
          /\ \E b \in Preferred(s, Live(s)) :
               th' = [th EXCEPT ![t] = [th[t] EXCEPT !.pc = "i_refresh", !.kept = s, !.me = b]]
    /\ UNCHANGED <<disk, tracked, calls, crashes, cut>>

ReconcileRefreshLoad(t) ==
    /\ At(t, "i_refresh")
    /\ IF disk = NoState THEN Goto(t, "i_reload") ELSE GotoWith(t, "i_save", disk)
    /\ UNCHANGED <<disk, proc, tracked, calls, crashes, cut>>

ReconcileRefreshSave(t) ==
    /\ At(t, "i_save")
    /\ disk' \in Refreshed(th[t].snap, {th[t].me})
    /\ Goto(t, "i_reload")
    /\ UNCHANGED <<proc, tracked, calls, crashes, cut>>

(* A state that already said running is answered as it was loaded; any      *)
(* other is loaded again, marked running and saved.                         *)
ReconcileReload(t) ==
    /\ At(t, "i_reload")
    /\ IF th[t].kept.status = "running" THEN Leave(t, th[t].kept)
       ELSE GotoWith(t, "i_adopt", IF disk = NoState THEN th[t].kept ELSE disk)
    /\ UNCHANGED <<disk, proc, tracked, calls, crashes, cut>>

ReconcileAdopt(t) ==
    /\ At(t, "i_adopt")
    /\ disk' = RunningAs(th[t].snap, th[t].me)
    /\ Leave(t, disk')
    /\ UNCHANGED <<proc, tracked, calls, crashes, cut>>

-----------------------------------------------------------------------------
(* stop_container *)

StopLookup(t) ==
    /\ At(t, "k_lookup")
    /\ th' = [th EXCEPT ![t] = [th[t] EXCEPT !.pc = "k_load", !.me = tracked]]
    /\ UNCHANGED <<disk, proc, tracked, calls, crashes, cut>>

StopLoad(t) ==
    /\ At(t, "k_load")
    /\ GotoWith(t, IF disk = NoState THEN "k_scan" ELSE "k_refresh", disk)
    /\ UNCHANGED <<disk, proc, tracked, calls, crashes, cut>>

StopRefresh(t) ==
    /\ At(t, "k_refresh")
    /\ disk' \in Refreshed(th[t].snap, {th[t].snap.main})
    /\ Goto(t, "k_reload")
    /\ UNCHANGED <<proc, tracked, calls, crashes, cut>>

StopReload(t) ==
    /\ At(t, "k_reload")
    /\ GotoWith(t, "k_scan", IF disk = NoState THEN th[t].snap ELSE disk)
    /\ UNCHANGED <<disk, proc, tracked, calls, crashes, cut>>

(* The pids to signal: from the state, the Popen and a scan of /proc. *)
StopScan(t) ==
    /\ At(t, "k_scan")
    /\ LET s == th[t].snap
           roots == PidsOf({th[t].me} \cup (IF s = NoState THEN {} ELSE {s.main}))
           cands == Candidates(s, IF s = NoState THEN PidsOf({th[t].me} \cap Up) ELSE roots)
           live == th[t].me \in Up \/ cands # {}
       IN th' = [th EXCEPT ![t] = [th[t] EXCEPT !.pc = IF live THEN "k_term" ELSE "k_late",
                                     !.pids = PidsOf(cands), !.hit = live]]
    /\ proc' = Reaped(th[t].me)
    /\ UNCHANGED <<disk, tracked, calls, crashes, cut>>

(* A signal to the pids of the scan, whoever holds them now, and to what a  *)
(* new scan finds: each may be gone of it when the wait ends, or not yet,   *)
(* or be a child forked while the signals went out.                         *)
Signalled(t) ==
    \E bs \in SUBSET Candidates(th[t].snap, th[t].pids) : proc' = Ended(bs, "sig")

(* SIGTERM *)
StopTerm(t) ==
    /\ At(t, "k_term")
    /\ Signalled(t)
    /\ Goto(t, "k_kill")
    /\ UNCHANGED <<disk, tracked, calls, crashes, cut>>

(* The timeout is over: SIGKILL to what is left.                            *)
StopKill(t) ==
    /\ At(t, "k_kill")
    /\ Signalled(t)
    /\ Goto(t, "k_late")
    /\ UNCHANGED <<disk, tracked, calls, crashes, cut>>

(* Processes that appeared since are scanned for and signalled as well. *)
StopLate(t) ==
    /\ At(t, "k_late")
    /\ IF th[t].snap = NoState THEN UNCHANGED proc ELSE Signalled(t)
    /\ Goto(t, IF th[t].snap = NoState THEN "k_pop" ELSE "k_list")
    /\ UNCHANGED <<disk, tracked, calls, crashes, cut>>

(* The last scan: the pids /proc lists now (old is history: who had been    *)
(* born by then).                                                           *)
StopList(t) ==
    /\ At(t, "k_list")
    /\ th' = [th EXCEPT ![t] = [th[t] EXCEPT !.pc = "k_verdict",
                                  !.seen = PidsOf(Candidates(th[t].snap, th[t].pids)),
                                  !.old = {b \in Births : proc[b].run # "none"}]]
    /\ UNCHANGED <<disk, proc, tracked, calls, crashes, cut>>

(* The identities of those that are still there are the survivors: they     *)
(* keep the container running.                                              *)
StopVerdict(t) ==
    /\ At(t, "k_verdict")
    /\ LET s == th[t].snap
           survivors == HoldersOf(th[t].seen)
       IN \/ \E b \in survivors : GotoWith(t, "k_save", [RunningAs(s, b) EXCEPT !.known = survivors])
          \/ /\ survivors = {}
             /\ GotoWith(t, "k_save", ExitedWith(s, IF th[t].hit /\ s.exit = "0" THEN "143" ELSE s.exit))
    /\ UNCHANGED <<disk, proc, tracked, calls, crashes, cut>>

(* Save the verdict; with survivors the request fails. *)
StopSave(t) ==
    /\ At(t, "k_save")
    /\ disk' = th[t].snap
    /\ IF th[t].snap.status # "running"
       THEN th' = [th EXCEPT ![t] = [Idle EXCEPT !.pc = "k_pop", !.op = th[t].op]]
       ELSE IF t \in Requests THEN Finish(t)
       ELSE th' = [th EXCEPT ![t] = [Idle EXCEPT !.pc = "w_pop"]]
    /\ UNCHANGED <<proc, tracked, calls, crashes, cut>>

StopPop(t) ==
    /\ At(t, "k_pop")
    /\ tracked' = 0
    /\ IF th[t].op = "stop" THEN Finish(t)
       ELSE th' = [th EXCEPT ![t] = [Idle EXCEPT !.pc = "r_delete"]]
    /\ UNCHANGED <<disk, proc, calls, crashes, cut>>

-----------------------------------------------------------------------------
(* remove_container, after it has loaded and reconciled the state; the      *)
(* prune route calls it with force on what it loaded as not running.        *)

PruneLoad(t) ==
    /\ At(t, "p_load")
    /\ IF disk = NoState \/ disk.status = "running" THEN Finish(t)
       ELSE th' = [th EXCEPT ![t] = [th[t] EXCEPT !.pc = "i_load", !.op = "rmforce"]]
    /\ UNCHANGED <<disk, proc, tracked, calls, crashes, cut>>

RemoveCheck(t) ==
    /\ At(t, "r_check")
    /\ LET busy == th[t].snap.status = "running" \/ Live(th[t].snap) # {} IN
       IF ~busy THEN GotoWith(t, "r_delete", NoState)
       ELSE IF th[t].op = "rmforce" THEN GotoWith(t, "k_lookup", NoState)
       ELSE IF t \in Requests THEN Finish(t) ELSE Goto(t, "w_pop")
    /\ UNCHANGED <<disk, proc, tracked, calls, crashes, cut>>

RemoveDelete(t) ==
    /\ At(t, "r_delete")
    /\ disk' = NoState
    /\ IF t \in Requests THEN Finish(t) ELSE Goto(t, "w_pop")
    /\ UNCHANGED <<proc, tracked, calls, crashes, cut>>

-----------------------------------------------------------------------------
(* A request arrives for a container find_container can still find. *)
Call(t, op) ==
    /\ At(t, "idle")
    /\ IF t \in Pollers THEN op = "ps" ELSE op \in Ops
    /\ disk # NoState
    /\ op = "ps" \/ calls < MaxCalls
    /\ calls' = IF op = "ps" THEN calls ELSE calls + 1
    /\ th' = [th EXCEPT ![t] = [Idle EXCEPT !.op = op,
                !.pc = CASE op = "start" -> "s_load" [] op = "stop" -> "k_lookup"
                         [] op = "prune" -> "p_load" [] OTHER -> "i_load"]]
    /\ UNCHANGED <<disk, proc, tracked, crashes, cut>>

(* The daemon is killed and started again: its memory is gone, its children *)
(* are reparented, and /proc still shows those that run.                    *)
DaemonRestart ==
    /\ crashes < MaxCrashes
    /\ crashes' = crashes + 1
    /\ tracked' = 0
    /\ th' = [t \in Thread |-> Idle]
    /\ proc' = [b \in Births |->
                  IF proc[b].parent # Daemon THEN proc[b]
                  ELSE [proc[b] EXCEPT !.parent = InitProc,
                                       !.run = IF @ = "zombie" THEN "gone" ELSE @]]
    /\ UNCHANGED <<disk, calls, cut>>

Start(t)   == StartLoad(t) \/ StartCheck(t) \/ StartSpawn(t) \/ StartRegister(t)
              \/ StartSave(t) \/ StartThreads(t)
Watch(t)   == \/ WatchWait(t) \/ WatchLoad(t) \/ WatchRefresh(t) \/ WatchReload(t)
              \/ WatchVerdict(t) \/ WatchPopSame(t) \/ WatchPop(t)
Track(t)   == TrackLoad(t) \/ TrackSave(t) \/ TrackDecide(t)
Inspect(t) == \/ InspectLoad(t) \/ ReconcileDead(t) \/ ReconcileTracked(t) \/ ReconcileLive(t)
              \/ ReconcileRefreshLoad(t) \/ ReconcileRefreshSave(t) \/ ReconcileReload(t)
              \/ ReconcileAdopt(t)
Stop(t)    == \/ StopLookup(t) \/ StopLoad(t) \/ StopRefresh(t) \/ StopReload(t) \/ StopScan(t)
              \/ StopTerm(t) \/ StopKill(t) \/ StopLate(t) \/ StopList(t)
              \/ StopVerdict(t) \/ StopSave(t) \/ StopPop(t)
Remove(t)  == PruneLoad(t) \/ RemoveCheck(t) \/ RemoveDelete(t)

Step(t) == Start(t) \/ Watch(t) \/ Track(t) \/ Inspect(t) \/ Stop(t) \/ Remove(t)

Next == \/ \E t \in Requests, op \in Ops \cup {"ps"} : Call(t, op)
        \/ \E t \in Thread : Step(t)
        \/ \E b \in Births : ProcExit(b) \/ SpawnWorkload(b)
        \/ SpawnForeign
        \/ DaemonRestart

Spec == Init /\ [][Next]_vars

(* Threads run, and the user interface keeps polling the container list. *)
PolledSpec == /\ Spec
              /\ \A t \in Thread : WF_vars(Step(t))
              /\ \A t \in Pollers : WF_vars(Call(t, "ps"))

-----------------------------------------------------------------------------
States == [status : {"created", "running", "exited"}, main : 0..MaxBirth,
           launcher : 0..MaxBirth, known : SUBSET Births,
           exit : {"0", "126", "143", "255", "own", "sig"}, auto : BOOLEAN]

Pcs == {"idle", "s_load", "s_check", "s_spawn", "s_register", "s_save", "s_event",
        "w_wait", "w_load", "w_refresh", "w_reload", "w_verdict", "w_pop_same", "w_pop",
        "t_load", "t_save", "t_decide",
        "i_load", "i_rec", "i_refresh", "i_save", "i_reload", "i_adopt",
        "k_lookup", "k_load", "k_refresh", "k_reload", "k_scan", "k_term", "k_kill",
        "k_late", "k_list", "k_verdict", "k_save", "k_pop", "p_load", "r_check", "r_delete"}

(* Types of the stored state, the process table and the threads. *)
TypeOK ==
    /\ disk \in States \cup {NoState}
    /\ proc \in [Births -> [pid : Pids \cup {0}, parent : 0..InitProc,
                            kind : {"none", "launcher", "workload", "foreign"},
                            run : {"none", "up", "zombie", "gone"},
                            rc : {"none", "own", "sig"}]]
    /\ tracked \in 0..MaxBirth
    /\ th \in [Thread -> [pc : Pcs, op : Ops \cup {"none", "rmforce", "ps"},
                          snap : States \cup {NoState}, kept : States \cup {NoState},
                          me : 0..MaxBirth, pids : SUBSET (Pids \cup {0}), seen : SUBSET (Pids \cup {0}),
                          old : SUBSET Births, hit : BOOLEAN]]
    /\ calls \in 0..MaxCalls /\ crashes \in 0..MaxCrashes /\ cut \subseteq Births

(* The daemon never forgets a child whose start went through: every         *)
(* launcher it started and did not reap is in the hands of the request that *)
(* is starting it or of its own watcher thread.  A start that raises after  *)
(* Popen leaves its launcher to no thread.                                  *)
NoForgottenChild ==
    \A b \in Births :
       (proc[b].kind = "launcher" /\ proc[b].parent = Daemon /\ proc[b].run \in {"up", "zombie"}) =>
          \/ \E t \in Callers : th[t].pc \in {"s_register", "s_save", "s_event"} /\ th[t].me = b
          \/ th[<<"watch", b>>].pc = "w_wait" /\ th[<<"watch", b>>].me = b
          \/ b \in cut

(* "Container teardown therefore cannot trust only State.Pid": when a stop  *)
(* records that it left no orphan and goes on, no process of the container  *)
(* that had been born at its last listing of /proc is alive, recorded or    *)
(* not, whatever forked, exited and started between its scans, its signals  *)
(* and its save.                                                            *)
StopLeavesNobody ==
    [][\A t \in Thread : (th[t].pc = "k_save" /\ th'[t].pc = "k_pop") => Own' \cap th[t].old = {}]_vars

Stored(b) == disk # NoState /\ b \in Entries(disk)
Running   == disk # NoState /\ disk.status = "running"

(* The tracker repairs what other threads' stale saves dropped: as long as   *)
(* the container is not removed, a launcher whose start went through and     *)
(* that stays alive is recorded again and again.  (Not for good: a listing  *)
(* that keeps step with the tracker can save an older state after each of   *)
(* its saves.)                                                              *)
LauncherUp(b) == b \in Up /\ proc[b].kind = "launcher"

LiveIsRecorded ==
    [](disk # NoState) => \A b \in Births : <>[](LauncherUp(b) /\ b \notin cut) => []<>Stored(b)

(* Once every process of the container is dead for good, polling brings the *)
(* stored state to not running, and no late save brings running back.       *)
DeadIsNoticed == <>[](Own = {}) => <>[](~Running)

(* "Docker-visible state must follow the live workload, not only the        *)
(* original Popen PID": with nothing left to happen in the daemon, a        *)
(* container with a live process is shown as running, as long as no start   *)
(* of it raised after Popen.                                                *)
Quiet == \A t \in Thread : th[t].pc = "idle"

WorkloadVisible == (Quiet /\ disk # NoState /\ Own # {} /\ cut = {}) => Running

(* "Track process groups, exit codes, waits": once the daemon is quiet, a   *)
(* container shown as exited, whose launcher ended by itself and was reaped *)
(* by its watcher, shows the code the watcher was given.                    *)
ExitCodeKept ==
    (/\ Quiet /\ disk # NoState /\ disk.status = "exited"
     /\ \E b \in Births : proc[b].kind = "launcher" /\ proc[b].run = "gone" /\ proc[b].rc = "own")
      => disk.exit = "own"

(* "container start reconciles verified live pid without double-starting":  *)
(* the container never has two launchers.                                   *)
NoDoubleStart == Cardinality({b \in Up : proc[b].kind = "launcher"}) <= 1

==============================================================================
