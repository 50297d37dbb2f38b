----------------------- MODULE ContainerLifecycleProofs -----------------------
(***************************************************************************)
(* What holds of the container lifecycle for any number of requests,       *)
(* processes, pids and crashes: its types, that the daemon never forgets a *)
(* child it has not reaped, and that a stop which reports success leaves   *)
(* no process of the container.                                            *)
(*                                                                         *)
(* The inductive invariant says what each program point relies on: which   *)
(* threads may stand there, whether the loaded state is one, and how far   *)
(* the process it is about has got in its life.                            *)
(***************************************************************************)
EXTENDS ContainerLifecycle, TLAPS

StartPcs == {"s_load", "s_check", "s_spawn", "s_register", "s_save", "s_event"}
SnapPcs  == {"s_check", "s_spawn", "s_register", "s_save", "w_refresh", "w_reload", "w_verdict",
             "t_save", "i_rec", "i_save", "i_adopt", "k_refresh", "k_reload", "k_list", "k_verdict",
             "k_save", "r_check"}
KeptPcs  == {"i_refresh", "i_save", "i_reload", "i_adopt"}
BornPcs  == {"s_register", "s_save", "s_event", "w_wait"}
DeadPcs  == {"w_load", "w_refresh", "w_reload", "w_verdict"}

Process == [pid : Pids \cup {0}, parent : 0..InitProc,
            kind : {"none", "launcher", "workload", "foreign"},
            run : {"none", "up", "zombie", "gone"}, rc : {"none", "own", "sig"}]
Locals  == [pc : Pcs, op : Ops \cup {"none", "rmforce", "ps"},
            snap : States \cup {NoState}, kept : States \cup {NoState},
            me : 0..MaxBirth, pids : SUBSET (Pids \cup {0}), seen : SUBSET (Pids \cup {0}),
            old : SUBSET Births, hit : BOOLEAN]

(* Process b of the table p is alive and the container's. *)
Alive(p, b) == p[b].run = "up" /\ p[b].kind \in {"launcher", "workload"}

(* What a thread t with the locals r relies on, in the process table p: a  *)
(* stop that has listed /proc has every process of the container that had  *)
(* been born by then in its list as long as it lives, and once it found    *)
(* none of the listed pids alive, none of those processes is.              *)
Fits(p, t, r) ==
    /\ r \in Locals
    /\ r.pc \in StartPcs => t \in Callers
    /\ r.pc \in SnapPcs => r.snap \in States
    /\ r.pc = "k_list" => r.snap # NoState
    /\ r.pc \in KeptPcs => r.kept \in States
    /\ r.pc \in BornPcs => r.me \in Births /\ p[r.me].run # "none"
    /\ r.pc \in DeadPcs => r.me \in Births /\ p[r.me].run \in {"zombie", "gone"}
    /\ r.pc = "k_verdict" =>
         \A b \in r.old : p[b].run # "none" /\ (Alive(p, b) => p[b].pid \in r.seen)
    /\ r.pc = "k_save" /\ r.snap.status # "running" =>
         \A b \in r.old : p[b].run # "none" /\ ~Alive(p, b)

ProcTyped(p) == /\ p \in [Births -> Process]
                /\ \A b \in Births : p[b].run \in {"zombie", "gone"} => p[b].rc \in {"own", "sig"}

(* A child of the daemon it has not reaped, and who is in charge of it. *)
Child(p, b) == /\ p[b].kind = "launcher" /\ p[b].parent = Daemon
               /\ p[b].run \in {"up", "zombie"}
InCharge(b) == \/ \E t \in Callers : th[t].pc \in {"s_register", "s_save", "s_event"} /\ th[t].me = b
               \/ th[<<"watch", b>>].pc = "w_wait" /\ th[<<"watch", b>>].me = b
               \/ b \in cut

ThreadsFit == /\ th \in [Thread -> Locals]
              /\ \A t \in Thread : Fits(proc, t, th[t])
DataFits   == /\ disk \in States \cup {NoState}
              /\ tracked \in 0..MaxBirth
              /\ ProcTyped(proc)
Counted    == calls \in 0..MaxCalls /\ crashes \in 0..MaxCrashes /\ cut \subseteq Births
AllInHand  == \A b \in Births : Child(proc, b) => InCharge(b)

IInv == ThreadsFit /\ DataFits /\ Counted /\ AllInHand

-----------------------------------------------------------------------------
(* The stored state *)

(* What the helpers make of a stored state is one. *)
LEMMA StateTypes ==
    ASSUME NEW s \in States
    PROVE  /\ \A b \in 0..MaxBirth : /\ RunningAs(s, b) \in States
                                     /\ [RunningAs(s, b) EXCEPT !.exit = "0"] \in States
           /\ \A b \in 0..MaxBirth, L \in SUBSET Births : [RunningAs(s, b) EXCEPT !.known = L] \in States
           /\ Cleared(s) \in States
           /\ \A x \in {"0", "126", "143", "255", "own", "sig"} : ExitedWith(s, x) \in States
           /\ s.exit \in {"0", "126", "143", "255", "own", "sig"}
<1>0. 0 \in 0..MaxBirth /\ {} \in SUBSET Births
  BY LifecycleAssumption
<1>1. \A b \in 0..MaxBirth : RunningAs(s, b) \in States
  BY DEF States, RunningAs
<1>2. \A z \in States : [z EXCEPT !.exit = "0"] \in States
  BY DEF States
<1>3. \A z \in States, L \in SUBSET Births : [z EXCEPT !.known = L] \in States
  BY DEF States
<1>4. Cleared(s) \in States
  BY <1>0 DEF States, Cleared
<1>5. \A z \in States, x \in {"0", "126", "143", "255", "own", "sig"} :
        [z EXCEPT !.status = "exited", !.exit = x] \in States
  BY DEF States
<1>6. s.exit \in {"0", "126", "143", "255", "own", "sig"}
  BY DEF States
<1>. QED BY <1>1, <1>2, <1>3, <1>4, <1>5, <1>6 DEF ExitedWith

(* A birth can be stored. *)
LEMMA BirthTypes == Births \subseteq 0..MaxBirth /\ 0 \in 0..MaxBirth /\ InitProc \in 0..InitProc
                    /\ Daemon \in 0..InitProc /\ Births \subseteq 0..InitProc
                    /\ Daemon \notin Births /\ Daemon # InitProc
BY LifecycleAssumption DEF Births, InitProc, Daemon

(* The live entries and the candidates are births. *)
LEMMA LiveTypes == /\ Up \subseteq Births
                   /\ \A s : Live(s) \subseteq Births
                   /\ \A s, L : Preferred(s, L) \subseteq L
                   /\ \A s, x : Scanned(s, x) \subseteq Births
                   /\ \A s, x : Candidates(s, x) \subseteq Births
BY DEF Up, Live, Preferred, Scanned, Candidates, HoldersOf, Descendants, Own

(* A refresh saves a state. *)
LEMMA RefreshedType == ASSUME NEW s \in States, NEW x PROVE Refreshed(s, x) \subseteq States
<1>1. \A L \in SUBSET Births, m \in 0..MaxBirth : [s EXCEPT !.known = L, !.main = m] \in States
  BY DEF States
<1>2. Scanned(s, x) \subseteq Births /\ s.main \in 0..MaxBirth
  BY LiveTypes DEF States
<1>3. Preferred(s, Scanned(s, x)) \subseteq 0..MaxBirth
  BY <1>2, LiveTypes, BirthTypes
<1> DEFINE M == IF Scanned(s, x) = {} THEN {s.main} ELSE Preferred(s, Scanned(s, x))
<1>4. M \subseteq 0..MaxBirth
  BY <1>2, <1>3
<1>5. Refreshed(s, x) = {[s EXCEPT !.known = Scanned(s, x), !.main = m] : m \in M}
  BY DEF Refreshed
<1>6. \A m \in M : [s EXCEPT !.known = Scanned(s, x), !.main = m] \in States
  BY <1>1, <1>2, <1>4
<1>. HIDE DEF M
<1>. QED BY <1>5, <1>6

(* The pids of processes are pids. *)
LEMMA PidTypes == ASSUME ProcTyped(proc), NEW bs PROVE PidsOf(bs) \subseteq Pids \cup {0}
BY DEF ProcTyped, Process, PidsOf

-----------------------------------------------------------------------------
(* The process table *)

(* Processes only get older, keep their pid and kind, and no child of the daemon comes out of nothing. *)
Ages(q) == \A b \in Births :
    /\ proc[b].run # "none" => q[b].run # "none"
    /\ proc[b].run \in {"zombie", "gone"} => q[b].run \in {"zombie", "gone"}
    /\ proc[b].run # "none" => /\ q[b].pid = proc[b].pid /\ q[b].kind = proc[b].kind
                               /\ q[b].run = "up" => proc[b].run = "up"
Good(q) == ProcTyped(q) /\ Ages(q) /\ \A b \in Births : Child(q, b) => Child(proc, b)

(* A process table that does not change. *)
LEMMA SameGood == ASSUME ProcTyped(proc) PROVE Good(proc)
BY DEF Good, Ages

(* The death of processes. *)
LEMMA EndedGood == ASSUME ProcTyped(proc), NEW bs, NEW rc \in {"own", "sig"} PROVE Good(Ended(bs, rc))
<1> DEFINE q == Ended(bs, rc)
<1>1. \A b \in Births :
        q[b] = proc[b]
        \/ /\ proc[b].run = "up" /\ q[b].run \in {"zombie", "gone"} /\ q[b].rc = rc
           /\ q[b].kind = proc[b].kind /\ q[b].pid = proc[b].pid
           /\ q[b].parent = proc[b].parent /\ q[b] \in Process
  BY DEF Ended, ProcTyped, Process, Up
<1>2. q \in [Births -> Process]
  BY <1>1 DEF Ended, ProcTyped
<1>. HIDE DEF q
<1>3. Good(q)
  BY <1>1, <1>2 DEF Good, ProcTyped, Ages, Child
<1>. QED BY <1>3 DEF q

(* A wait for a child. *)
LEMMA ReapedGood ==
    ASSUME ProcTyped(proc), NEW b
    PROVE  Good(Reaped(b)) /\ (b \in Births /\ b \notin Up => ~Child(Reaped(b), b))
<1> DEFINE q == Reaped(b)
<1>1. \A x \in Births :
        q[x] = proc[x]
        \/ /\ x = b /\ proc[x].run = "zombie" /\ q[x].run = "gone" /\ q[x].rc = proc[x].rc
           /\ q[x].kind = proc[x].kind /\ q[x].pid = proc[x].pid
           /\ q[x].parent = proc[x].parent /\ q[x] \in Process
  BY DEF Reaped, ProcTyped, Process
<1>2. q \in [Births -> Process]
  BY <1>1 DEF Reaped, ProcTyped
<1>3. b \in Births /\ b \notin Up => q[b].run \notin {"up", "zombie"}
  BY DEF Reaped, ProcTyped, Process, Up
<1>. HIDE DEF q
<1>4. Good(q)
  BY <1>1, <1>2 DEF Good, ProcTyped, Ages, Child
<1>5. b \in Births /\ b \notin Up => ~Child(q, b)
  BY <1>3 DEF Child
<1>. QED BY <1>4, <1>5 DEF q

(* A birth. *)
LEMMA BornGood ==
    ASSUME ProcTyped(proc), NEW b \in Fresh, NEW p \in FreePids,
           NEW k \in {"launcher", "workload", "foreign"}, NEW parent \in 0..InitProc
    PROVE  /\ b \in Births /\ ProcTyped(Born(b, p, k, parent)) /\ Ages(Born(b, p, k, parent))
           /\ Born(b, p, k, parent)[b].run = "up"
           /\ \A x \in Births \ {b} : Born(b, p, k, parent)[x] = proc[x]
           /\ k # "launcher" => Good(Born(b, p, k, parent))
<1> DEFINE q == Born(b, p, k, parent)
<1>1. b \in Births /\ proc[b].run = "none" /\ p \in Pids
  BY DEF Fresh, FreePids
<1>2. q[b] \in Process /\ q[b].run = "up" /\ q[b].kind = k
  BY <1>1 DEF Born, ProcTyped, Process
<1>3. \A x \in Births \ {b} : q[x] = proc[x]
  BY <1>1 DEF Born, ProcTyped
<1>4. q \in [Births -> Process]
  BY <1>1, <1>2 DEF Born, ProcTyped
<1>. HIDE DEF q
<1>5. ProcTyped(q)
  BY <1>1, <1>2, <1>3, <1>4 DEF ProcTyped
<1>6. Ages(q)
  BY <1>1, <1>2, <1>3 DEF Ages
<1>7. k # "launcher" => Good(q)
  BY <1>1, <1>2, <1>3, <1>5, <1>6 DEF Good, Child
<1>. QED BY <1>1, <1>2, <1>3, <1>5, <1>6, <1>7 DEF q

-----------------------------------------------------------------------------
(* The steps of a thread *)

(* The watcher and the tracker of a process are threads, and no requests. *)
LEMMA OwnThreads ==
    /\ \A b \in Births : /\ <<"watch", b>> \in Thread /\ <<"track", b>> \in Thread
                         /\ <<"watch", b>> \notin Requests /\ <<"track", b>> \notin Requests
    /\ \A b, c : <<"watch", b>> # <<"track", c>> /\ (<<"watch", b>> = <<"watch", c>> => b = c)
    /\ Requests \subseteq Thread /\ Callers \subseteq Requests
BY LifecycleAssumption DEF Thread, Requests

(* A thread between requests relies on nothing. *)
LEMMA IdleFits == ASSUME NEW p, NEW t PROVE Fits(p, t, Idle)
BY BirthTypes DEF Fits, Idle, Locals, Pcs, StartPcs, SnapPcs, KeptPcs, BornPcs, DeadPcs

(* Threads stay fit when one of them moves to locals that fit. *)
LEMMA ThreadStep ==
    ASSUME ThreadsFit, Ages(proc'), NEW t \in Thread, NEW r, Fits(proc', t, r),
           th' = [th EXCEPT ![t] = r]
    PROVE  ThreadsFit'
<1>1. \A u \in Thread : Fits(proc', u, th[u])
  BY DEF ThreadsFit, Fits, Ages, Alive, Locals
<1>2. \A u \in Thread : Fits(proc', u, th'[u])
  BY <1>1 DEF ThreadsFit
<1>3. th' \in [Thread -> Locals]
  BY DEF ThreadsFit, Fits
<1>. QED BY <1>2, <1>3 DEF ThreadsFit

(* A thread in charge of no process moves. *)
LEMMA QuietStep ==
    ASSUME IInv, NEW t \in Thread, th[t].pc \notin BornPcs, NEW r, Fits(proc', t, r),
           th' = [th EXCEPT ![t] = r], Good(proc'),
           disk' \in States \cup {NoState}, tracked' \in 0..MaxBirth, UNCHANGED <<calls, crashes, cut>>
    PROVE  IInv'
<1>1. ThreadsFit'
  BY ThreadStep DEF IInv, Good
<1>2. \A u \in Thread \ {t} : th'[u] = th[u]
  BY DEF IInv, ThreadsFit
<1>3. \A b \in Births : InCharge(b) => InCharge(b)'
  BY <1>2, OwnThreads DEF InCharge, BornPcs
<1>4. AllInHand'
  BY <1>3 DEF AllInHand, IInv, Good
<1>. QED BY <1>1, <1>4 DEF IInv, DataFits, Counted, Good

(* The program point p asks for no more than the one thread t is at. *)
NoMore(t, p) == /\ p \in Pcs /\ p \notin {"k_list", "k_verdict", "k_save"}
                /\ th[t].pc \notin BornPcs /\ p \notin BornPcs
                /\ \A S \in {StartPcs, SnapPcs, KeptPcs, DeadPcs} : p \in S => th[t].pc \in S

(* It goes on to another program point. *)
LEMMA GotoStep ==
    ASSUME IInv, NEW t \in Thread, NEW p, NoMore(t, p), Goto(t, p), Good(proc'),
           disk' \in States \cup {NoState}, tracked' \in 0..MaxBirth, UNCHANGED <<calls, crashes, cut>>
    PROVE  IInv'
<1> DEFINE r == [th[t] EXCEPT !.pc = p]
<1>1. Fits(proc, t, th[t])
  BY DEF IInv, ThreadsFit
<1>2. /\ r \in Locals /\ r.pc = p /\ r.snap = th[t].snap /\ r.kept = th[t].kept /\ r.me = th[t].me
  BY <1>1 DEF Fits, Locals, NoMore
<1>3. th' = [th EXCEPT ![t] = r]
  BY DEF Goto, IInv, ThreadsFit
<1>. HIDE DEF r
<1>4. Fits(proc', t, r)
  BY <1>1, <1>2 DEF Fits, NoMore, Good, Ages, Alive
<1>. QED BY <1>3, <1>4, QuietStep DEF NoMore

(* Neither does p, when the loaded state becomes s. *)
NoMoreWith(t, p, s) ==
    /\ p \in Pcs \ {"k_verdict", "k_save"} /\ th[t].pc \notin BornPcs /\ p \notin BornPcs
    /\ \A S \in {StartPcs, KeptPcs, DeadPcs} : p \in S => th[t].pc \in S
    /\ s \in States \cup {NoState}
    /\ p \in SnapPcs => s \in States
    /\ p = "k_list" => s # NoState

(* It goes on with another loaded state. *)
LEMMA LoadStep ==
    ASSUME IInv, NEW t \in Thread, NEW p, NEW s, NoMoreWith(t, p, s), GotoWith(t, p, s), Good(proc'),
           disk' \in States \cup {NoState}, tracked' \in 0..MaxBirth, UNCHANGED <<calls, crashes, cut>>
    PROVE  IInv'
<1> DEFINE r == [th[t] EXCEPT !.pc = p, !.snap = s]
<1>1. Fits(proc, t, th[t])
  BY DEF IInv, ThreadsFit
<1>2. /\ r \in Locals /\ r.pc = p /\ r.snap = s /\ r.kept = th[t].kept /\ r.me = th[t].me
  BY <1>1 DEF Fits, Locals, NoMoreWith
<1>3. th' = [th EXCEPT ![t] = r]
  BY DEF GotoWith
<1>. HIDE DEF r
<1>4. Fits(proc', t, r)
  BY <1>1, <1>2 DEF Fits, NoMoreWith, Good, Ages, Alive
<1>. QED BY <1>3, <1>4, QuietStep DEF NoMoreWith

(* It ends. *)
LEMMA FinishStep ==
    ASSUME IInv, NEW t \in Thread, th[t].pc \notin BornPcs, Finish(t), Good(proc'),
           disk' \in States \cup {NoState}, tracked' \in 0..MaxBirth, UNCHANGED <<calls, crashes, cut>>
    PROVE  IInv'
BY IdleFits, QuietStep DEF Finish

(* What an action may use of the invariant. *)
LEMMA Held ==
    ASSUME IInv, NEW t \in Thread
    PROVE  /\ Fits(proc, t, th[t]) /\ th[t] \in Locals
           /\ disk \in States \cup {NoState} /\ tracked \in 0..MaxBirth
           /\ ProcTyped(proc) /\ Good(proc)
BY SameGood DEF IInv, ThreadsFit, DataFits, Fits

-----------------------------------------------------------------------------
(* Every action keeps the invariant. *)

(* start_container *)
LEMMA StartKeeps == ASSUME IInv, NEW t \in Thread, Start(t) PROVE IInv'
<1>0. /\ Fits(proc, t, th[t]) /\ th[t] \in Locals
      /\ disk \in States \cup {NoState} /\ tracked \in 0..MaxBirth
      /\ ProcTyped(proc) /\ Good(proc)
  BY Held
<1>1. CASE StartLoad(t)
  <2>1. disk # NoState => NoMoreWith(t, "s_check", disk)
    BY <1>0, <1>1 DEF StartLoad, At, NoMoreWith, Pcs, StartPcs, SnapPcs, KeptPcs, BornPcs, DeadPcs
  <2>2. th[t].pc \notin BornPcs
    BY <1>1 DEF StartLoad, At, BornPcs
  <2>3. Good(proc') /\ disk' \in States \cup {NoState} /\ tracked' \in 0..MaxBirth
    BY <1>0, <1>1 DEF StartLoad
  <2>4. CASE disk = NoState
    BY <1>1, <2>2, <2>3, <2>4, FinishStep DEF StartLoad
  <2>5. CASE disk # NoState
    BY <1>1, <2>1, <2>3, <2>5, LoadStep DEF StartLoad
  <2>. QED BY <2>4, <2>5
<1>2. CASE StartCheck(t)
  <2> DEFINE s == th[t].snap
  <2>1. s \in States /\ th[t].pc \notin BornPcs
    BY <1>0, <1>2 DEF StartCheck, At, Fits, SnapPcs, BornPcs
  <2>2. Good(proc') /\ tracked' \in 0..MaxBirth /\ UNCHANGED <<calls, crashes, cut>>
    BY <1>0, <1>2 DEF StartCheck
  <2>3. \A b \in Preferred(s, Live(s)) : [RunningAs(s, b) EXCEPT !.exit = "0"] \in States
    BY <2>1, StateTypes, LiveTypes, BirthTypes
  <2>4. [s EXCEPT !.status = "exited", !.main = 0, !.exit = "126"] \in States
    BY <2>1, BirthTypes DEF States
  <2>5. disk' \in States \cup {NoState}
    BY <1>0, <1>2, <2>1, <2>3, <2>4 DEF StartCheck
  <2>6. CASE Finish(t)
    BY <2>1, <2>2, <2>5, <2>6, FinishStep
  <2>7. CASE Goto(t, "s_spawn")
    <3>1. NoMore(t, "s_spawn")
      BY <1>2 DEF StartCheck, At, NoMore, Pcs, StartPcs, SnapPcs, KeptPcs, BornPcs, DeadPcs
    <3>. QED BY <2>2, <2>5, <2>7, <3>1, GotoStep
  <2>. QED BY <1>2, <2>6, <2>7 DEF StartCheck
<1>3. CASE StartSpawn(t)
  <2>1. th[t].pc = "s_spawn" /\ th[t].pc \notin BornPcs /\ t \in Callers /\ th[t].snap \in States
    BY <1>0, <1>3 DEF StartSpawn, At, BornPcs, Fits, StartPcs, SnapPcs
  <2>2. CASE Finish(t) /\ UNCHANGED proc
    BY <1>0, <1>3, <2>1, <2>2, FinishStep DEF StartSpawn
  <2>3. ASSUME NEW b \in Fresh, NEW p \in FreePids, proc' = Born(b, p, "launcher", Daemon),
               th' = [th EXCEPT ![t] = [th[t] EXCEPT !.pc = "s_register", !.me = b]]
        PROVE  IInv'
    <3> DEFINE r == [th[t] EXCEPT !.pc = "s_register", !.me = b]
    <3>1. /\ b \in Births /\ ProcTyped(proc') /\ Ages(proc') /\ proc'[b].run = "up"
          /\ \A x \in Births \ {b} : proc'[x] = proc[x]
      BY <1>0, <2>3, BornGood, BirthTypes
    <3>2. r \in Locals /\ r.pc = "s_register" /\ r.me = b /\ r.snap = th[t].snap
      BY <1>0, <3>1, BirthTypes DEF Locals, Pcs
    <3>. HIDE DEF r
    <3>3. Fits(proc', t, r)
      BY <2>1, <3>1, <3>2 DEF Fits, StartPcs, SnapPcs, KeptPcs, BornPcs, DeadPcs
    <3>4. th' = [th EXCEPT ![t] = r]
      BY <2>3 DEF r
    <3>5. ThreadsFit'
      BY <3>1, <3>3, <3>4, ThreadStep DEF IInv
    <3>6. (\A u \in Thread \ {t} : th'[u] = th[u]) /\ th'[t] = r
      BY <3>4 DEF IInv, ThreadsFit
    <3>7. \A x \in Births : InCharge(x) => InCharge(x)'
      BY <1>3, <2>1, <3>6, OwnThreads DEF InCharge, StartSpawn
    <3>8. InCharge(b)'
      BY <2>1, <3>2, <3>6 DEF InCharge
    <3>9. AllInHand'
      BY <3>1, <3>7, <3>8 DEF AllInHand, IInv, Child
    <3>. QED BY <1>3, <3>1, <3>5, <3>9 DEF StartSpawn, IInv, DataFits, Counted
  <2>. QED BY <1>3, <2>2, <2>3 DEF StartSpawn
<1>4. CASE StartRegister(t)
  <2> DEFINE r == [th[t] EXCEPT !.pc = "s_save"]
  <2>1. /\ th[t].pc = "s_register" /\ t \in Callers /\ th[t].snap \in States
        /\ th[t].me \in Births /\ proc[th[t].me].run # "none"
    BY <1>0, <1>4 DEF StartRegister, At, Fits, StartPcs, SnapPcs, BornPcs
  <2>2. r \in Locals /\ r.pc = "s_save" /\ r.me = th[t].me /\ r.snap = th[t].snap
    BY <1>0 DEF Locals, Pcs
  <2>3. th' = [th EXCEPT ![t] = r]
    BY <1>4 DEF StartRegister, Goto, IInv, ThreadsFit
  <2>. HIDE DEF r
  <2>4. Fits(proc', t, r)
    BY <1>4, <2>1, <2>2 DEF StartRegister, Fits, StartPcs, SnapPcs, KeptPcs, BornPcs, DeadPcs
  <2>5. ThreadsFit'
    BY <1>0, <1>4, <2>3, <2>4, ThreadStep DEF StartRegister, IInv, Good
  <2>6. (\A u \in Thread \ {t} : th'[u] = th[u]) /\ th'[t] = r
    BY <2>3 DEF IInv, ThreadsFit
  <2>7. \A x \in Births : InCharge(x) => InCharge(x)'
    BY <1>4, <2>1, <2>2, <2>6, OwnThreads DEF InCharge, StartRegister
  <2>8. AllInHand'
    BY <1>4, <2>7 DEF AllInHand, IInv, StartRegister
  <2>. QED BY <1>4, <2>1, <2>5, <2>8, BirthTypes DEF StartRegister, IInv, DataFits, Counted
<1>5. CASE StartSave(t)
  <2>0. PICK b : b = th[t].me
    OBVIOUS
  <2> DEFINE new == [status |-> "running", main |-> b, launcher |-> b,
                     known |-> {b} \cap Up, exit |-> "0", auto |-> th[t].snap.auto]
             r == [th[t] EXCEPT !.pc = "s_event"]
  <2>1. /\ th[t].pc = "s_save" /\ t \in Callers /\ th[t].snap \in States
        /\ b \in Births /\ proc[b].run # "none"
    BY <1>0, <1>5, <2>0 DEF StartSave, At, Fits, StartPcs, SnapPcs, BornPcs
  <2>2. new \in States
    BY <2>1, BirthTypes DEF States
  <2>3. r \in Locals /\ r.pc = "s_event" /\ r.me = b
    BY <1>0, <2>0 DEF Locals, Pcs
  <2>. HIDE DEF r, new
  <2>4. Fits(proc, t, r)
    BY <2>1, <2>3 DEF Fits, StartPcs, SnapPcs, KeptPcs, BornPcs, DeadPcs
  <2>5. ASSUME disk' = new, th' = [th EXCEPT ![t] = r], UNCHANGED <<proc, tracked, calls, crashes, cut>>
        PROVE  IInv'
    <3>1. ThreadsFit'
      BY <1>0, <2>4, <2>5, ThreadStep DEF IInv, Good
    <3>2. (\A u \in Thread \ {t} : th'[u] = th[u]) /\ th'[t] = r
      BY <2>5 DEF IInv, ThreadsFit
    <3>3. \A x \in Births : InCharge(x) => InCharge(x)'
      BY <2>0, <2>1, <2>3, <2>5, <3>2, OwnThreads DEF InCharge
    <3>4. AllInHand'
      BY <2>5, <3>3 DEF AllInHand, IInv
    <3>. QED BY <2>2, <2>5, <3>1, <3>4 DEF IInv, DataFits, Counted
  <2>6. ASSUME Finish(t), cut' = cut \cup {b}, UNCHANGED <<disk, proc, tracked, calls, crashes>>
        PROVE  IInv'
    <3>1. ThreadsFit'
      BY <1>0, <2>6, IdleFits, ThreadStep DEF Finish, IInv, Good
    <3>2. \A u \in Thread \ {t} : th'[u] = th[u]
      BY <2>6 DEF Finish, IInv, ThreadsFit
    <3>3. \A x \in Births : InCharge(x) => InCharge(x)'
      BY <2>0, <2>1, <2>6, <3>2, OwnThreads DEF InCharge
    <3>4. AllInHand'
      BY <2>6, <3>3 DEF AllInHand, IInv
    <3>. QED BY <2>1, <2>6, <3>1, <3>4 DEF IInv, DataFits, Counted
  <2>7. CASE disk' = new /\ Goto(t, "s_event") /\ UNCHANGED cut
    <3>1. th' = [th EXCEPT ![t] = r]
      BY <2>7 DEF Goto, IInv, ThreadsFit, r
    <3>. QED BY <1>5, <2>5, <2>7, <3>1 DEF StartSave
  <2>8. CASE Finish(t) /\ cut' = cut \cup {b} /\ UNCHANGED disk
    BY <1>5, <2>6, <2>8 DEF StartSave
  <2>. QED BY <1>5, <2>0, <2>7, <2>8 DEF StartSave, new
<1>6. CASE StartThreads(t)
  <2>0. PICK b : b = th[t].me
    OBVIOUS
  <2> DEFINE w == [Idle EXCEPT !.pc = "w_wait", !.me = b]
             k == [Idle EXCEPT !.pc = "t_load", !.me = b]
  <2>1. /\ th[t].pc = "s_event" /\ t \in Callers /\ b \in Births /\ proc[b].run # "none"
    BY <1>0, <1>6, <2>0 DEF StartThreads, At, Fits, StartPcs, BornPcs
  <2>2. PICK roles \in {{"track", "watch"}, {"track"}, {}} :
          /\ th' = Begun(t, b, roles)
          /\ cut' = IF "watch" \in roles THEN cut ELSE cut \cup {b}
    BY <1>6, <2>0 DEF StartThreads
  <2>3. \A u : Fits(proc, u, Idle) /\ Idle \in Locals
    BY IdleFits DEF Fits
  <2>4. w \in Locals /\ w.pc = "w_wait" /\ w.me = b /\ k \in Locals /\ k.pc = "t_load" /\ k.me = b
    BY <2>1, <2>3, BirthTypes DEF Locals, Pcs
  <2>7. /\ t # <<"watch", b>> /\ t # <<"track", b>> /\ <<"watch", b>> # <<"track", b>>
        /\ <<"watch", b>> \in Thread /\ <<"track", b>> \in Thread
    BY <2>1, OwnThreads
  <2>8. /\ \A u \in Thread : th'[u] \in {Idle, w, k, th[u]}
        /\ \A u \in Thread \ {t, <<"watch", b>>, <<"track", b>>} : th'[u] = th[u]
        /\ th'[<<"watch", b>>] = IF "watch" \in roles THEN w ELSE th[<<"watch", b>>]
        /\ th' = [u \in Thread |-> th'[u]]
    BY <2>2, <2>7 DEF Begun
  <2>. HIDE DEF w, k
  <2>9. \A u : Fits(proc, u, w) /\ Fits(proc, u, k)
    BY <2>1, <2>4 DEF Fits, StartPcs, SnapPcs, KeptPcs, BornPcs, DeadPcs
  <2>10. ThreadsFit'
    <3>1. \A u \in Thread : Fits(proc, u, th'[u])
      BY <2>3, <2>8, <2>9 DEF IInv, ThreadsFit
    <3>2. \A u \in Thread : th'[u] \in Locals
      BY <3>1 DEF Fits
    <3>. QED BY <1>6, <2>8, <3>1, <3>2 DEF StartThreads, ThreadsFit
  <2>11. InCharge(b)'
    BY <2>2, <2>4, <2>8 DEF InCharge
  <2>12. \A x \in Births \ {b} : InCharge(x) => InCharge(x)'
    <3>1. \A u \in Callers : u # <<"watch", b>> /\ u # <<"track", b>> /\ u \in Thread
      BY <2>1, OwnThreads
    <3>2. \A x \in Births \ {b} : /\ <<"watch", x>> # <<"watch", b>> /\ <<"watch", x>> # t
                                  /\ <<"watch", x>> # <<"track", b>> /\ <<"watch", x>> \in Thread
      BY <2>1, OwnThreads
    <3>3. /\ \A u \in Callers \ {t} : th'[u] = th[u]
          /\ \A x \in Births \ {b} : th'[<<"watch", x>>] = th[<<"watch", x>>]
      BY <2>8, <3>1, <3>2
    <3>. QED BY <2>0, <2>2, <3>3 DEF InCharge
  <2>13. AllInHand'
    BY <1>6, <2>11, <2>12 DEF AllInHand, IInv, StartThreads
  <2>14. cut' \subseteq Births
    BY <2>1, <2>2 DEF IInv, Counted
  <2>. QED BY <1>6, <2>10, <2>13, <2>14 DEF StartThreads, IInv, DataFits, Counted
<1>. QED BY <1>1, <1>2, <1>3, <1>4, <1>5, <1>6 DEF Start

(* The watcher thread *)
LEMMA WatchKeeps == ASSUME IInv, NEW t \in Thread, Watch(t) PROVE IInv'
<1>0. /\ Fits(proc, t, th[t]) /\ th[t] \in Locals
      /\ disk \in States \cup {NoState} /\ tracked \in 0..MaxBirth
      /\ ProcTyped(proc) /\ Good(proc)
  BY Held
<1>1. CASE WatchWait(t)
  <2>0. PICK b : b = th[t].me
    OBVIOUS
  <2> DEFINE r == [th[t] EXCEPT !.pc = "w_load"]
  <2>1. th[t].pc = "w_wait" /\ b \in Births /\ proc[b].run # "none" /\ b \notin Up
    BY <1>0, <1>1, <2>0 DEF WatchWait, At, Fits, BornPcs
  <2>2. r \in Locals /\ r.pc = "w_load" /\ r.me = b
    BY <1>0, <2>0 DEF Locals, Pcs
  <2>3. th' = [th EXCEPT ![t] = r]
    BY <1>1 DEF WatchWait, Goto, IInv, ThreadsFit
  <2>. HIDE DEF r
  <2>4. Good(proc') /\ ~Child(proc', b)
    BY <1>0, <1>1, <2>0, <2>1, ReapedGood DEF WatchWait
  <2>5. proc[b].run \in {"zombie", "gone"}
    BY <1>0, <2>1 DEF Up, ProcTyped, Process
  <2>6. Fits(proc', t, r)
    BY <2>1, <2>2, <2>4, <2>5 DEF Good, Ages, Fits, StartPcs, SnapPcs, KeptPcs, BornPcs, DeadPcs
  <2>7. ThreadsFit'
    BY <2>3, <2>4, <2>6, ThreadStep DEF IInv, Good
  <2>8. \A u \in Thread \ {t} : th'[u] = th[u]
    BY <2>3 DEF IInv, ThreadsFit
  <2>9. \A x \in Births \ {b} : InCharge(x) => InCharge(x)'
    BY <1>1, <2>0, <2>1, <2>8, OwnThreads DEF InCharge, WatchWait
  <2>10. AllInHand'
    BY <2>4, <2>9 DEF AllInHand, IInv, Good
  <2>. QED BY <1>1, <2>4, <2>7, <2>10 DEF WatchWait, IInv, DataFits, Counted, Good
<1>2. CASE WatchLoad(t)
  <2>1. NoMore(t, "w_pop")
    BY <1>2 DEF WatchLoad, At, NoMore, Pcs, StartPcs, SnapPcs, KeptPcs, BornPcs, DeadPcs
  <2>2. disk # NoState => NoMoreWith(t, "w_refresh", disk)
    BY <1>0, <1>2 DEF WatchLoad, At, NoMoreWith, Pcs, StartPcs, SnapPcs, KeptPcs, BornPcs, DeadPcs
  <2>3. Good(proc') /\ disk' \in States \cup {NoState} /\ tracked' \in 0..MaxBirth
    BY <1>0, <1>2 DEF WatchLoad
  <2>4. CASE disk = NoState
    BY <1>2, <2>1, <2>3, <2>4, GotoStep DEF WatchLoad
  <2>5. CASE disk # NoState
    BY <1>2, <2>2, <2>3, <2>5, LoadStep DEF WatchLoad
  <2>. QED BY <2>4, <2>5
<1>3. CASE WatchRefresh(t)
  <2>1. NoMore(t, "w_reload")
    BY <1>3 DEF WatchRefresh, At, NoMore, Pcs, StartPcs, SnapPcs, KeptPcs, BornPcs, DeadPcs
  <2>2. th[t].snap \in States
    BY <1>0, <1>3 DEF WatchRefresh, At, Fits, SnapPcs
  <2>3. disk' \in States
    BY <1>3, <2>2, RefreshedType DEF WatchRefresh
  <2>4. Good(proc') /\ tracked' \in 0..MaxBirth
    BY <1>0, <1>3 DEF WatchRefresh
  <2>. QED BY <1>3, <2>1, <2>3, <2>4, GotoStep DEF WatchRefresh
<1>4. CASE WatchReload(t)
  <2> DEFINE s == IF disk = NoState THEN th[t].snap ELSE disk
  <2>1. s \in States
    BY <1>0, <1>4 DEF WatchReload, At, Fits, SnapPcs
  <2>2. NoMoreWith(t, "w_verdict", s)
    BY <1>4, <2>1 DEF WatchReload, At, NoMoreWith, Pcs, StartPcs, SnapPcs, KeptPcs, BornPcs, DeadPcs
  <2>3. Good(proc') /\ disk' \in States \cup {NoState} /\ tracked' \in 0..MaxBirth
    BY <1>0, <1>4 DEF WatchReload
  <2>. QED BY <1>4, <2>2, <2>3, LoadStep DEF WatchReload
<1>5. CASE WatchVerdict(t)
  <2> DEFINE s == th[t].snap
  <2>1. /\ th[t].pc = "w_verdict" /\ s \in States /\ th[t].pc \notin BornPcs
        /\ proc[th[t].me].rc \in {"own", "sig"}
    BY <1>0, <1>5 DEF WatchVerdict, At, Fits, SnapPcs, DeadPcs, BornPcs, ProcTyped
  <2>2. Good(proc') /\ tracked' \in 0..MaxBirth /\ UNCHANGED <<calls, crashes, cut>>
    BY <1>0, <1>5 DEF WatchVerdict
  <2>3. /\ \A b \in Preferred(s, Live(s)) : [RunningAs(s, b) EXCEPT !.exit = "0"] \in States
        /\ ExitedWith(s, proc[th[t].me].rc) \in States
    BY <2>1, StateTypes, LiveTypes, BirthTypes
  <2>4. disk' \in States
    BY <1>5, <2>3 DEF WatchVerdict
  <2>5. CASE GotoWith(t, "w_pop_same", NoState)
    <3>1. NoMoreWith(t, "w_pop_same", NoState)
      BY <2>1 DEF NoMoreWith, Pcs, StartPcs, SnapPcs, KeptPcs, BornPcs, DeadPcs
    <3>. QED BY <2>2, <2>4, <2>5, <3>1, LoadStep
  <2>6. CASE GotoWith(t, "w_pop", NoState)
    <3>1. NoMoreWith(t, "w_pop", NoState)
      BY <2>1 DEF NoMoreWith, Pcs, StartPcs, SnapPcs, KeptPcs, BornPcs, DeadPcs
    <3>. QED BY <2>2, <2>4, <2>6, <3>1, LoadStep
  <2>7. CASE th' = [th EXCEPT ![t] = [Idle EXCEPT !.pc = "i_load", !.op = "rmforce"]]
    <3> DEFINE r == [Idle EXCEPT !.pc = "i_load", !.op = "rmforce"]
    <3>1. Idle \in Locals
      BY IdleFits DEF Fits
    <3>2. r \in Locals /\ r.pc = "i_load"
      BY <3>1 DEF Locals, Pcs
    <3>. HIDE DEF r
    <3>3. Fits(proc', t, r)
      BY <3>2 DEF Fits, StartPcs, SnapPcs, KeptPcs, BornPcs, DeadPcs
    <3>4. th' = [th EXCEPT ![t] = r]
      BY <2>7 DEF r
    <3>. QED BY <2>1, <2>2, <2>4, <3>3, <3>4, QuietStep
  <2>. QED BY <1>5, <2>5, <2>6, <2>7 DEF WatchVerdict
<1>6. CASE WatchPopSame(t)
  <2>1. th[t].pc \notin BornPcs
    BY <1>6 DEF WatchPopSame, At, BornPcs
  <2>2. Good(proc') /\ disk' \in States \cup {NoState} /\ tracked' \in 0..MaxBirth
    BY <1>0, <1>6, BirthTypes DEF WatchPopSame
  <2>. QED BY <1>6, <2>1, <2>2, FinishStep DEF WatchPopSame
<1>7. CASE WatchPop(t)
  <2>1. th[t].pc \notin BornPcs
    BY <1>7 DEF WatchPop, At, BornPcs
  <2>2. Good(proc') /\ disk' \in States \cup {NoState} /\ tracked' \in 0..MaxBirth
    BY <1>0, <1>7, BirthTypes DEF WatchPop
  <2>. QED BY <1>7, <2>1, <2>2, FinishStep DEF WatchPop
<1>. QED BY <1>1, <1>2, <1>3, <1>4, <1>5, <1>6, <1>7 DEF Watch

(* The process-tracker thread *)
LEMMA TrackKeeps == ASSUME IInv, NEW t \in Thread, Track(t) PROVE IInv'
<1>0. /\ Fits(proc, t, th[t]) /\ th[t] \in Locals
      /\ disk \in States \cup {NoState} /\ tracked \in 0..MaxBirth
      /\ ProcTyped(proc) /\ Good(proc)
  BY Held
<1>1. CASE TrackLoad(t)
  <2>1. disk # NoState => NoMoreWith(t, "t_save", disk)
    BY <1>0, <1>1 DEF TrackLoad, At, NoMoreWith, Pcs, StartPcs, SnapPcs, KeptPcs, BornPcs, DeadPcs
  <2>2. th[t].pc \notin BornPcs
    BY <1>1 DEF TrackLoad, At, BornPcs
  <2>3. Good(proc') /\ disk' \in States \cup {NoState} /\ tracked' \in 0..MaxBirth
    BY <1>0, <1>1 DEF TrackLoad
  <2>4. CASE disk = NoState
    BY <1>1, <2>2, <2>3, <2>4, FinishStep DEF TrackLoad
  <2>5. CASE disk # NoState
    BY <1>1, <2>1, <2>3, <2>5, LoadStep DEF TrackLoad
  <2>. QED BY <2>4, <2>5
<1>2. CASE TrackSave(t)
  <2>0. PICK h \in BOOLEAN : h = (Scanned(th[t].snap, {th[t].me}) # {})
    OBVIOUS
  <2> DEFINE r == [th[t] EXCEPT !.pc = "t_decide", !.snap = NoState, !.hit = h]
  <2>1. th[t].snap \in States /\ th[t].pc \notin BornPcs
    BY <1>0, <1>2 DEF TrackSave, At, Fits, SnapPcs, BornPcs
  <2>2. disk' \in States
    BY <1>2, <2>1, RefreshedType DEF TrackSave
  <2>3. r \in Locals /\ r.pc = "t_decide"
    BY <1>0 DEF Locals, Pcs
  <2>4. th' = [th EXCEPT ![t] = r]
    BY <1>2, <2>0 DEF TrackSave
  <2>. HIDE DEF r
  <2>5. Fits(proc', t, r)
    BY <2>3 DEF Fits, StartPcs, SnapPcs, KeptPcs, BornPcs, DeadPcs
  <2>6. Good(proc') /\ tracked' \in 0..MaxBirth /\ UNCHANGED <<calls, crashes, cut>>
    BY <1>0, <1>2 DEF TrackSave
  <2>. QED BY <2>1, <2>2, <2>4, <2>5, <2>6, QuietStep
<1>3. CASE TrackDecide(t)
  <2>1. th[t].pc \notin BornPcs /\ NoMoreWith(t, "t_load", NoState)
    BY <1>3 DEF TrackDecide, At, NoMoreWith, Pcs, StartPcs, SnapPcs, KeptPcs, BornPcs, DeadPcs
  <2>2. /\ Good(proc') /\ disk' \in States \cup {NoState} /\ tracked' \in 0..MaxBirth
        /\ UNCHANGED <<calls, crashes, cut>>
    BY <1>0, <1>3 DEF TrackDecide
  <2>3. CASE Finish(t)
    BY <2>1, <2>2, <2>3, FinishStep
  <2>4. CASE GotoWith(t, "t_load", NoState)
    BY <2>1, <2>2, <2>4, LoadStep
  <2>. QED BY <1>3, <2>3, <2>4 DEF TrackDecide
<1>. QED BY <1>1, <1>2, <1>3 DEF Track

(* reconcile_container_state ends in an answer, or in a removal that goes on. *)
LEMMA LeaveStep ==
    ASSUME IInv, NEW t \in Thread, th[t].pc \notin BornPcs, NEW s \in States, Leave(t, s), Good(proc'),
           disk' \in States \cup {NoState}, tracked' \in 0..MaxBirth, UNCHANGED <<calls, crashes, cut>>
    PROVE  IInv'
<1>1. CASE Finish(t)
  BY <1>1, FinishStep
<1>2. CASE th' = [th EXCEPT ![t] = [Idle EXCEPT !.pc = "r_check", !.op = th[t].op, !.snap = s]]
  <2> DEFINE r == [Idle EXCEPT !.pc = "r_check", !.op = th[t].op, !.snap = s]
  <2>1. Idle \in Locals /\ th[t] \in Locals
    BY IdleFits, Held DEF Fits
  <2>2. r \in Locals /\ r.pc = "r_check" /\ r.snap = s
    BY <2>1 DEF Locals, Pcs
  <2>3. th' = [th EXCEPT ![t] = r]
    BY <1>2
  <2>. HIDE DEF r
  <2>4. Fits(proc', t, r)
    BY <2>2 DEF Fits, StartPcs, SnapPcs, KeptPcs, BornPcs, DeadPcs
  <2>. QED BY <2>3, <2>4, QuietStep
<1>. QED BY <1>1, <1>2 DEF Leave

(* reconcile_container_state *)
LEMMA InspectKeeps == ASSUME IInv, NEW t \in Thread, Inspect(t) PROVE IInv'
<1>0. /\ Fits(proc, t, th[t]) /\ th[t] \in Locals
      /\ disk \in States \cup {NoState} /\ tracked \in 0..MaxBirth
      /\ ProcTyped(proc) /\ Good(proc) /\ Good(Reaped(tracked))
  BY Held, ReapedGood
<1>1. CASE InspectLoad(t)
  <2>1. th[t].pc \notin BornPcs /\ NoMore(t, "w_pop")
    BY <1>1 DEF InspectLoad, At, NoMore, Pcs, StartPcs, SnapPcs, KeptPcs, BornPcs, DeadPcs
  <2>2. disk # NoState => NoMoreWith(t, "i_rec", disk)
    BY <1>0, <1>1 DEF InspectLoad, At, NoMoreWith, Pcs, StartPcs, SnapPcs, KeptPcs, BornPcs, DeadPcs
  <2>3. /\ Good(proc') /\ disk' \in States \cup {NoState} /\ tracked' \in 0..MaxBirth
        /\ UNCHANGED <<calls, crashes, cut>>
    BY <1>0, <1>1 DEF InspectLoad
  <2>4. CASE disk # NoState
    BY <1>1, <2>2, <2>3, <2>4, LoadStep DEF InspectLoad
  <2>5. CASE Finish(t)
    BY <2>1, <2>3, <2>5, FinishStep
  <2>6. CASE Goto(t, "w_pop")
    BY <2>1, <2>3, <2>6, GotoStep
  <2>. QED BY <1>1, <2>4, <2>5, <2>6 DEF InspectLoad
<1>2. CASE ReconcileDead(t)
  <2> DEFINE s == th[t].snap
             closed == IF s.status # "running" THEN Cleared(s)
                       ELSE ExitedWith(s, IF s.exit = "0" THEN "255" ELSE s.exit)
  <2>1. s \in States /\ th[t].pc \notin BornPcs
    BY <1>0, <1>2 DEF ReconcileDead, At, Fits, SnapPcs, BornPcs
  <2>2. closed \in States
    BY <2>1, StateTypes
  <2>3. disk' = closed /\ Leave(t, closed) /\ UNCHANGED <<tracked, calls, crashes, cut>>
    BY <1>2 DEF ReconcileDead
  <2>4. Good(proc')
    BY <1>0, <1>2 DEF ReconcileDead
  <2>. HIDE DEF closed
  <2>. QED BY <1>0, <2>1, <2>2, <2>3, <2>4, LeaveStep
<1>3. CASE ReconcileTracked(t)
  <2>1. th[t].snap \in States /\ th[t].pc \notin BornPcs
    BY <1>0, <1>3 DEF ReconcileTracked, At, Fits, SnapPcs, BornPcs
  <2>2. Good(proc') /\ disk' \in States \cup {NoState} /\ tracked' \in 0..MaxBirth
    BY <1>0, <1>3 DEF ReconcileTracked
  <2>. QED BY <1>3, <2>1, <2>2, LeaveStep DEF ReconcileTracked
<1>4. CASE ReconcileLive(t)
  <2> DEFINE s == th[t].snap
  <2>1. s \in States /\ th[t].pc \notin BornPcs
    BY <1>0, <1>4 DEF ReconcileLive, At, Fits, SnapPcs, BornPcs
  <2>2. PICK b \in Preferred(s, Live(s)) :
          th' = [th EXCEPT ![t] = [th[t] EXCEPT !.pc = "i_refresh", !.kept = s, !.me = b]]
    BY <1>4 DEF ReconcileLive
  <2>3. b \in 0..MaxBirth
    BY LiveTypes, BirthTypes
  <2> DEFINE r == [th[t] EXCEPT !.pc = "i_refresh", !.kept = s, !.me = b]
  <2>4. r \in Locals /\ r.pc = "i_refresh" /\ r.kept = s
    BY <1>0, <2>1, <2>3 DEF Locals, Pcs
  <2>5. th' = [th EXCEPT ![t] = r]
    BY <2>2
  <2>. HIDE DEF r
  <2>6. Fits(proc', t, r)
    BY <2>1, <2>4 DEF Fits, StartPcs, SnapPcs, KeptPcs, BornPcs, DeadPcs
  <2>7. Good(proc') /\ disk' \in States \cup {NoState} /\ tracked' \in 0..MaxBirth
    BY <1>0, <1>4 DEF ReconcileLive
  <2>. QED BY <1>4, <2>1, <2>5, <2>6, <2>7, QuietStep DEF ReconcileLive
<1>5. CASE ReconcileRefreshLoad(t)
  <2>1. NoMore(t, "i_reload")
    BY <1>5 DEF ReconcileRefreshLoad, At, NoMore, Pcs, StartPcs, SnapPcs, KeptPcs, BornPcs, DeadPcs
  <2>2. disk # NoState => NoMoreWith(t, "i_save", disk)
    BY <1>0, <1>5
    DEF ReconcileRefreshLoad, At, NoMoreWith, Pcs, StartPcs, SnapPcs, KeptPcs, BornPcs, DeadPcs
  <2>3. Good(proc') /\ disk' \in States \cup {NoState} /\ tracked' \in 0..MaxBirth
    BY <1>0, <1>5 DEF ReconcileRefreshLoad
  <2>4. CASE disk = NoState
    BY <1>5, <2>1, <2>3, <2>4, GotoStep DEF ReconcileRefreshLoad
  <2>5. CASE disk # NoState
    BY <1>5, <2>2, <2>3, <2>5, LoadStep DEF ReconcileRefreshLoad
  <2>. QED BY <2>4, <2>5
<1>6. CASE ReconcileRefreshSave(t)
  <2>1. NoMore(t, "i_reload")
    BY <1>6 DEF ReconcileRefreshSave, At, NoMore, Pcs, StartPcs, SnapPcs, KeptPcs, BornPcs, DeadPcs
  <2>2. th[t].snap \in States
    BY <1>0, <1>6 DEF ReconcileRefreshSave, At, Fits, SnapPcs
  <2>3. disk' \in States
    BY <1>6, <2>2, RefreshedType DEF ReconcileRefreshSave
  <2>4. Good(proc') /\ tracked' \in 0..MaxBirth
    BY <1>0, <1>6 DEF ReconcileRefreshSave
  <2>. QED BY <1>6, <2>1, <2>3, <2>4, GotoStep DEF ReconcileRefreshSave
<1>7. CASE ReconcileReload(t)
  <2>1. th[t].pc = "i_reload" /\ th[t].kept \in States /\ th[t].pc \notin BornPcs
    BY <1>0, <1>7 DEF ReconcileReload, At, Fits, KeptPcs, BornPcs
  <2>2. /\ Good(proc') /\ disk' \in States \cup {NoState} /\ tracked' \in 0..MaxBirth
        /\ UNCHANGED <<calls, crashes, cut>>
    BY <1>0, <1>7 DEF ReconcileReload
  <2>3. CASE Leave(t, th[t].kept)
    BY <2>1, <2>2, <2>3, LeaveStep
  <2>4. CASE GotoWith(t, "i_adopt", IF disk = NoState THEN th[t].kept ELSE disk)
    <3> DEFINE s == IF disk = NoState THEN th[t].kept ELSE disk
    <3>1. s \in States
      BY <1>0, <2>1
    <3>2. NoMoreWith(t, "i_adopt", s)
      BY <2>1, <3>1 DEF NoMoreWith, Pcs, StartPcs, SnapPcs, KeptPcs, BornPcs, DeadPcs
    <3>. QED BY <2>2, <2>4, <3>2, LoadStep
  <2>. QED BY <1>7, <2>3, <2>4 DEF ReconcileReload
<1>8. CASE ReconcileAdopt(t)
  <2> DEFINE s == RunningAs(th[t].snap, th[t].me)
  <2>1. th[t].snap \in States /\ th[t].pc \notin BornPcs
    BY <1>0, <1>8 DEF ReconcileAdopt, At, Fits, SnapPcs, BornPcs
  <2>2. s \in States
    BY <1>0, <2>1, StateTypes DEF Locals
  <2>3. disk' = s /\ Leave(t, s)
    BY <1>8 DEF ReconcileAdopt
  <2>4. Good(proc') /\ tracked' \in 0..MaxBirth
    BY <1>0, <1>8 DEF ReconcileAdopt
  <2>. QED BY <1>8, <2>1, <2>2, <2>3, <2>4, LeaveStep DEF ReconcileAdopt
<1>. QED BY <1>1, <1>2, <1>3, <1>4, <1>5, <1>6, <1>7, <1>8 DEF Inspect

(* remove_container *)
LEMMA RemoveKeeps == ASSUME IInv, NEW t \in Thread, Remove(t) PROVE IInv'
<1>0. /\ Fits(proc, t, th[t]) /\ th[t] \in Locals
      /\ disk \in States \cup {NoState} /\ tracked \in 0..MaxBirth
      /\ ProcTyped(proc) /\ Good(proc)
  BY Held
<1>1. CASE PruneLoad(t)
  <2> DEFINE r == [th[t] EXCEPT !.pc = "i_load", !.op = "rmforce"]
  <2>1. th[t].pc \notin BornPcs
    BY <1>1 DEF PruneLoad, At, BornPcs
  <2>2. /\ Good(proc') /\ disk' \in States \cup {NoState} /\ tracked' \in 0..MaxBirth
        /\ UNCHANGED <<calls, crashes, cut>>
    BY <1>0, <1>1 DEF PruneLoad
  <2>3. CASE Finish(t)
    BY <2>1, <2>2, <2>3, FinishStep
  <2>4. CASE th' = [th EXCEPT ![t] = r]
    <3>1. r \in Locals /\ r.pc = "i_load"
      BY <1>0 DEF Locals, Pcs
    <3>. HIDE DEF r
    <3>2. Fits(proc', t, r)
      BY <3>1 DEF Fits, StartPcs, SnapPcs, KeptPcs, BornPcs, DeadPcs
    <3>. QED BY <2>1, <2>2, <2>4, <3>2, QuietStep
  <2>. QED BY <1>1, <2>3, <2>4 DEF PruneLoad
<1>2. CASE RemoveCheck(t)
  <2>1. /\ th[t].pc \notin BornPcs /\ NoMore(t, "w_pop")
        /\ NoMoreWith(t, "r_delete", NoState) /\ NoMoreWith(t, "k_lookup", NoState)
    BY <1>2 DEF RemoveCheck, At, NoMore, NoMoreWith, Pcs, StartPcs, SnapPcs, KeptPcs, BornPcs, DeadPcs
  <2>2. /\ Good(proc') /\ disk' \in States \cup {NoState} /\ tracked' \in 0..MaxBirth
        /\ UNCHANGED <<calls, crashes, cut>>
    BY <1>0, <1>2 DEF RemoveCheck
  <2>3. CASE GotoWith(t, "r_delete", NoState)
    BY <2>1, <2>2, <2>3, LoadStep
  <2>4. CASE GotoWith(t, "k_lookup", NoState)
    BY <2>1, <2>2, <2>4, LoadStep
  <2>5. CASE Finish(t)
    BY <2>1, <2>2, <2>5, FinishStep
  <2>6. CASE Goto(t, "w_pop")
    BY <2>1, <2>2, <2>6, GotoStep
  <2>. QED BY <1>2, <2>3, <2>4, <2>5, <2>6 DEF RemoveCheck
<1>3. CASE RemoveDelete(t)
  <2>1. th[t].pc \notin BornPcs /\ NoMore(t, "w_pop")
    BY <1>3 DEF RemoveDelete, At, NoMore, Pcs, StartPcs, SnapPcs, KeptPcs, BornPcs, DeadPcs
  <2>2. /\ Good(proc') /\ disk' \in States \cup {NoState} /\ tracked' \in 0..MaxBirth
        /\ UNCHANGED <<calls, crashes, cut>>
    BY <1>0, <1>3 DEF RemoveDelete
  <2>3. CASE Finish(t)
    BY <2>1, <2>2, <2>3, FinishStep
  <2>4. CASE Goto(t, "w_pop")
    BY <2>1, <2>2, <2>4, GotoStep
  <2>. QED BY <1>3, <2>3, <2>4 DEF RemoveDelete
<1>. QED BY <1>1, <1>2, <1>3 DEF Remove

(* stop_container *)
LEMMA StopKeeps == ASSUME IInv, NEW t \in Thread, Stop(t) PROVE IInv'
<1>0. /\ Fits(proc, t, th[t]) /\ th[t] \in Locals
      /\ disk \in States \cup {NoState} /\ tracked \in 0..MaxBirth
      /\ ProcTyped(proc) /\ Good(proc)
      /\ \A bs : Good(Ended(bs, "sig"))
  BY Held, EndedGood
<1>1. CASE StopLookup(t)
  <2> DEFINE r == [th[t] EXCEPT !.pc = "k_load", !.me = tracked]
  <2>1. th[t].pc \notin BornPcs
    BY <1>1 DEF StopLookup, At, BornPcs
  <2>2. r \in Locals /\ r.pc = "k_load"
    BY <1>0 DEF Locals, Pcs
  <2>3. th' = [th EXCEPT ![t] = r]
    BY <1>1 DEF StopLookup
  <2>. HIDE DEF r
  <2>4. Fits(proc', t, r)
    BY <2>2 DEF Fits, StartPcs, SnapPcs, KeptPcs, BornPcs, DeadPcs
  <2>5. Good(proc') /\ disk' \in States \cup {NoState} /\ tracked' \in 0..MaxBirth
    BY <1>0, <1>1 DEF StopLookup
  <2>. QED BY <1>1, <2>1, <2>3, <2>4, <2>5, QuietStep DEF StopLookup
<1>2. CASE StopLoad(t)
  <2>1. NoMoreWith(t, IF disk = NoState THEN "k_scan" ELSE "k_refresh", disk)
    BY <1>0, <1>2 DEF StopLoad, At, NoMoreWith, Pcs, StartPcs, SnapPcs, KeptPcs, BornPcs, DeadPcs
  <2>2. Good(proc') /\ disk' \in States \cup {NoState} /\ tracked' \in 0..MaxBirth
    BY <1>0, <1>2 DEF StopLoad
  <2>. QED BY <1>2, <2>1, <2>2, LoadStep DEF StopLoad
<1>3. CASE StopRefresh(t)
  <2>1. NoMore(t, "k_reload")
    BY <1>3 DEF StopRefresh, At, NoMore, Pcs, StartPcs, SnapPcs, KeptPcs, BornPcs, DeadPcs
  <2>2. th[t].snap \in States
    BY <1>0, <1>3 DEF StopRefresh, At, Fits, SnapPcs
  <2>3. disk' \in States
    BY <1>3, <2>2, RefreshedType DEF StopRefresh
  <2>4. Good(proc') /\ tracked' \in 0..MaxBirth
    BY <1>0, <1>3 DEF StopRefresh
  <2>. QED BY <1>3, <2>1, <2>3, <2>4, GotoStep DEF StopRefresh
<1>4. CASE StopReload(t)
  <2> DEFINE s == IF disk = NoState THEN th[t].snap ELSE disk
  <2>1. s \in States
    BY <1>0, <1>4 DEF StopReload, At, Fits, SnapPcs
  <2>2. NoMoreWith(t, "k_scan", s)
    BY <1>4, <2>1 DEF StopReload, At, NoMoreWith, Pcs, StartPcs, SnapPcs, KeptPcs, BornPcs, DeadPcs
  <2>3. Good(proc') /\ disk' \in States \cup {NoState} /\ tracked' \in 0..MaxBirth
    BY <1>0, <1>4 DEF StopReload
  <2>. QED BY <1>4, <2>2, <2>3, LoadStep DEF StopReload
<1>5. CASE StopScan(t)
  <2> DEFINE s == th[t].snap
             roots == PidsOf({th[t].me} \cup (IF s = NoState THEN {} ELSE {s.main}))
             cands == Candidates(s, IF s = NoState THEN PidsOf({th[t].me} \cap Up) ELSE roots)
  <2>1. PICK live \in BOOLEAN : live = (th[t].me \in Up \/ cands # {})
    OBVIOUS
  <2> DEFINE r == [th[t] EXCEPT !.pc = IF live THEN "k_term" ELSE "k_late",
                                !.pids = PidsOf(cands), !.hit = live]
  <2>2. th[t].pc \notin BornPcs
    BY <1>5 DEF StopScan, At, BornPcs
  <2>3. r \in Locals /\ r.pc \in {"k_term", "k_late"}
    <3>1. PICK ps \in SUBSET (Pids \cup {0}) : ps = PidsOf(cands)
      BY <1>0, PidTypes
    <3>. HIDE DEF cands
    <3>. QED BY <1>0, <3>1 DEF Locals, Pcs
  <2>4. th' = [th EXCEPT ![t] = r]
    BY <1>5, <2>1 DEF StopScan
  <2>. HIDE DEF r
  <2>5. Fits(proc', t, r)
    BY <2>3 DEF Fits, StartPcs, SnapPcs, KeptPcs, BornPcs, DeadPcs
  <2>6. /\ Good(proc') /\ disk' \in States \cup {NoState} /\ tracked' \in 0..MaxBirth
        /\ UNCHANGED <<calls, crashes, cut>>
    BY <1>0, <1>5, ReapedGood DEF StopScan
  <2>. QED BY <2>2, <2>4, <2>5, <2>6, QuietStep
<1>6. CASE StopTerm(t)
  <2>1. NoMore(t, "k_kill")
    BY <1>6 DEF StopTerm, At, NoMore, Pcs, StartPcs, SnapPcs, KeptPcs, BornPcs, DeadPcs
  <2>2. Good(proc')
    BY <1>0, <1>6, EndedGood DEF StopTerm, Signalled
  <2>. QED BY <1>0, <1>6, <2>1, <2>2, GotoStep DEF StopTerm
<1>7. CASE StopKill(t)
  <2>1. NoMore(t, "k_late")
    BY <1>7 DEF StopKill, At, NoMore, Pcs, StartPcs, SnapPcs, KeptPcs, BornPcs, DeadPcs
  <2>2. Good(proc')
    BY <1>0, <1>7, EndedGood DEF StopKill, Signalled
  <2>. QED BY <1>0, <1>7, <2>1, <2>2, GotoStep DEF StopKill
<1>8. CASE StopLate(t)
  <2> DEFINE p == IF th[t].snap = NoState THEN "k_pop" ELSE "k_list"
  <2>1. th[t].pc \notin BornPcs /\ NoMoreWith(t, p, th[t].snap)
    BY <1>0, <1>8
    DEF StopLate, At, Locals, NoMoreWith, Pcs, StartPcs, SnapPcs, KeptPcs, BornPcs, DeadPcs
  <2>2. GotoWith(t, p, th[t].snap)
    BY <1>0, <1>8 DEF StopLate, Goto, GotoWith, IInv, ThreadsFit, Locals
  <2>3. Good(proc')
    BY <1>0, <1>8, EndedGood DEF StopLate, Signalled
  <2>. QED BY <1>0, <1>8, <2>1, <2>2, <2>3, LoadStep DEF StopLate
<1>9. CASE StopList(t)
  <2> DEFINE l == PidsOf(Candidates(th[t].snap, th[t].pids))
             o == {b \in Births : proc[b].run # "none"}
             r == [th[t] EXCEPT !.pc = "k_verdict", !.seen = l, !.old = o]
  <2>1. /\ th[t].pc = "k_list" /\ th[t].pc \notin BornPcs
        /\ th[t].snap # NoState /\ th[t].snap \in States
    BY <1>0, <1>9 DEF StopList, At, Fits, SnapPcs, BornPcs
  <2>2. \A b \in Births : Alive(proc, b) => b \in Candidates(th[t].snap, th[t].pids)
    BY <2>1 DEF Candidates, Own, Up, Alive
  <2>3. \A b \in Births : Alive(proc, b) => proc[b].pid \in l
    BY <2>2 DEF PidsOf
  <2>4. l \in SUBSET (Pids \cup {0}) /\ o \in SUBSET Births /\ \A b \in o : proc[b].run # "none"
    BY <1>0, PidTypes
  <2>5. th' = [th EXCEPT ![t] = r]
    BY <1>9 DEF StopList
  <2>. HIDE DEF l, o
  <2>6. r \in Locals /\ r.pc = "k_verdict" /\ r.seen = l /\ r.old = o /\ r.snap = th[t].snap
    BY <1>0, <2>4 DEF Locals, Pcs
  <2>. HIDE DEF r
  <2>7. Fits(proc, t, r)
    BY <2>1, <2>3, <2>4, <2>6 DEF Fits, StartPcs, SnapPcs, KeptPcs, BornPcs, DeadPcs
  <2>. QED BY <1>0, <1>9, <2>1, <2>5, <2>7, QuietStep DEF StopList
<1>10. CASE StopVerdict(t)
  <2>0. PICK s : s = th[t].snap
    OBVIOUS
  <2> DEFINE survivors == HoldersOf(th[t].seen)
             code == IF th[t].hit /\ s.exit = "0" THEN "143" ELSE s.exit
  <2>1. s \in States /\ th[t].pc = "k_verdict" /\ th[t].pc \notin BornPcs
    BY <1>0, <1>10, <2>0 DEF StopVerdict, At, Fits, SnapPcs, BornPcs
  <2>2. survivors \in SUBSET Births /\ \A b \in survivors : b \in 0..MaxBirth
    BY BirthTypes DEF HoldersOf, Up
  <2>3. /\ \A b \in survivors : /\ [RunningAs(s, b) EXCEPT !.known = survivors] \in States
                                /\ [RunningAs(s, b) EXCEPT !.known = survivors].status = "running"
        /\ ExitedWith(s, code) \in States
    <3>1. \A b \in survivors : [RunningAs(s, b) EXCEPT !.known = survivors] \in States
      BY <2>1, <2>2, StateTypes
    <3>2. code \in {"0", "126", "143", "255", "own", "sig"}
      BY <2>1, StateTypes
    <3>3. ExitedWith(s, code) \in States
      BY <2>1, <3>2, StateTypes
    <3>. HIDE DEF survivors, code
    <3>4. \A b \in survivors : [RunningAs(s, b) EXCEPT !.known = survivors].status = "running"
      BY <2>1 DEF RunningAs, States
    <3>. QED BY <3>1, <3>3, <3>4
  <2>4. PICK x \in States : /\ GotoWith(t, "k_save", x)
                            /\ x.status = "running" \/ survivors = {}
    BY <1>10, <2>0, <2>3 DEF StopVerdict
  <2> DEFINE r == [th[t] EXCEPT !.pc = "k_save", !.snap = x]
  <2>5. r \in Locals /\ r.pc = "k_save" /\ r.snap = x /\ r.old = th[t].old
    BY <1>0 DEF Locals, Pcs
  <2>6. th' = [th EXCEPT ![t] = r]
    BY <2>4 DEF GotoWith
  <2>7. \A b \in th[t].old : /\ b \in Births /\ proc[b].run # "none"
                             /\ Alive(proc, b) => proc[b].pid \in th[t].seen
    BY <1>0, <2>1 DEF Fits, Locals
  <2>8. survivors = {} => \A b \in th[t].old : ~Alive(proc, b)
    BY <2>7 DEF HoldersOf, Up, Alive
  <2>. HIDE DEF r, survivors
  <2>9. Fits(proc, t, r)
    BY <2>4, <2>5, <2>7, <2>8 DEF Fits, StartPcs, SnapPcs, KeptPcs, BornPcs, DeadPcs
  <2>. QED BY <1>0, <1>10, <2>1, <2>6, <2>9, QuietStep DEF StopVerdict
<1>11. CASE StopSave(t)
  <2>1. th[t].snap \in States /\ th[t].pc = "k_save" /\ th[t].pc \notin BornPcs
    BY <1>0, <1>11 DEF StopSave, At, Fits, SnapPcs, BornPcs
  <2>2. /\ Good(proc') /\ tracked' \in 0..MaxBirth /\ disk' \in States /\ UNCHANGED <<calls, crashes, cut>>
    BY <1>0, <1>11, <2>1 DEF StopSave
  <2>3. Idle \in Locals
    BY IdleFits DEF Fits
  <2>4. ASSUME NEW r \in Locals, r.pc \in {"w_pop", "k_pop"}, th' = [th EXCEPT ![t] = r] PROVE IInv'
    <3>1. Fits(proc', t, r)
      BY <2>4 DEF Fits, StartPcs, SnapPcs, KeptPcs, BornPcs, DeadPcs
    <3>. QED BY <2>1, <2>2, <2>4, <3>1, QuietStep
  <2>5. CASE Finish(t)
    BY <2>1, <2>2, <2>5, FinishStep
  <2>6. CASE th' = [th EXCEPT ![t] = [Idle EXCEPT !.pc = "w_pop"]]
    <3> DEFINE r == [Idle EXCEPT !.pc = "w_pop"]
    <3>1. r \in Locals /\ r.pc = "w_pop"
      BY <2>3 DEF Locals, Pcs
    <3>. HIDE DEF r
    <3>2. th' = [th EXCEPT ![t] = r]
      BY <2>6 DEF r
    <3>. QED BY <2>4, <3>1, <3>2
  <2>7. CASE th' = [th EXCEPT ![t] = [Idle EXCEPT !.pc = "k_pop", !.op = th[t].op]]
    <3> DEFINE r == [Idle EXCEPT !.pc = "k_pop", !.op = th[t].op]
    <3>1. r \in Locals /\ r.pc = "k_pop"
      BY <1>0, <2>3 DEF Locals, Pcs
    <3>. HIDE DEF r
    <3>2. th' = [th EXCEPT ![t] = r]
      BY <2>7 DEF r
    <3>. QED BY <2>4, <3>1, <3>2
  <2>. QED BY <1>11, <2>5, <2>6, <2>7 DEF StopSave
<1>12. CASE StopPop(t)
  <2>1. th[t].pc \notin BornPcs
    BY <1>12 DEF StopPop, At, BornPcs
  <2>2. /\ Good(proc') /\ disk' \in States \cup {NoState} /\ tracked' \in 0..MaxBirth
        /\ UNCHANGED <<calls, crashes, cut>>
    BY <1>0, <1>12, BirthTypes DEF StopPop
  <2>3. CASE Finish(t)
    BY <2>1, <2>2, <2>3, FinishStep
  <2>4. CASE th' = [th EXCEPT ![t] = [Idle EXCEPT !.pc = "r_delete"]]
    <3> DEFINE r == [Idle EXCEPT !.pc = "r_delete"]
    <3>1. Idle \in Locals
      BY IdleFits DEF Fits
    <3>2. r \in Locals /\ r.pc = "r_delete"
      BY <3>1 DEF Locals, Pcs
    <3>3. th' = [th EXCEPT ![t] = r]
      BY <2>4
    <3>. HIDE DEF r
    <3>4. Fits(proc', t, r)
      BY <3>2 DEF Fits, StartPcs, SnapPcs, KeptPcs, BornPcs, DeadPcs
    <3>. QED BY <2>1, <2>2, <3>3, <3>4, QuietStep
  <2>. QED BY <1>12, <2>3, <2>4 DEF StopPop
<1>. QED BY <1>1, <1>2, <1>3, <1>4, <1>5, <1>6, <1>7, <1>8, <1>9, <1>10,
            <1>11, <1>12 DEF Stop

(* A request begins. *)
LEMMA CallKeeps ==
    ASSUME IInv, NEW t \in Requests, NEW op \in Ops \cup {"ps"}, Call(t, op) PROVE IInv'
<1>0. /\ t \in Thread /\ disk \in States \cup {NoState} /\ tracked \in 0..MaxBirth
      /\ ProcTyped(proc) /\ Good(proc) /\ Counted
  BY OwnThreads, Held DEF IInv
<1>1. PICK p : p = CASE op = "start" -> "s_load" [] op = "stop" -> "k_lookup"
                     [] op = "prune" -> "p_load" [] OTHER -> "i_load"
  OBVIOUS
<1> DEFINE r == [Idle EXCEPT !.op = op, !.pc = p]
<1>2. p \in {"s_load", "k_lookup", "p_load", "i_load"} /\ (p = "s_load" => op = "start")
  BY <1>1
<1>3. Idle \in Locals
  BY IdleFits DEF Fits
<1>4. r \in Locals /\ r.pc = p
  BY <1>2, <1>3 DEF Locals, Pcs
<1>5. op = "start" => t \in Callers
  BY DEF Call, Requests
<1>6. th' = [th EXCEPT ![t] = r]
  BY <1>1 DEF Call
<1>. HIDE DEF r
<1>7. Fits(proc, t, r)
  BY <1>2, <1>4, <1>5 DEF Fits, StartPcs, SnapPcs, KeptPcs, BornPcs, DeadPcs
<1>8. th[t].pc \notin BornPcs
  BY DEF Call, At, BornPcs
<1>9. ThreadsFit'
  BY <1>0, <1>6, <1>7, ThreadStep DEF Call, IInv, Good
<1>10. \A u \in Thread \ {t} : th'[u] = th[u]
  BY <1>6 DEF IInv, ThreadsFit
<1>11. \A b \in Births : InCharge(b) => InCharge(b)'
  BY <1>8, <1>10, OwnThreads DEF InCharge, BornPcs, Call
<1>12. AllInHand'
  BY <1>11 DEF AllInHand, IInv, Call
<1>13. Counted'
  BY <1>0, LifecycleAssumption DEF Counted, Call
<1>. QED BY <1>0, <1>9, <1>12, <1>13 DEF Call, IInv, DataFits

(* A step of the processes, with no thread moving. *)
LEMMA ProcessStep ==
    ASSUME IInv, Good(proc'), UNCHANGED <<disk, tracked, th, calls, crashes, cut>> PROVE IInv'
<1>1. ThreadsFit'
  BY DEF IInv, ThreadsFit, Fits, Good, Ages, Alive, Locals
<1>2. AllInHand'
  BY DEF IInv, AllInHand, InCharge, Good
<1>. QED BY <1>1, <1>2 DEF IInv, DataFits, Counted, Good

(* The life of the processes. *)
LEMMA ProcessesKeep ==
    ASSUME IInv, NEW b \in Births, ProcExit(b) \/ SpawnWorkload(b) \/ SpawnForeign PROVE IInv'
<1>0. ProcTyped(proc)
  BY DEF IInv, DataFits
<1>1. CASE ProcExit(b)
  BY <1>0, <1>1, EndedGood, ProcessStep DEF ProcExit
<1>2. CASE SpawnWorkload(b)
  <2>1. PICK x \in Fresh, p \in FreePids : proc' = Born(x, p, "workload", b)
    BY <1>2 DEF SpawnWorkload
  <2>2. Good(proc')
    BY <1>0, <2>1, BornGood, BirthTypes
  <2>. QED BY <1>2, <2>2, ProcessStep DEF SpawnWorkload
<1>3. CASE SpawnForeign
  <2>1. PICK x \in Fresh, p \in FreePids : proc' = Born(x, p, "foreign", InitProc)
    BY <1>3 DEF SpawnForeign
  <2>2. Good(proc')
    BY <1>0, <2>1, BornGood, BirthTypes
  <2>. QED BY <1>3, <2>2, ProcessStep DEF SpawnForeign
<1>. QED BY <1>1, <1>2, <1>3

(* The daemon is killed and comes back with no child. *)
LEMMA RestartKeeps == ASSUME IInv, DaemonRestart PROVE IInv'
<1>1. ProcTyped(proc) /\ Counted /\ disk \in States \cup {NoState}
  BY DEF IInv, DataFits
<1>2. /\ proc' \in [Births -> Process]
      /\ \A b \in Births : /\ proc'[b].parent # Daemon
                           /\ proc'[b].run \in {"zombie", "gone"} => proc[b].run \in {"zombie", "gone"}
                           /\ proc'[b].rc = proc[b].rc
  <2>1. /\ \A z \in Process : [z EXCEPT !.parent = InitProc] \in Process
        /\ \A z \in Process : [z EXCEPT !.parent = InitProc, !.run = "gone"] \in Process
    BY BirthTypes DEF Process
  <2>2. ASSUME NEW b \in Births
        PROVE  /\ proc'[b] \in Process /\ proc'[b].parent # Daemon /\ proc'[b].rc = proc[b].rc
               /\ proc'[b].run \in {"zombie", "gone"} => proc[b].run \in {"zombie", "gone"}
    <3>1. proc[b] \in Process
      BY <1>1 DEF ProcTyped
    <3>2. CASE proc[b].parent # Daemon
      BY <3>1, <3>2 DEF DaemonRestart
    <3>3. CASE proc[b].parent = Daemon /\ proc[b].run = "zombie"
      <4>1. proc'[b] = [proc[b] EXCEPT !.parent = InitProc, !.run = "gone"]
        BY <3>3 DEF DaemonRestart
      <4>2. proc'[b] \in Process
        BY <2>1, <3>1, <4>1
      <4>3. proc'[b].parent = InitProc /\ proc'[b].rc = proc[b].rc
        BY <3>1, <4>1 DEF Process
      <4>. QED BY <3>3, <4>2, <4>3, BirthTypes
    <3>4. CASE proc[b].parent = Daemon /\ proc[b].run # "zombie"
      <4>1. proc'[b] = [proc[b] EXCEPT !.parent = InitProc, !.run = proc[b].run]
        BY <3>4 DEF DaemonRestart
      <4>2. proc'[b] = [proc[b] EXCEPT !.parent = InitProc]
        BY <3>1, <4>1 DEF Process
      <4>3. proc'[b] \in Process
        BY <2>1, <3>1, <4>2
      <4>4. proc'[b].parent = InitProc /\ proc'[b].rc = proc[b].rc /\ proc'[b].run = proc[b].run
        BY <3>1, <4>2 DEF Process
      <4>. QED BY <4>3, <4>4, BirthTypes
    <3>. QED BY <3>2, <3>3, <3>4
  <2>3. proc' \in [Births -> Process]
    BY <2>2 DEF DaemonRestart
  <2>. QED BY <2>2, <2>3
<1>3. ProcTyped(proc')
  BY <1>1, <1>2 DEF ProcTyped
<1>4. th' \in [Thread -> Locals] /\ \A t \in Thread : th'[t] = Idle
  BY IdleFits DEF DaemonRestart, Fits
<1>5. ThreadsFit'
  BY <1>4, IdleFits DEF ThreadsFit
<1>6. AllInHand'
  BY <1>2 DEF AllInHand, Child
<1>7. Counted' /\ tracked' \in 0..MaxBirth
  <2>1. crashes' \in 0..MaxCrashes
    <3>1. crashes \in 0..MaxCrashes /\ crashes < MaxCrashes /\ crashes' = crashes + 1
      BY <1>1 DEF Counted, DaemonRestart
    <3>2. MaxCrashes \in Nat
      BY LifecycleAssumption
    <3>. QED BY <3>1, <3>2
  <2>2. tracked' \in 0..MaxBirth /\ calls' = calls /\ cut' = cut
    BY BirthTypes DEF DaemonRestart
  <2>. QED BY <1>1, <2>1, <2>2 DEF Counted
<1>. QED BY <1>1, <1>3, <1>5, <1>6, <1>7 DEF IInv, DataFits, DaemonRestart

-----------------------------------------------------------------------------
(* A container that was just created satisfies the invariant. *)
LEMMA InitInv == Init => IInv
<1> SUFFICES ASSUME Init PROVE IInv
  OBVIOUS
<1>1. disk \in States /\ tracked \in 0..MaxBirth
  BY BirthTypes, LifecycleAssumption DEF Init, Created, States
<1>2. Unborn \in Process /\ Unborn.run = "none"
  BY BirthTypes DEF Unborn, Process
<1>3. ProcTyped(proc) /\ \A b \in Births : ~Child(proc, b)
  BY <1>2 DEF Init, ProcTyped, Child
<1>4. ThreadsFit
  BY IdleFits DEF Init, ThreadsFit, Fits
<1>5. Counted
  BY LifecycleAssumption DEF Init, Counted
<1>. QED BY <1>1, <1>3, <1>4, <1>5 DEF IInv, DataFits, AllInHand

(* The invariant holds in every state of every behaviour. *)
LEMMA Invariance == Spec => []IInv
<1>1. IInv /\ [Next]_vars => IInv'
  <2> SUFFICES ASSUME IInv, [Next]_vars PROVE IInv'
    OBVIOUS
  <2>1. ASSUME NEW t \in Requests, NEW op \in Ops \cup {"ps"}, Call(t, op) PROVE IInv'
    BY <2>1, CallKeeps
  <2>2. ASSUME NEW t \in Thread, Step(t) PROVE IInv'
    BY <2>2, StartKeeps, WatchKeeps, TrackKeeps, InspectKeeps, StopKeeps, RemoveKeeps DEF Step
  <2>3. ASSUME NEW b \in Births, ProcExit(b) \/ SpawnWorkload(b) PROVE IInv'
    BY <2>3, ProcessesKeep
  <2>4. ASSUME SpawnForeign PROVE IInv'
    <3>1. 1 \in Births
      BY LifecycleAssumption DEF Births
    <3>. QED BY <2>4, <3>1, ProcessesKeep
  <2>5. ASSUME DaemonRestart PROVE IInv'
    BY <2>5, RestartKeeps
  <2>6. ASSUME UNCHANGED vars PROVE IInv'
    <3>1. Good(proc')
      BY <2>6, SameGood DEF vars, IInv, DataFits
    <3>. QED BY <2>6, <3>1, ProcessStep DEF vars
  <2>. QED BY <2>1, <2>2, <2>3, <2>4, <2>5, <2>6 DEF Next
<1>. QED BY <1>1, InitInv, PTL DEF Spec

(* Types of the stored state, the process table and the threads, for any    *)
(* number of requests, processes and pids.                                  *)
THEOREM TypeCorrect == Spec => []TypeOK
<1>1. IInv => TypeOK
  BY DEF IInv, ThreadsFit, DataFits, Counted, ProcTyped, Process, Locals, TypeOK
<1>. QED BY <1>1, Invariance, PTL

(* The daemon never forgets a child: every launcher it started and did not  *)
(* reap is in the hands of the request that starts it, or of its watcher.   *)
THEOREM ChildrenInHand == Spec => []NoForgottenChild
<1>1. IInv => NoForgottenChild
  BY DEF IInv, AllInHand, Child, InCharge, NoForgottenChild
<1>. QED BY <1>1, Invariance, PTL

(* A step of a thread leaves the others where they are, but for the watcher *)
(* and the tracker a start creates.                                         *)
LEMMA OthersStay ==
    ASSUME IInv, NEW u \in Thread, Step(u), NEW t \in Thread \ {u}
    PROVE  th'[t] = th[t] \/ th'[t].pc \in {"w_wait", "t_load"}
<1>0. th \in [Thread -> Locals]
  BY DEF IInv, ThreadsFit
<1>1. CASE Start(u)
  <2>1. CASE StartThreads(u)
    BY <1>0, <2>1 DEF StartThreads, Begun, Idle
  <2>2. CASE StartLoad(u) \/ StartCheck(u) \/ StartSpawn(u) \/ StartRegister(u) \/ StartSave(u)
    BY <1>0, <2>2 DEF StartLoad, StartCheck, StartSpawn, StartRegister, StartSave, Goto, GotoWith, Finish
  <2>. QED BY <1>1, <2>1, <2>2 DEF Start
<1>2. CASE Watch(u)
  BY <1>0, <1>2
  DEF Watch, WatchWait, WatchLoad, WatchRefresh, WatchReload, WatchVerdict, WatchPopSame, WatchPop,
      Goto, GotoWith, Finish
<1>3. CASE Track(u)
  BY <1>0, <1>3 DEF Track, TrackLoad, TrackSave, TrackDecide, GotoWith, Finish
<1>4. CASE Inspect(u)
  BY <1>0, <1>4
  DEF Inspect, InspectLoad, ReconcileDead, ReconcileTracked, ReconcileLive, ReconcileRefreshLoad,
      ReconcileRefreshSave, ReconcileReload, ReconcileAdopt, Leave, Goto, GotoWith, Finish
<1>5. CASE Stop(u)
  BY <1>0, <1>5
  DEF Stop, StopLookup, StopLoad, StopRefresh, StopReload, StopScan, StopTerm, StopKill, StopLate,
      StopList, StopVerdict, StopSave, StopPop, Goto, GotoWith, Finish
<1>6. CASE Remove(u)
  BY <1>0, <1>6 DEF Remove, PruneLoad, RemoveCheck, RemoveDelete, Goto, GotoWith, Finish
<1>. QED BY <1>1, <1>2, <1>3, <1>4, <1>5, <1>6 DEF Step

(* A stop goes past its verdict only by saving it. *)
LEMMA OnlySaveLeaves ==
    ASSUME NEW t \in Thread, Step(t), th[t].pc = "k_save" PROVE StopSave(t)
<1>1. ~Start(t)
  BY DEF Start, StartLoad, StartCheck, StartSpawn, StartRegister, StartSave, StartThreads, At
<1>2. ~Watch(t) /\ ~Track(t)
  BY DEF Watch, WatchWait, WatchLoad, WatchRefresh, WatchReload, WatchVerdict, WatchPopSame, WatchPop,
         Track, TrackLoad, TrackSave, TrackDecide, At
<1>3. ~Inspect(t)
  BY DEF Inspect, InspectLoad, ReconcileDead, ReconcileTracked, ReconcileLive, ReconcileRefreshLoad,
         ReconcileRefreshSave, ReconcileReload, ReconcileAdopt, At
<1>4. ~Remove(t)
  BY DEF Remove, PruneLoad, RemoveCheck, RemoveDelete, At
<1>5. Stop(t) => StopSave(t)
  BY DEF Stop, StopLookup, StopLoad, StopRefresh, StopReload, StopScan, StopTerm, StopKill, StopLate,
         StopList, StopVerdict, StopPop, At
<1>. QED BY <1>1, <1>2, <1>3, <1>4, <1>5 DEF Step

(* A stop that records that it left no orphan and goes on leaves no process *)
(* of the container alive that had been born at its last listing of /proc,  *)
(* recorded or not.                                                         *)
THEOREM StopIsComplete == Spec => StopLeavesNobody
<1> DEFINE Done == \A t \in Thread : (th[t].pc = "k_save" /\ th'[t].pc = "k_pop") => Own' \cap th[t].old = {}
<1>1. IInv /\ [Next]_vars => [Done]_vars
  <2> SUFFICES ASSUME IInv, Next, NEW t \in Thread, th[t].pc = "k_save", th'[t].pc = "k_pop"
               PROVE  Own' \cap th[t].old = {}
    BY DEF Done
  <2>0. th \in [Thread -> Locals]
    BY DEF IInv, ThreadsFit
  <2>1. ASSUME NEW u \in Thread, Step(u) PROVE u = t
    BY <2>1, OthersStay
  <2>2. CASE Step(t)
    <3>1. StopSave(t)
      BY <2>2, OnlySaveLeaves
    <3>2. th[t].snap.status # "running"
      BY <2>0, <3>1 DEF StopSave, Finish, Idle
    <3>3. \A b \in th[t].old : ~Alive(proc, b)
      BY <3>2, Held DEF Fits
    <3>5. proc' = proc
      BY <3>1 DEF StopSave
    <3>. QED BY <3>3, <3>5 DEF Own, Up, Alive
  <2>3. ASSUME NEW u \in Requests, NEW op \in Ops \cup {"ps"}, Call(u, op) PROVE FALSE
    <3>1. th[u].pc = "idle"
      BY <2>3 DEF Call, At
    <3>2. \A v \in Thread \ {u} : th'[v] = th[v]
      BY <2>0, <2>3 DEF Call
    <3>. QED BY <3>1, <3>2
  <2>4. ASSUME DaemonRestart PROVE FALSE
    BY <2>4 DEF DaemonRestart, Idle
  <2>5. ASSUME NEW b \in Births, ProcExit(b) \/ SpawnWorkload(b) \/ SpawnForeign PROVE FALSE
    BY <2>5 DEF ProcExit, SpawnWorkload, SpawnForeign
  <2>6. ASSUME SpawnForeign PROVE FALSE
    BY <2>6 DEF SpawnForeign
  <2>. QED BY <2>1, <2>2, <2>3, <2>4, <2>5, <2>6 DEF Next
<1>. HIDE DEF Done
<1>2. Spec => [][Done]_vars
  BY <1>1, Invariance, PTL DEF Spec
<1>. QED BY <1>2 DEF StopLeavesNobody, Done
=============================================================================
