--------------------------- MODULE ImageStoreProofs ---------------------------
(***************************************************************************)
(* What is proved of the image store: its types; that the prune at startup *)
(* leaves no residue; that what a pull or the prune loses is exactly what  *)
(* `kept` exempts; and that pulls without a common layer are whole.        *)
(*                                                                         *)
(* Types first.  The directories, the layers and the threads' locals are   *)
(* typed, and only a request thread that was given a number leaves the     *)
(* program points of a prune; every action keeps that.                     *)
(***************************************************************************)
EXTENDS ImageStore, TLAPS

PrunePcs == {"idle", "prune", "names", "old", "pruning", "partial", "refs", "unused", "unused layer"}

(* Only a request thread, which has a number, leaves the program points of  *)
(* the prune.                                                               *)
Numbered == \A t \in Thread : th[t].pc \in PrunePcs \/ (t \in Workers /\ th[t].n \in Num)

ThreadsTyped == /\ th \in [Thread -> Locals]
                /\ \A t \in Thread : At(t, "idle") => th[t] = Idle
                /\ Numbered
DataTyped == /\ dirs \in [Name -> Dir \cup {None}]
             /\ lay \in [Layers -> Tree]
             /\ tmp \in [Num -> {"none", "full", "holed"}]
             /\ ops \in 0..MaxOps /\ crashes \in 0..MaxCrashes /\ kept \in History

(* The names a numbered request uses are names of the store. *)
LEMMA NameTypes == /\ Live \in Name
                   /\ \A n \in Num : Stage(n) \in Name /\ Backup(n) \in Name
BY DEF Name, Stage, Backup

(* The locals of a thread between requests are typed. *)
LEMMA IdleType == Idle \in Locals /\ Idle.pc = "idle"
BY NameTypes, StoreAssumption DEF Idle, Locals, Pcs

(* What makedirs creates is a directory. *)
LEMMA NewDirType == NewDir \in Dir /\ NewDir # None
<1>1. NewDir \in Dir
  BY DEF NewDir, Dir
<1>. QED BY <1>1, StoreAssumption

(* A step of thread t that changes its locals to typed ones. *)
LEMMA ThreadType ==
    ASSUME ThreadsTyped, NEW t \in Thread, NEW r \in Locals, th' = [th EXCEPT ![t] = r],
           r.pc = "idle" => r = Idle,
           r.pc \in PrunePcs \/ (t \in Workers /\ r.n \in Num)
    PROVE  ThreadsTyped'
BY DEF ThreadsTyped, Numbered, At

(* Moving to another program point, out of a prune only for a numbered request. *)
LEMMA GotoType ==
    ASSUME ThreadsTyped, NEW t \in Thread, NEW p \in Pcs \ {"idle"}, Goto(t, p),
           th[t].pc \notin PrunePcs \/ p \in PrunePcs
    PROVE  ThreadsTyped'
<1> DEFINE r == [th[t] EXCEPT !.pc = p]
<1>1. th[t] \in Locals
  BY DEF ThreadsTyped
<1>2. r \in Locals /\ r.pc = p /\ r.n = th[t].n
  BY <1>1 DEF Locals
<1>3. th' = [th EXCEPT ![t] = r]
  BY DEF Goto, ThreadsTyped
<1>4. r.pc \in PrunePcs \/ (t \in Workers /\ r.n \in Num)
  BY <1>2 DEF ThreadsTyped, Numbered
<1>. QED BY <1>2, <1>3, <1>4, ThreadType

(* The end of a request drops its locals. *)
LEMMA FinishType == ASSUME ThreadsTyped, NEW t \in Thread, Finish(t) PROVE ThreadsTyped'
BY IdleType, ThreadType DEF Finish, PrunePcs

(* An exception sends a pull to its error path and ends any other request. *)
LEMMA RaiseType ==
    ASSUME ThreadsTyped, NEW t \in Thread, Raise(t), th[t].pc \notin PrunePcs PROVE ThreadsTyped'
BY FinishType, GotoType DEF Raise, Pcs

(* A step that puts a typed directory, or none, under a name. *)
LEMMA PutType ==
    ASSUME DataTyped, NEW x \in Name, NEW d \in Dir \cup {None}, Put(x, d)
    PROVE  dirs' \in [Name -> Dir \cup {None}]
BY DEF DataTyped, Put

(* A rename moves a typed directory. *)
LEMMA MoveType ==
    ASSUME DataTyped, NEW x \in Name, NEW y \in Name, Move(x, y)
    PROVE  dirs' \in [Name -> Dir \cup {None}]
BY DEF DataTyped, Move

(* What a racing deletion takes from a merge leaves typed directories. *)
LEMMA TornType ==
    ASSUME DataTyped, NEW l
    PROVE  Torn(dirs, l) \in [Name -> Dir \cup {None}]
<1>1. \A x \in Name : dirs[x] # None => [dirs[x] EXCEPT !.root = "holed"] \in Dir
  BY DEF DataTyped, Dir
<1>. QED BY <1>1 DEF Torn, DataTyped

(* A directory without some of its files. *)
LEMMA WithoutFacts ==
    ASSUME NEW d \in Dir, NEW gone \in SUBSET File
    PROVE  /\ Without(d, gone) \in Dir /\ Without(d, gone) # None
           /\ Without(d, gone).open = d.open /\ Files(Without(d, gone)) = Files(d) \ gone
<1> DEFINE w == Without(d, gone)
<1>1. /\ w \in Dir /\ w.open = d.open
      /\ w.cfg = IF "config" \in gone THEN None ELSE d.cfg
      /\ w.man = IF "manifest" \in gone THEN {} ELSE d.man
      /\ w.ref = (d.ref /\ "ref" \notin gone)
      /\ w.root = IF "rootfs" \in gone THEN "none" ELSE d.root
  BY DEF Without, Dir
<1>2. Files(w) = Files(d) \ gone
  BY <1>1 DEF Files, File
<1>. QED BY <1>1, <1>2, StoreAssumption

(* A directory that other threads delete than before has the same files. *)
LEMMA OpenFacts ==
    ASSUME NEW d \in Dir, NEW o \in SUBSET Thread, NEW e, e = [d EXCEPT !.open = o]
    PROVE  e \in Dir /\ e # None /\ e.open = o /\ e.root = d.root /\ Files(e) = Files(d)
<1>1. /\ e \in Dir /\ e.open = o /\ e.root = d.root
      /\ e.cfg = d.cfg /\ e.man = d.man /\ e.ref = d.ref
  BY DEF Dir
<1>. QED BY <1>1, StoreAssumption DEF Files

(* An rmtree that begins: the directory keeps some files, is open, and the  *)
(* files it keeps are what the thread has left to delete.                   *)
LEMMA RmBeginFacts ==
    ASSUME DataTyped, NEW t \in Thread, NEW x \in Name, NEW r \in Locals, RmBegin(t, x, r)
    PROVE  \E e \in Dir, k \in Locals :
              /\ dirs[x] # None /\ Put(x, e) /\ e.open = dirs[x].open \cup {t} /\ e.root # "part"
              /\ th' = [th EXCEPT ![t] = k] /\ k = [r EXCEPT !.left = Files(e)]
              /\ k.left = Files(e) /\ k.pc = r.pc /\ k.n = r.n /\ k.op = r.op /\ k.name = r.name
              /\ k.seen = r.seen
<1>1. dirs[x] \in Dir /\ dirs[x] # None
  BY DEF RmBegin, DataTyped
<1>2. PICK gone \in SUBSET Files(dirs[x]) :
         LET d == Without(dirs[x], gone)
             e == [d EXCEPT !.open = d.open \cup {t}, !.root = IF d.root = "none" THEN "none" ELSE "holed"]
         IN  Put(x, e) /\ th' = [th EXCEPT ![t] = [r EXCEPT !.left = Files(d)]]
  BY DEF RmBegin
<1>3. PICK d : d = Without(dirs[x], gone)
  OBVIOUS
<1>4. d \in Dir /\ d.open = dirs[x].open /\ d.open \cup {t} \in SUBSET Thread
  BY <1>1, <1>3, WithoutFacts DEF Files, Dir
<1>5. PICK e : e = [d EXCEPT !.open = d.open \cup {t}, !.root = IF d.root = "none" THEN "none" ELSE "holed"]
  OBVIOUS
<1>6. /\ e \in Dir /\ e.open = dirs[x].open \cup {t} /\ e.root # "part" /\ Files(e) = Files(d)
  <2>1. /\ e \in Dir /\ e.open = d.open \cup {t} /\ e.root = IF d.root = "none" THEN "none" ELSE "holed"
        /\ e.cfg = d.cfg /\ e.man = d.man /\ e.ref = d.ref
    BY <1>4, <1>5 DEF Dir
  <2>. QED BY <1>4, <2>1 DEF Files
<1>7. Put(x, e) /\ th' = [th EXCEPT ![t] = [r EXCEPT !.left = Files(e)]]
  BY <1>2, <1>3, <1>5, <1>6
<1>8. PICK k : k = [r EXCEPT !.left = Files(e)]
  OBVIOUS
<1>9. Files(e) \subseteq File
  BY DEF Files
<1>10. /\ k \in Locals /\ k.left = Files(e) /\ k.pc = r.pc /\ k.n = r.n /\ k.op = r.op
       /\ k.name = r.name /\ k.seen = r.seen
  BY <1>8, <1>9 DEF Locals
<1>. QED BY <1>1, <1>6, <1>7, <1>8, <1>10

(* What is left of a directory is one, open for the same threads. *)
LEMMA RemainsFacts ==
    ASSUME ThreadsTyped, NEW t \in Thread, NEW y, dirs[y] \in Dir, NEW d \in Remains(t, y)
    PROVE  d \in Dir /\ d.open = dirs[y].open
<1>1. PICK w : w = Without(dirs[y], th[t].left)
  OBVIOUS
<1>2. w \in Dir /\ w.open = dirs[y].open
  BY <1>1, WithoutFacts DEF ThreadsTyped, Locals
<1>3. d = w \/ d = [w EXCEPT !.root = "holed"]
  BY <1>1 DEF Remains
<1>. QED BY <1>2, <1>3 DEF Dir

(* An rmtree that ends: the directory it deletes, under whatever name, is    *)
(* gone or no longer open for the thread.                                    *)
LEMMA RmEndFacts ==
    ASSUME ThreadsTyped, DataTyped, NEW t \in Thread, NEW x \in Name, NEW done, NEW failed,
           RmEnd(t, x, done, failed)
    PROVE  \/ /\ dirs[x] # None /\ t \in dirs[x].open
              /\ Put(x, None) /\ th' = [th EXCEPT ![t] = done]
           \/ /\ th' = [th EXCEPT ![t] = failed]
              /\ \E y \in Name, e \in Dir : /\ dirs[y] # None /\ t \in dirs[y].open
                                           /\ Put(y, e) /\ e.open = dirs[y].open \ {t}
           \/ /\ th' = [th EXCEPT ![t] = failed] /\ dirs' = dirs
              /\ \A y \in Name : dirs[y] # None => t \notin dirs[y].open
<1>1. ASSUME NEW y \in Name, dirs[y] # None, t \in dirs[y].open, NEW d \in Remains(t, y)
      PROVE  LET e == [d EXCEPT !.open = d.open \ {t}] IN e \in Dir /\ e.open = dirs[y].open \ {t}
  <2>1. dirs[y] \in Dir
    BY <1>1 DEF DataTyped
  <2>2. d \in Dir /\ d.open = dirs[y].open
    BY <1>1, <2>1, RemainsFacts
  <2>3. d.open \ {t} \in SUBSET Thread
    BY <2>2 DEF Dir
  <2>4. PICK o \in SUBSET Thread : o = d.open \ {t}
    BY <2>3
  <2>. QED BY <2>2, <2>4, OpenFacts
<1>2. ASSUME NEW y \in Name, dirs[y] # None, t \in dirs[y].open, NEW d \in Remains(t, y),
             Put(y, [d EXCEPT !.open = d.open \ {t}])
      PROVE  \E e \in Dir : Put(y, e) /\ e.open = dirs[y].open \ {t}
  BY <1>1, <1>2
<1>. QED BY <1>2 DEF RmEnd

(* Where it deletes the directory of its own name, nothing else puts files   *)
(* there and it listed all, the name is gone.                                *)
LEMMA RmEndDone ==
    ASSUME ThreadsTyped, DataTyped, NEW t \in Thread, NEW x \in Name, NEW done, NEW failed,
           RmEnd(t, x, done, failed),
           \A y \in Name : dirs[y] # None /\ t \in dirs[y].open => y = x,
           dirs[x] # None, t \in dirs[x].open, Files(dirs[x]) \subseteq th[t].left,
           \A v \in Thread : At(v, "merging") => Target(v) # x
    PROVE  Put(x, None) /\ th' = [th EXCEPT ![t] = done]
<1>1. dirs[x] \in Dir /\ th[t].left \in SUBSET File
  BY DEF DataTyped, ThreadsTyped, Locals
<1>2. PICK d \in Remains(t, x) :
         \/ Files(d) = {} /\ Put(x, None) /\ th' = [th EXCEPT ![t] = done]
         \/ Files(d) # {}
  BY DEF RmEnd
<1>3. d = Without(dirs[x], th[t].left)
  BY DEF Remains
<1>4. Files(d) = {}
  BY <1>1, <1>3, WithoutFacts
<1>. QED BY <1>2, <1>4

(* Both keep the types of the directories. *)
LEMMA RmTypes ==
    ASSUME ThreadsTyped, DataTyped, NEW t \in Thread, NEW x \in Name, NEW r \in Locals, NEW done, NEW failed,
           RmBegin(t, x, r) \/ RmEnd(t, x, done, failed)
    PROVE  dirs' \in [Name -> Dir \cup {None}]
<1>1. CASE RmBegin(t, x, r)
  BY <1>1, RmBeginFacts, PutType
<1>2. CASE RmEnd(t, x, done, failed)
  <2>1. \/ Put(x, None)
        \/ \E y \in Name, e \in Dir : Put(y, e)
        \/ dirs' = dirs
    BY <1>2, RmEndFacts
  <2>. QED BY <2>1, PutType DEF DataTyped
<1>. QED BY <1>1, <1>2

(* _extract_layer_tar and the loop over the layers keep the types. *)
LEMMA LayerStepType ==
    ASSUME ThreadsTyped, DataTyped, NEW t \in Thread, LayerStep(t) PROVE ThreadsTyped' /\ DataTyped'
<1>0. /\ th[t] \in Locals
      /\ th[t].pc \notin PrunePcs => t \in Workers /\ th[t].n \in Num
  BY DEF ThreadsTyped, Numbered
<1>1. CASE LayerNext(t)
  <2>1. th[t].pc \notin PrunePcs
    BY <1>1 DEF LayerNext, At, PrunePcs
  <2>2. \A l : [th[t] EXCEPT !.todo = th[t].todo \ {l}] \in Locals
    BY <1>0 DEF Locals
  <2>3. \A l \in th[t].todo : [th[t] EXCEPT !.pc = "extract", !.layer = l] \in Locals
    BY <1>0 DEF Locals, Pcs
  <2>4. ASSUME Goto(t, IF th[t].op = "pull" THEN "manifest" ELSE "clear") PROVE ThreadsTyped'
    BY <2>1, <2>4, GotoType DEF Pcs
  <2>5. ASSUME NEW l, th' = [th EXCEPT ![t] = [th[t] EXCEPT !.todo = th[t].todo \ {l}]]
        PROVE  ThreadsTyped'
    BY <1>0, <2>1, <2>2, <2>5, ThreadType DEF PrunePcs, Locals
  <2>6. ASSUME NEW l \in th[t].todo,
               th' = [th EXCEPT ![t] = [th[t] EXCEPT !.pc = "extract", !.layer = l]]
        PROVE  ThreadsTyped'
    BY <1>0, <2>1, <2>3, <2>6, ThreadType DEF PrunePcs, Locals
  <2>7. ThreadsTyped'
    BY <1>1, <2>1, <2>4, <2>5, <2>6, RaiseType DEF LayerNext
  <2>. QED BY <1>1, <2>7 DEF LayerNext, DataTyped
<1>2. CASE ExtractCheck(t)
  <2>1. th[t].pc \notin PrunePcs
    BY <1>2 DEF ExtractCheck, At, PrunePcs
  <2> DEFINE r == [th[t] EXCEPT !.pc = "layers", !.todo = th[t].todo \ {th[t].layer}]
  <2>2. r \in Locals /\ r.pc = "layers" /\ r.n = th[t].n
    BY <1>0 DEF Locals, Pcs
  <2>3. ASSUME th' = [th EXCEPT ![t] = r] PROVE ThreadsTyped'
    BY <1>0, <2>1, <2>2, <2>3, ThreadType
  <2>4. ThreadsTyped'
    BY <1>2, <2>1, <2>3, GotoType DEF ExtractCheck, Pcs
  <2>. QED BY <1>2, <2>4 DEF ExtractCheck, DataTyped
<1>3. CASE ExtractClear(t)
  <2>1. ThreadsTyped'
    BY <1>3, GotoType DEF ExtractClear, At, PrunePcs, Pcs
  <2>2. dirs' \in [Name -> Dir \cup {None}]
    BY <1>3, TornType DEF ExtractClear, Gut
  <2>3. lay' \in [Layers -> Tree]
    BY <1>3 DEF ExtractClear, Gut, DataTyped, Tree
  <2>. QED BY <1>3, <2>1, <2>2, <2>3 DEF ExtractClear, DataTyped
<1>4. CASE ExtractStart(t)
  <2>1. ThreadsTyped'
    BY <1>4, GotoType DEF ExtractStart, At, PrunePcs, Pcs
  <2>2. lay' \in [Layers -> Tree]
    BY <1>4 DEF ExtractStart, DataTyped, Tree
  <2>3. tmp' \in [Num -> {"none", "full", "holed"}]
    BY <1>4 DEF ExtractStart, DataTyped
  <2>. QED BY <1>4, <2>1, <2>2, <2>3 DEF ExtractStart, DataTyped
<1>5. CASE ExtractPublish(t)
  <2>1. th[t].pc \notin PrunePcs
    BY <1>5 DEF ExtractPublish, At, PrunePcs
  <2> DEFINE r == [th[t] EXCEPT !.pc = "layers", !.todo = th[t].todo \ {th[t].layer}]
  <2>2. r \in Locals /\ r.pc = "layers" /\ r.n = th[t].n
    BY <1>0 DEF Locals, Pcs
  <2>3. ASSUME th' = [th EXCEPT ![t] = r] PROVE ThreadsTyped'
    BY <1>0, <2>1, <2>2, <2>3, ThreadType
  <2>4. ThreadsTyped'
    BY <1>5, <2>1, <2>3, RaiseType DEF ExtractPublish
  <2>5. tmp[th[t].n] \in Tree
    BY <1>0, <2>1 DEF DataTyped, Tree
  <2>6. lay' \in [Layers -> Tree]
    BY <1>5, <2>5 DEF ExtractPublish, DataTyped
  <2>7. tmp' \in [Num -> {"none", "full", "holed"}]
    BY <1>5 DEF ExtractPublish, DataTyped
  <2>. QED BY <1>5, <2>4, <2>6, <2>7 DEF ExtractPublish, DataTyped
<1>. QED BY <1>1, <1>2, <1>3, <1>4, <1>5 DEF LayerStep

(* What is known of the locals of a thread. *)
LEMMA LocalsOf ==
    ASSUME ThreadsTyped, NEW t \in Thread
    PROVE  /\ th[t] \in Locals
           /\ th[t].pc \notin PrunePcs => t \in Workers /\ th[t].n \in Num
           /\ th[t].n \in 0..MaxOps
BY DEF ThreadsTyped, Numbered, Locals

(* The manifest, the merge and image_ref keep the types. *)
LEMMA ImageStepType ==
    ASSUME ThreadsTyped, DataTyped, NEW t \in Thread, ImageStep(t) PROVE ThreadsTyped' /\ DataTyped'
<1>1. th[t].pc \notin PrunePcs
  BY DEF ImageStep, SaveManifest, MergeBegin, MergeEnd, WriteRef, At, PrunePcs
<1>2. th[t] \in Locals /\ t \in Workers /\ th[t].n \in Num /\ th[t].n \in 0..MaxOps
  BY <1>1, LocalsOf
<1>3. Target(t) \in Name
  BY <1>2, NameTypes DEF Target
<1>4. NewDir \in Dir /\ th[t].want \in SUBSET Layers
  BY <1>2, NewDirType DEF Locals
<1>5. dirs[Target(t)] # None => dirs[Target(t)] \in Dir
  BY <1>3 DEF DataTyped
<1> DEFINE d == IF dirs[Target(t)] = None THEN NewDir ELSE dirs[Target(t)]
<1>6. d \in Dir
  BY <1>4, <1>5
<1>7. CASE SaveManifest(t)
  <2>1. [d EXCEPT !.man = th[t].want, !.cfg = th[t].want] \in Dir
    BY <1>4, <1>6 DEF Dir
  <2>2. dirs' \in [Name -> Dir \cup {None}]
    BY <1>7, <1>3, <2>1, PutType DEF SaveManifest
  <2>3. ThreadsTyped'
    BY <1>7, <1>1, GotoType DEF SaveManifest, Pcs
  <2>. QED BY <1>7, <2>2, <2>3 DEF SaveManifest, DataTyped
<1>8. CASE MergeBegin(t)
  <2>1. [d EXCEPT !.root = IF d.root = "none" /\ d.man = th[t].want THEN "part" ELSE "holed"] \in Dir
    BY <1>6 DEF Dir
  <2>2. dirs' \in [Name -> Dir \cup {None}]
    BY <1>8, <1>3, <2>1, PutType DEF MergeBegin
  <2>3. ThreadsTyped'
    BY <1>8, <1>1, GotoType DEF MergeBegin, Pcs
  <2>. QED BY <1>8, <2>2, <2>3 DEF MergeBegin, DataTyped
<1>9. CASE MergeEnd(t)
  <2>1. \A r \in {"whole", "lossy", "holed"} : dirs[Target(t)] # None => [dirs[Target(t)] EXCEPT !.root = r] \in Dir
    BY <1>5 DEF Dir
  <2>2. [NewDir EXCEPT !.root = "holed"] \in Dir
    BY <1>4 DEF Dir
  <2>3. ASSUME NEW r \in {"whole", "lossy", "holed"}, dirs[Target(t)] # None,
               Put(Target(t), [dirs[Target(t)] EXCEPT !.root = r])
        PROVE  dirs' \in [Name -> Dir \cup {None}]
    BY <1>3, <2>1, <2>3, PutType
  <2>4. ASSUME dirs' \in {dirs, [dirs EXCEPT ![Target(t)] = [NewDir EXCEPT !.root = "holed"]]}
        PROVE  dirs' \in [Name -> Dir \cup {None}]
    BY <2>2, <2>4 DEF DataTyped
  <2>5. dirs' \in [Name -> Dir \cup {None}]
    BY <1>9, <2>3, <2>4 DEF MergeEnd, DataTyped
  <2>6. ThreadsTyped'
    BY <1>9, <1>1, GotoType, RaiseType DEF MergeEnd, Pcs
  <2>. QED BY <1>9, <2>5, <2>6 DEF MergeEnd, DataTyped
<1>10. CASE WriteRef(t)
  <2>1. dirs[Target(t)] # None => [dirs[Target(t)] EXCEPT !.ref = TRUE] \in Dir
    BY <1>5 DEF Dir
  <2>2. dirs' \in [Name -> Dir \cup {None}]
    BY <1>10, <1>3, <2>1, PutType DEF WriteRef, DataTyped
  <2>3. ThreadsTyped'
    BY <1>10, <1>1, GotoType, FinishType, RaiseType DEF WriteRef, Pcs
  <2>. QED BY <1>10, <2>2, <2>3 DEF WriteRef, DataTyped
<1>. QED BY <1>7, <1>8, <1>9, <1>10 DEF ImageStep

(* The steps of pull_image around them keep the types. *)
LEMMA PullStepType ==
    ASSUME ThreadsTyped, DataTyped, NEW t \in Thread, PullStep(t) PROVE ThreadsTyped' /\ DataTyped'
<1>1. th[t].pc \notin PrunePcs
  BY DEF PullStep, PullBegin, PullConfig, PullSwap, PullBackup, PullPublish, PullFail, PullRestore,
         PullDrop, PullDropEnd, PullCleanup, PullCleanupEnd, At, PrunePcs
<1>2. th[t] \in Locals /\ t \in Workers /\ th[t].n \in Num /\ th[t].n \in 0..MaxOps
  BY <1>1, LocalsOf
<1>3. Stage(th[t].n) \in Name /\ Backup(th[t].n) \in Name /\ Live \in Name
  BY <1>2, NameTypes
<1>4. CASE PullBegin(t)
  <2>1. dirs' \in [Name -> Dir \cup {None}]
    BY <1>4, <1>2, <1>3, NewDirType, PutType DEF PullBegin
  <2>2. ThreadsTyped'
    BY <1>4, <1>1, GotoType DEF PullBegin, Pcs
  <2>. QED BY <1>4, <2>1, <2>2 DEF PullBegin, DataTyped
<1>5. CASE PullConfig(t)
  <2>1. ASSUME NEW m \in Offer[t],
               dirs[Stage(th[t].n)] # None,
               Put(Stage(th[t].n), [dirs[Stage(th[t].n)] EXCEPT !.cfg = m]),
               th' = [th EXCEPT ![t] = [th[t] EXCEPT !.pc = "layers", !.want = m, !.todo = m]]
        PROVE  ThreadsTyped' /\ dirs' \in [Name -> Dir \cup {None}]
    <3>1. m \in SUBSET Layers
      BY <1>2, StoreAssumption
    <3>2. [dirs[Stage(th[t].n)] EXCEPT !.cfg = m] \in Dir
      BY <1>3, <2>1, <3>1 DEF DataTyped, Dir
    <3>3. dirs' \in [Name -> Dir \cup {None}]
      BY <1>3, <2>1, <3>2, PutType
    <3> DEFINE r == [th[t] EXCEPT !.pc = "layers", !.want = m, !.todo = m]
    <3>4. r \in Locals /\ r.pc = "layers" /\ r.n = th[t].n
      BY <1>2, <3>1 DEF Locals, Pcs
    <3>5. ThreadsTyped'
      BY <1>2, <2>1, <3>4, ThreadType
    <3>. QED BY <3>3, <3>5
  <2>2. ThreadsTyped' /\ dirs' \in [Name -> Dir \cup {None}]
    BY <1>5, <1>1, <2>1, RaiseType DEF PullConfig, DataTyped
  <2>. QED BY <1>5, <2>2 DEF PullConfig, DataTyped
<1>6. CASE PullSwap(t)
  BY <1>6, <1>1, GotoType DEF PullSwap, Pcs, DataTyped
<1>7. CASE PullBackup(t)
  <2>1. ThreadsTyped'
    BY <1>7, <1>1, GotoType, RaiseType DEF PullBackup, Pcs
  <2>2. dirs' \in [Name -> Dir \cup {None}]
    BY <1>7, <1>3, MoveType DEF PullBackup, DataTyped
  <2>. QED BY <1>7, <2>1, <2>2 DEF PullBackup, DataTyped
<1>8. CASE PullPublish(t)
  <2>1. ThreadsTyped'
    BY <1>8, <1>1, GotoType, RaiseType DEF PullPublish, Pcs
  <2>2. dirs' \in [Name -> Dir \cup {None}]
    BY <1>8, <1>3, MoveType DEF PullPublish, DataTyped
  <2>. QED BY <1>8, <2>1, <2>2 DEF PullPublish, DataTyped, History
<1>9. CASE PullFail(t)
  BY <1>9, <1>1, GotoType DEF PullFail, Pcs, DataTyped
<1>10. CASE PullRestore(t)
  <2>1. ThreadsTyped'
    BY <1>10, <1>1, GotoType DEF PullRestore, Pcs
  <2>2. dirs' \in [Name -> Dir \cup {None}]
    BY <1>10, <1>3, MoveType DEF PullRestore, DataTyped
  <2>. QED BY <1>10, <2>1, <2>2 DEF PullRestore, DataTyped, History
<1>11. ASSUME NEW x \in Name, NEW p \in {"dropping", "cleaning"}, RmBegin(t, x, [th[t] EXCEPT !.pc = p])
       PROVE  ThreadsTyped' /\ dirs' \in [Name -> Dir \cup {None}]
  <2>1. PICK r : r = [th[t] EXCEPT !.pc = p]
    OBVIOUS
  <2>2. r \in Locals /\ r.pc = p /\ r.n = th[t].n /\ RmBegin(t, x, r)
    BY <1>2, <1>11, <2>1 DEF Locals, Pcs
  <2>3. \E k \in Locals : th' = [th EXCEPT ![t] = k] /\ k.pc = p /\ k.n = th[t].n
    BY <2>2, RmBeginFacts
  <2>4. ThreadsTyped'
    BY <1>2, <2>3, ThreadType
  <2>5. dirs' \in [Name -> Dir \cup {None}]
    BY <2>2, RmTypes
  <2>. QED BY <2>4, <2>5
<1>13. CASE PullDrop(t)
  <2>1. ThreadsTyped' /\ dirs' \in [Name -> Dir \cup {None}]
    BY <1>13, <1>1, <1>3, <1>11, GotoType DEF PullDrop, Pcs, DataTyped
  <2>. QED BY <1>13, <2>1 DEF PullDrop, DataTyped
<1>14. CASE PullDropEnd(t)
  <2>1. PICK r : r = [th[t] EXCEPT !.pc = "cleanup", !.left = {}]
    OBVIOUS
  <2>2. r \in Locals /\ r.pc = "cleanup" /\ r.n = th[t].n
    BY <1>2, <2>1 DEF Locals, Pcs
  <2>3. RmEnd(t, Stage(th[t].n), r, r) /\ UNCHANGED <<lay, tmp, ops, crashes, kept>>
    BY <1>14, <2>1 DEF PullDropEnd
  <2>4. dirs' \in [Name -> Dir \cup {None}]
    BY <1>3, <2>2, <2>3, RmTypes
  <2>5. ThreadsTyped'
    BY <1>2, <1>3, <2>2, <2>3, RmEndFacts, ThreadType
  <2>. QED BY <2>3, <2>4, <2>5 DEF DataTyped
<1>15. CASE PullCleanup(t)
  <2>1. ThreadsTyped' /\ dirs' \in [Name -> Dir \cup {None}]
    BY <1>15, <1>1, <1>3, <1>11, FinishType DEF PullCleanup, DataTyped
  <2>. QED BY <1>15, <2>1 DEF PullCleanup, DataTyped
<1>16. CASE PullCleanupEnd(t)
  <2>1. RmEnd(t, Backup(th[t].n), Idle, Idle) /\ UNCHANGED <<lay, tmp, ops, crashes, kept>>
    BY <1>16 DEF PullCleanupEnd
  <2>2. dirs' \in [Name -> Dir \cup {None}]
    BY <1>3, <2>1, IdleType, RmTypes
  <2>3. Finish(t)
    BY <1>3, <2>1, RmEndFacts DEF Finish
  <2>. QED BY <2>1, <2>2, <2>3, FinishType DEF DataTyped
<1>. QED BY <1>4, <1>5, <1>6, <1>7, <1>8, <1>9, <1>10, <1>13, <1>14, <1>15, <1>16 DEF PullStep

(* load_images and remove_image keep the types. *)
LEMMA LoadStepType ==
    ASSUME ThreadsTyped, DataTyped, NEW t \in Thread, LoadStep(t) PROVE ThreadsTyped' /\ DataTyped'
<1>1. th[t].pc \notin PrunePcs
  BY DEF LoadStep, ClearBegin, ClearEnd, LoadBegin, LoadMake, At, PrunePcs
<1>2. th[t] \in Locals /\ t \in Workers /\ th[t].n \in Num /\ th[t].n \in 0..MaxOps
    
  BY <1>1, LocalsOf
<1>3. Live \in Name /\ (dirs[Live] # None => dirs[Live] \in Dir)
  BY NameTypes DEF DataTyped
<1>4. CASE ClearBegin(t)
  <2>1. PICK r : r = [th[t] EXCEPT !.pc = "unlink"]
    OBVIOUS
  <2>2. r \in Locals /\ r.pc = "unlink" /\ r.n = th[t].n
    BY <1>2, <2>1 DEF Locals, Pcs
  <2>3. ASSUME RmBegin(t, Live, r) PROVE ThreadsTyped' /\ dirs' \in [Name -> Dir \cup {None}]
    <3>1. \E k \in Locals : th' = [th EXCEPT ![t] = k] /\ k.pc = "unlink" /\ k.n = th[t].n
      BY <1>3, <2>2, <2>3, RmBeginFacts
    <3>2. ThreadsTyped'
      BY <1>2, <3>1, ThreadType
    <3>. QED BY <1>3, <2>2, <2>3, <3>2, RmTypes
  <2>4. ThreadsTyped' /\ dirs' \in [Name -> Dir \cup {None}]
    BY <1>4, <1>1, <2>1, <2>3, GotoType, FinishType DEF ClearBegin, Pcs, DataTyped
  <2>. QED BY <1>4, <2>4 DEF ClearBegin, DataTyped
<1>5. CASE ClearEnd(t)
  <2>1. PICK r : r = IF th[t].op = "load" THEN [th[t] EXCEPT !.pc = "make", !.left = {}] ELSE Idle
    OBVIOUS
  <2>2. r \in Locals /\ (r = Idle \/ (r.pc = "make" /\ r.n = th[t].n))
    BY <1>2, <2>1, IdleType DEF Locals, Pcs
  <2>3. RmEnd(t, Live, r, Idle) /\ UNCHANGED <<lay, tmp, ops, crashes, kept>>
    BY <1>5, <2>1 DEF ClearEnd
  <2>4. dirs' \in [Name -> Dir \cup {None}]
    BY <1>3, <2>2, <2>3, RmTypes
  <2>5. th' = [th EXCEPT ![t] = r] \/ th' = [th EXCEPT ![t] = Idle]
    BY <1>3, <2>3, RmEndFacts
  <2>6. CASE th' = [th EXCEPT ![t] = Idle]
    BY <2>3, <2>4, <2>6, FinishType DEF Finish, DataTyped
  <2>7. CASE r # Idle /\ th' = [th EXCEPT ![t] = r]
    <3>1. ThreadsTyped'
      BY <1>2, <2>2, <2>7, ThreadType
    <3>. QED BY <2>3, <2>4, <3>1 DEF DataTyped
  <2>. QED BY <2>5, <2>6, <2>7
<1>6. CASE LoadBegin(t)
  <2>1. ASSUME NEW m \in Offer[t],
               th' = [th EXCEPT ![t] = [th[t] EXCEPT !.pc = "layers", !.want = m, !.todo = m]]
        PROVE  ThreadsTyped'
    <3>1. m \in SUBSET Layers
      BY <1>2, StoreAssumption
    <3> DEFINE r == [th[t] EXCEPT !.pc = "layers", !.want = m, !.todo = m]
    <3>2. r \in Locals /\ r.pc = "layers" /\ r.n = th[t].n
      BY <1>2, <3>1 DEF Locals, Pcs
    <3>. QED BY <1>2, <2>1, <3>2, ThreadType
  <2>. QED BY <1>6, <2>1, FinishType DEF LoadBegin, DataTyped
<1>7. CASE LoadMake(t)
  <2>1. ThreadsTyped'
    BY <1>7, <1>1, GotoType, FinishType DEF LoadMake, Pcs
  <2>2. [NewDir EXCEPT !.cfg = th[t].want] \in Dir
    BY <1>2, NewDirType DEF Dir, Locals
  <2>3. dirs' \in [Name -> Dir \cup {None}]
    BY <1>7, <1>3, <2>2, PutType DEF LoadMake, DataTyped
  <2>. QED BY <1>7, <2>1, <2>3 DEF LoadMake, DataTyped
<1>. QED BY <1>4, <1>5, <1>6, <1>7 DEF LoadStep

(* The steps of a prune leave a thread at a program point of the prune. *)
LEMMA PruneThreadType ==
    ASSUME ThreadsTyped, NEW t \in Thread, NEW r \in Locals, r.pc \in PrunePcs \ {"idle"},
           th' = [th EXCEPT ![t] = r]
    PROVE  ThreadsTyped'
BY ThreadType DEF PrunePcs

(* prune_build_artifacts and prune_unreferenced_layers keep the types. *)
LEMMA PruneStepType ==
    ASSUME ThreadsTyped, DataTyped, NEW t \in Thread, PruneStep(t) PROVE ThreadsTyped' /\ DataTyped'
<1> DEFINE k == th[t]
<1>1. k \in Locals /\ Live \in Name
  BY LocalsOf, NameTypes
<1>2. \A n \in Num : Stage(n) \in Name /\ Backup(n) \in Name
  BY NameTypes
<1>3. k.name \in Name
  BY <1>1 DEF Locals
<1>4. CASE PruneList(t)
  <2>1. [k EXCEPT !.pc = "names", !.seen = Residue] \in Locals
    BY <1>1 DEF Locals, Pcs, Residue
  <2>2. ThreadsTyped'
    BY <1>4, <2>1, PruneThreadType DEF PruneList, PrunePcs, Locals
  <2>. QED BY <1>4, <2>2 DEF PruneList, DataTyped
<1>5. CASE PruneStage(t)
  <2>1. PICK n \in Num :
          LET r == [k EXCEPT !.seen = k.seen \ {Stage(n)}] IN
          \/ RmBegin(t, Stage(n), [r EXCEPT !.pc = "pruning", !.name = Stage(n)])
          \/ dirs[Stage(n)] = None /\ th' = [th EXCEPT ![t] = r] /\ UNCHANGED dirs
    BY <1>5 DEF PruneStage
  <2>2. PICK r : r = [k EXCEPT !.seen = k.seen \ {Stage(n)}]
    OBVIOUS
  <2>3. r \in Locals /\ r.pc = "names" /\ k.pc = "names"
    BY <1>1, <1>5, <2>2 DEF Locals, PruneStage, At
  <2>4. CASE th' = [th EXCEPT ![t] = r] /\ UNCHANGED dirs
    BY <1>5, <2>3, <2>4, PruneThreadType DEF PrunePcs, PruneStage, DataTyped
  <2>5. CASE RmBegin(t, Stage(n), [r EXCEPT !.pc = "pruning", !.name = Stage(n)])
    <3>1. PICK s : s = [r EXCEPT !.pc = "pruning", !.name = Stage(n)]
      OBVIOUS
    <3>2. s \in Locals /\ s.pc = "pruning"
      BY <1>2, <2>3, <3>1 DEF Locals, Pcs
    <3>3. RmBegin(t, Stage(n), s) /\ Stage(n) \in Name
      BY <1>2, <2>5, <3>1
    <3>4. \E e \in Locals : th' = [th EXCEPT ![t] = e] /\ e.pc = "pruning"
      BY <3>2, <3>3, RmBeginFacts
    <3>5. ThreadsTyped'
      BY <3>4, PruneThreadType DEF PrunePcs
    <3>6. dirs' \in [Name -> Dir \cup {None}]
      BY <3>2, <3>3, RmTypes
    <3>. QED BY <1>5, <3>5, <3>6 DEF PruneStage, DataTyped
  <2>. QED BY <2>1, <2>2, <2>4, <2>5
<1>6. CASE PruneOldLook(t)
  <2>1. PICK n \in Num : th' = [th EXCEPT ![t] = [k EXCEPT !.pc = "old", !.seen = k.seen \ {Backup(n)},
                                                  !.name = Backup(n), !.there = dirs[Live] # None]]
    BY <1>6 DEF PruneOldLook
  <2>2. [k EXCEPT !.pc = "old", !.seen = k.seen \ {Backup(n)}, !.name = Backup(n),
                  !.there = dirs[Live] # None] \in Locals
    BY <1>1, <1>2 DEF Locals, Pcs
  <2>3. ThreadsTyped'
    BY <2>1, <2>2, PruneThreadType DEF PrunePcs, Locals
  <2>. QED BY <1>6, <2>3 DEF PruneOldLook, DataTyped
<1>7. CASE PruneOldDelete(t)
  <2>1. [k EXCEPT !.pc = "names", !.name = Live, !.there = FALSE] \in Locals
    BY <1>1 DEF Locals, Pcs
  <2>2. PICK s : s = [k EXCEPT !.pc = "pruning", !.there = FALSE]
    OBVIOUS
  <2>3. s \in Locals /\ s.pc = "pruning"
    BY <1>1, <2>2 DEF Locals, Pcs
  <2>4. ASSUME RmBegin(t, k.name, s) PROVE ThreadsTyped' /\ dirs' \in [Name -> Dir \cup {None}]
    <3>1. \E e \in Locals : th' = [th EXCEPT ![t] = e] /\ e.pc = "pruning"
      BY <1>3, <2>3, <2>4, RmBeginFacts
    <3>2. ThreadsTyped'
      BY <3>1, PruneThreadType DEF PrunePcs
    <3>. QED BY <1>3, <2>3, <2>4, <3>2, RmTypes
  <2>5. ASSUME th' = [th EXCEPT ![t] = [k EXCEPT !.pc = "names", !.name = Live, !.there = FALSE]]
        PROVE  ThreadsTyped'
    BY <2>1, <2>5, PruneThreadType DEF PrunePcs, Locals
  <2>6. ThreadsTyped' /\ dirs' \in [Name -> Dir \cup {None}]
    BY <1>7, <2>2, <2>4, <2>5 DEF PruneOldDelete, DataTyped
  <2>. QED BY <1>7, <2>6 DEF PruneOldDelete, DataTyped
<1>15. CASE PruneEnd(t)
  <2>1. PICK r : r = [k EXCEPT !.pc = "names", !.name = Live, !.left = {}]
    OBVIOUS
  <2>2. r \in Locals /\ r.pc = "names"
    BY <1>1, <2>1 DEF Locals, Pcs
  <2>3. RmEnd(t, k.name, r, r) /\ UNCHANGED <<lay, tmp, ops, crashes, kept>>
    BY <1>15, <2>1 DEF PruneEnd
  <2>4. dirs' \in [Name -> Dir \cup {None}]
    BY <1>3, <2>2, <2>3, RmTypes
  <2>5. ThreadsTyped'
    BY <1>3, <2>2, <2>3, RmEndFacts, PruneThreadType DEF PrunePcs
  <2>. QED BY <2>3, <2>4, <2>5 DEF DataTyped
<1>8. CASE PruneOldRestore(t)
  <2>1. [k EXCEPT !.pc = "names", !.name = Live] \in Locals
    BY <1>1 DEF Locals, Pcs
  <2>2. ThreadsTyped'
    BY <1>8, <2>1, PruneThreadType DEF PruneOldRestore, PrunePcs, Locals
  <2>3. dirs' \in [Name -> Dir \cup {None}]
    BY <1>1, <1>3, <1>8, MoveType DEF PruneOldRestore, DataTyped
  <2>. QED BY <1>8, <2>2, <2>3 DEF PruneOldRestore, DataTyped
<1>9. CASE PruneTmp(t)
  <2>1. [k EXCEPT !.pc = "partial", !.todo = {l \in Layers : lay[l] = "broken"}] \in Locals
    BY <1>1 DEF Locals, Pcs
  <2>2. ThreadsTyped'
    BY <1>9, <2>1, PruneThreadType DEF PruneTmp, PrunePcs, Locals
  <2>3. tmp' \in [Num -> {"none", "full", "holed"}]
    BY <1>9 DEF PruneTmp
  <2>. QED BY <1>9, <2>2, <2>3 DEF PruneTmp, DataTyped
<1>10. CASE PrunePartial(t)
  <2>1. PICK l \in k.todo : /\ lay' = [lay EXCEPT ![l] = "none"] /\ dirs' = Torn(dirs, l)
                            /\ th' = [th EXCEPT ![t] = [k EXCEPT !.todo = k.todo \ {l}]]
    BY <1>10 DEF PrunePartial
  <2>2. [k EXCEPT !.todo = k.todo \ {l}] \in Locals /\ k.pc = "partial"
    BY <1>1, <1>10 DEF Locals, PrunePartial, At
  <2>3. ThreadsTyped'
    BY <2>1, <2>2, PruneThreadType DEF PrunePcs, Locals
  <2>4. dirs' \in [Name -> Dir \cup {None}] /\ lay' \in [Layers -> Tree]
    BY <2>1, TornType DEF DataTyped, Tree
  <2>. QED BY <1>10, <2>3, <2>4 DEF PrunePartial, DataTyped
<1>11. CASE PruneBuildDone(t)
  <2>1. [k EXCEPT !.pc = "refs", !.seen = {x \in Name : dirs[x] # None}] \in Locals
    BY <1>1 DEF Locals, Pcs
  <2>2. ThreadsTyped'
    BY <1>11, <2>1, PruneThreadType, FinishType DEF PruneBuildDone, PrunePcs, Locals
  <2>. QED BY <1>11, <2>2 DEF PruneBuildDone, DataTyped
<1>12. CASE PruneReadRefs(t)
  <2>1. k.pc = "refs"
    BY <1>12 DEF PruneReadRefs, At
  <2>2. ASSUME NEW x \in k.seen,
               th' = [th EXCEPT ![t] = [k EXCEPT !.seen = k.seen \ {x},
                          !.refs = k.refs \cup (IF dirs[x] = None THEN {} ELSE dirs[x].man)]]
        PROVE  ThreadsTyped'
    <3> DEFINE f == k.refs \cup (IF dirs[x] = None THEN {} ELSE dirs[x].man)
               r == [k EXCEPT !.seen = k.seen \ {x}, !.refs = f]
    <3>1. x \in Name /\ k.refs \in SUBSET Layers
      BY <1>1 DEF Locals
    <3>2. dirs[x] # None => dirs[x].man \in SUBSET Layers
      BY <3>1 DEF DataTyped, Dir
    <3>3. f \in SUBSET Layers
      BY <3>1, <3>2
    <3>4. r \in Locals /\ r.pc = "refs"
      BY <1>1, <2>1, <3>3 DEF Locals
    <3>. QED BY <2>2, <3>4, PruneThreadType DEF PrunePcs
  <2>3. ASSUME th' = [th EXCEPT ![t] = [k EXCEPT !.pc = "unused", !.refs = {},
                                        !.todo = {l \in Layers : lay[l] # "none"} \ k.refs]]
        PROVE  ThreadsTyped'
    <3>1. [k EXCEPT !.pc = "unused", !.refs = {}, !.todo = {l \in Layers : lay[l] # "none"} \ k.refs] \in Locals
      BY <1>1 DEF Locals, Pcs
    <3>. QED BY <2>3, <3>1, PruneThreadType DEF PrunePcs, Locals
  <2>4. ThreadsTyped'
    BY <1>12, <2>2, <2>3 DEF PruneReadRefs
  <2>. QED BY <1>12, <2>4 DEF PruneReadRefs, DataTyped
<1>13. CASE PruneUnused(t)
  <2>1. \A l \in k.todo : /\ [k EXCEPT !.pc = "unused layer", !.layer = l] \in Locals
                           /\ [k EXCEPT !.todo = k.todo \ {l}] \in Locals
    BY <1>1 DEF Locals, Pcs
  <2>2. k.pc = "unused"
    BY <1>13 DEF PruneUnused, At
  <2>3. ThreadsTyped'
    BY <1>13, <2>1, <2>2, PruneThreadType, FinishType DEF PruneUnused, PrunePcs, Locals
  <2>4. dirs' = dirs \/ \E l : dirs' = Torn(dirs, l)
    BY <1>13 DEF PruneUnused, Gut
  <2>5. dirs' \in [Name -> Dir \cup {None}]
    BY <2>4, TornType DEF DataTyped
  <2>6. lay' \in [Layers -> Tree]
    BY <1>13 DEF PruneUnused, Gut, DataTyped, Tree
  <2>. QED BY <1>13, <2>3, <2>5, <2>6 DEF PruneUnused, DataTyped
<1>14. CASE PruneUnusedEnd(t)
  <2>1. [k EXCEPT !.pc = "unused", !.layer = None, !.todo = k.todo \ {k.layer}] \in Locals
    BY <1>1 DEF Locals, Pcs
  <2>2. ThreadsTyped'
    BY <1>14, <2>1, PruneThreadType DEF PruneUnusedEnd, PrunePcs, Locals
  <2>3. lay' \in [Layers -> Tree]
    BY <1>14 DEF PruneUnusedEnd, DataTyped, Tree
  <2>. QED BY <1>14, <2>2, <2>3 DEF PruneUnusedEnd, DataTyped
<1>. QED BY <1>4, <1>5, <1>6, <1>7, <1>8, <1>9, <1>10, <1>11, <1>12, <1>13, <1>14, <1>15
     DEF PruneStep

(* Every step keeps the types. *)
LEMMA TypeStep == ThreadsTyped /\ DataTyped /\ [Next]_vars => ThreadsTyped' /\ DataTyped'
<1> SUFFICES ASSUME ThreadsTyped, DataTyped, [Next]_vars PROVE ThreadsTyped' /\ DataTyped'
  OBVIOUS
<1>1. ASSUME NEW t \in Workers, NEW op \in Ops, Request(t, op) PROVE ThreadsTyped' /\ DataTyped'
  <2> DEFINE r == [Idle EXCEPT !.op = op, !.n = ops + 1, !.pc = op]
  <2>1. ops + 1 \in Num /\ t \in Thread
    BY <1>1, StoreAssumption DEF Request, DataTyped, Num, Thread
  <2>2. op \in {"pull", "load", "rmi", "prune"} /\ op # "idle" /\ op \in Pcs
    BY StoreAssumption DEF Pcs
  <2>3. ops + 1 \in 0..MaxOps
    BY <2>1, StoreAssumption DEF Num
  <2>4. r \in Locals /\ r.pc = op /\ r.n = ops + 1
    BY <2>2, <2>3, IdleType DEF Locals
  <2>5. ThreadsTyped'
    BY <1>1, <2>1, <2>2, <2>4, ThreadType DEF Request
  <2>. QED BY <1>1, <2>3, <2>5 DEF Request, DataTyped, History
<1>2. ASSUME NEW t \in Thread, Step(t) PROVE ThreadsTyped' /\ DataTyped'
  BY <1>2, LayerStepType, ImageStepType, PullStepType, LoadStepType, PruneStepType DEF Step
<1>3. CASE Restart
  <2>1. [Idle EXCEPT !.pc = "prune"] \in Locals /\ [Idle EXCEPT !.pc = "prune"].pc = "prune"
    BY IdleType DEF Locals, Pcs
  <2>2. ThreadsTyped'
    BY <1>3, <2>1, IdleType DEF Restart, ThreadsTyped, Numbered, At, PrunePcs
  <2>3. crashes' \in 0..MaxCrashes
    BY <1>3, StoreAssumption DEF Restart, DataTyped
  <2>4. \A x \in Name : dirs[x] # None => [dirs[x] EXCEPT !.open = {}] \in Dir
    <3>1. \A x \in Name : dirs[x] # None => dirs[x] \in Dir
      BY DEF DataTyped
    <3>. QED BY <3>1 DEF Dir
  <2>5. dirs' \in [Name -> Dir \cup {None}]
    BY <1>3, <2>4 DEF Restart
  <2>. QED BY <1>3, <2>2, <2>3, <2>5 DEF Restart, DataTyped, History
<1>4. CASE UNCHANGED vars
  BY <1>4 DEF vars, ThreadsTyped, Numbered, At, DataTyped
<1>. QED BY <1>1, <1>2, <1>3, <1>4 DEF Next

(* A new store is typed. *)
LEMMA TypeInit == Init => ThreadsTyped /\ DataTyped
<1> SUFFICES ASSUME Init PROVE ThreadsTyped /\ DataTyped
  OBVIOUS
<1>1. ThreadsTyped
  BY IdleType DEF Init, ThreadsTyped, Numbered, PrunePcs, At
<1>2. dirs \in [Name -> Dir \cup {None}] /\ tmp \in [Num -> {"none", "full", "holed"}]
  BY DEF Init
<1>3. lay \in [Layers -> Tree]
  BY DEF Init, Tree
<1>4. ops \in 0..MaxOps /\ crashes \in 0..MaxCrashes
  BY StoreAssumption DEF Init
<1>5. kept \in History
  BY DEF Init, History
<1>. QED BY <1>1, <1>2, <1>3, <1>4, <1>5 DEF DataTyped

(* The state of the image store is typed in every behaviour, and a thread *)
(* between requests holds nothing of its last one (Finish, Restart).      *)
THEOREM TypeCorrect == Spec => []TypeOK
<1>1. ThreadsTyped /\ DataTyped => TypeOK
  BY DEF ThreadsTyped, DataTyped, TypeOK
<1>. QED BY <1>1, TypeInit, TypeStep, PTL DEF Spec

-----------------------------------------------------------------------------
(***************************************************************************)
(* The prune at startup.  While it runs no request is served, so what it   *)
(* has still to look at covers the residues that are left: the names it    *)
(* listed, the one it is at, the layers it found broken; and only its own  *)
(* deletion is unfinished.                                                 *)
(***************************************************************************)
Booting   == th[Main].pc # "idle"
BootOpen  == \A x \in Name : dirs[x] # None =>
                 /\ dirs[x].open \subseteq {Main}
                 /\ Main \in dirs[x].open => (th[Main].pc = "pruning" /\ x = th[Main].name)
BootNames == th[Main].pc = "names" => Residue \subseteq th[Main].seen
BootOld   == th[Main].pc = "old" => /\ Residue \subseteq th[Main].seen \cup {th[Main].name}
                                    /\ \E n \in Num : th[Main].name = Backup(n)
                                    /\ th[Main].there <=> (dirs[Live] # None)
BootRm    == th[Main].pc = "pruning" =>
                /\ Residue \subseteq th[Main].seen \cup {th[Main].name}
                /\ dirs[th[Main].name] # None /\ Main \in dirs[th[Main].name].open
                /\ Files(dirs[th[Main].name]) \subseteq th[Main].left
                /\ th[Main].name # Live
                /\ \A n \in Num : th[Main].name = Backup(n) => dirs[Live] # None
BootRest  == th[Main].pc = "partial" => /\ Residue = {}
                                        /\ \A n \in Num : tmp[n] = "none"
                                        /\ \A l \in Layers : lay[l] = "broken" => l \in th[Main].todo
BootInv == Booting => /\ \A w \in Workers : th[w].pc = "idle"
                      /\ th[Main].pc \in {"prune", "names", "old", "pruning", "partial"}
                      /\ BootOpen /\ BootNames /\ BootOld /\ BootRm /\ BootRest

(* A merge torn by a deletion keeps its directory: no residue comes or goes. *)
LEMMA TornResidue ==
    ASSUME DataTyped, NEW l, dirs' = Torn(dirs, l) PROVE Residue' = Residue
<1>1. \A x \in Name : dirs[x] # None => [dirs[x] EXCEPT !.root = "holed"] # None
  BY StoreAssumption DEF DataTyped, Dir
<1>. QED BY <1>1 DEF Torn, Residue

(* ... and no deletion. *)
LEMMA TornOpen ==
    ASSUME DataTyped, NEW l, dirs' = Torn(dirs, l), NEW x \in Name, dirs'[x] # None
    PROVE  dirs[x] # None /\ dirs'[x].open = dirs[x].open
<1>1. dirs[x] # None => [dirs[x] EXCEPT !.root = "holed"].open = dirs[x].open
  BY DEF DataTyped, Dir
<1>. QED BY <1>1 DEF Torn

(* A name whose directory is deleted is no residue any more. *)
LEMMA PutResidue ==
    ASSUME DataTyped, NEW x \in Name, Put(x, None) PROVE Residue' = Residue \ {x}
BY DEF DataTyped, Put, Residue

(* The prune at startup goes on with the names it listed. *)
LEMMA BootBack ==
    ASSUME NEW r, th'[Main] = r, r.pc = "names", Residue' \subseteq r.seen,
           \A w \in Workers : th'[w].pc = "idle",
           \A x \in Name : dirs'[x] # None => dirs'[x].open = {}
    PROVE  BootInv' /\ th'[Main].pc # "idle"
BY DEF BootInv, Booting, BootOpen, BootNames, BootOld, BootRm, BootRest

(* It begins to delete the directory of a name. *)
LEMMA BootRmBegin ==
    ASSUME ThreadsTyped, DataTyped, NEW x \in Name, NEW r \in Locals, RmBegin(Main, x, r),
           \A w \in Workers : th[w].pc = "idle",
           \A y \in Name : dirs[y] # None => dirs[y].open = {},
           r.pc = "pruning", r.name = x, x # Live, Residue \subseteq r.seen \cup {x},
           \A n \in Num : x = Backup(n) => dirs[Live] # None
    PROVE  BootInv' /\ th'[Main].pc # "idle"
<1>1. Main \in Thread /\ Main \notin Workers /\ Live \in Name
  BY StoreAssumption, NameTypes DEF Thread
<1>2. PICK e \in Dir, k \in Locals :
         /\ dirs[x] # None /\ Put(x, e) /\ e.open = dirs[x].open \cup {Main}
         /\ th' = [th EXCEPT ![Main] = k]
         /\ k.left = Files(e) /\ k.pc = r.pc /\ k.name = r.name /\ k.seen = r.seen
  BY <1>1, RmBeginFacts
<1>3. th'[Main] = k /\ \A w \in Workers : th'[w].pc = "idle"
  BY <1>1, <1>2 DEF ThreadsTyped, Thread
<1>4. e # None /\ e.open = {Main} /\ \A y \in Name : dirs'[y] = IF y = x THEN e ELSE dirs[y]
  BY <1>2, StoreAssumption DEF Put, DataTyped
<1>5. Residue' = Residue
  BY <1>2, <1>4 DEF Residue
<1>6. BootOpen'
  BY <1>2, <1>3, <1>4 DEF BootOpen
<1>7. BootRm'
  BY <1>1, <1>2, <1>3, <1>4, <1>5 DEF BootRm
<1>. QED BY <1>2, <1>3, <1>6, <1>7 DEF BootInv, Booting, BootNames, BootOld, BootRest

(* A step of the startup prune keeps that, and ends it with nothing left. *)
LEMMA BootPruneStep ==
    ASSUME ThreadsTyped, DataTyped, BootInv, th[Main].pc # "idle", PruneStep(Main)
    PROVE  /\ BootInv'
           /\ th'[Main].pc = "idle" =>
                Residue' = {} /\ \A n \in Num : tmp'[n] = "none" /\ \A l \in Layers : lay'[l] # "broken"
<1> DEFINE Clean == Residue' = {} /\ \A n \in Num : tmp'[n] = "none" /\ \A l \in Layers : lay'[l] # "broken"
<1>1. Main \in Thread /\ Main \notin Workers /\ th[Main] \in Locals /\ Live \in Name
  BY StoreAssumption, NameTypes DEF ThreadsTyped, Thread
<1>2. /\ \A w \in Workers : th[w].pc = "idle"
      /\ th[Main].pc \in {"prune", "names", "old", "pruning", "partial"}
      /\ BootOpen /\ BootNames /\ BootOld /\ BootRm /\ BootRest
  BY DEF BootInv, Booting
<1>3. ASSUME NEW r, th' = [th EXCEPT ![Main] = r]
      PROVE  th'[Main] = r /\ \A w \in Workers : th'[w].pc = "idle"
  BY <1>1, <1>2, <1>3 DEF ThreadsTyped, Thread
<1>0. th[Main].pc # "pruning" => \A x \in Name : dirs[x] # None => dirs[x].open = {}
  BY <1>2 DEF BootOpen
<1>4. CASE PruneList(Main)
  <2> DEFINE r == [th[Main] EXCEPT !.pc = "names", !.seen = Residue]
  <2>1. th' = [th EXCEPT ![Main] = r] /\ dirs' = dirs
    BY <1>4 DEF PruneList
  <2>2. r.pc = "names" /\ r.seen = Residue
    BY <1>1 DEF Locals
  <2> HIDE DEF r
  <2>3. th'[Main] = r /\ (\A w \in Workers : th'[w].pc = "idle") /\ Residue' = Residue
    BY <1>3, <2>1 DEF Residue
  <2>4. th[Main].pc = "prune"
    BY <1>4 DEF PruneList, At
  <2>. QED BY <1>0, <2>1, <2>2, <2>3, <2>4, BootBack
<1>5. CASE PruneStage(Main)
  <2>1. PICK n \in Num :
          LET r == [th[Main] EXCEPT !.seen = th[Main].seen \ {Stage(n)}] IN
          \/ RmBegin(Main, Stage(n), [r EXCEPT !.pc = "pruning", !.name = Stage(n)])
          \/ dirs[Stage(n)] = None /\ th' = [th EXCEPT ![Main] = r] /\ UNCHANGED dirs
    BY <1>5 DEF PruneStage
  <2>2. PICK r : r = [th[Main] EXCEPT !.seen = th[Main].seen \ {Stage(n)}]
    OBVIOUS
  <2>3. /\ r \in Locals /\ th[Main].pc = "names" /\ r.pc = "names" /\ r.seen = th[Main].seen \ {Stage(n)}
        /\ Residue \subseteq th[Main].seen
    BY <1>1, <1>2, <1>5, <2>2 DEF Locals, PruneStage, At, BootNames
  <2>4. Stage(n) \in Name /\ Stage(n) # Live /\ \A m \in Num : Stage(n) # Backup(m)
    BY NameTypes DEF Stage, Live, Backup
  <2>5. CASE dirs[Stage(n)] = None /\ th' = [th EXCEPT ![Main] = r] /\ UNCHANGED dirs
    <3>1. th'[Main] = r /\ \A w \in Workers : th'[w].pc = "idle"
      BY <1>3, <2>5
    <3>2. Residue' \subseteq r.seen
      BY <2>3, <2>5 DEF Residue
    <3>. QED BY <1>0, <2>3, <2>5, <3>1, <3>2, BootBack
  <2>6. CASE RmBegin(Main, Stage(n), [r EXCEPT !.pc = "pruning", !.name = Stage(n)])
    <3>1. PICK s : s = [r EXCEPT !.pc = "pruning", !.name = Stage(n)]
      OBVIOUS
    <3>2. s \in Locals /\ s.pc = "pruning" /\ s.name = Stage(n) /\ s.seen = r.seen
      BY <2>3, <2>4, <3>1 DEF Locals, Pcs
    <3>3. RmBegin(Main, Stage(n), s) /\ Residue \subseteq s.seen \cup {Stage(n)}
      BY <2>3, <2>6, <3>1, <3>2
    <3>. QED BY <1>0, <1>2, <2>3, <2>4, <3>2, <3>3, BootRmBegin
  <2>. QED BY <2>1, <2>2, <2>5, <2>6
<1>6. CASE PruneOldLook(Main)
  <2>1. PICK n \in Num :
            th' = [th EXCEPT ![Main] = [th[Main] EXCEPT !.pc = "old", !.seen = th[Main].seen \ {Backup(n)},
                                          !.name = Backup(n), !.there = dirs[Live] # None]]
    BY <1>6 DEF PruneOldLook
  <2> DEFINE r == [th[Main] EXCEPT !.pc = "old", !.seen = th[Main].seen \ {Backup(n)},
                                   !.name = Backup(n), !.there = dirs[Live] # None]
  <2>2. /\ r.pc = "old" /\ r.seen = th[Main].seen \ {Backup(n)} /\ r.name = Backup(n)
        /\ r.there <=> (dirs[Live] # None)
    BY <1>1 DEF Locals
  <2>3. th' = [th EXCEPT ![Main] = r] /\ dirs' = dirs /\ th[Main].pc = "names"
    BY <1>6, <2>1 DEF PruneOldLook, At
  <2> HIDE DEF r
  <2>4. th'[Main] = r /\ (\A w \in Workers : th'[w].pc = "idle") /\ Residue' = Residue
    BY <1>3, <2>3 DEF Residue
  <2>5. Residue' \subseteq r.seen \cup {r.name}
    BY <1>2, <2>2, <2>3, <2>4 DEF BootNames
  <2>6. \E m \in Num : r.name = Backup(m)
    BY <2>2
  <2>7. BootOpen'
    BY <1>0, <2>3 DEF BootOpen
  <2>8. BootOld'
    BY <2>2, <2>3, <2>4, <2>5, <2>6 DEF BootOld
  <2>. QED BY <2>2, <2>4, <2>7, <2>8 DEF BootInv, Booting, BootNames, BootRm, BootRest
<1>7. CASE PruneOldDelete(Main)
  <2>1. /\ th[Main].pc = "old" /\ dirs[Live] # None /\ th[Main].name \in Name /\ th[Main].name # Live
        /\ Residue \subseteq th[Main].seen \cup {th[Main].name}
    BY <1>1, <1>2, <1>7 DEF PruneOldDelete, At, BootOld, Locals, Live, Backup
  <2>2. CASE /\ dirs[th[Main].name] = None /\ UNCHANGED dirs
             /\ th' = [th EXCEPT ![Main] = [th[Main] EXCEPT !.pc = "names", !.name = Live, !.there = FALSE]]
    <3>1. PICK r : r = [th[Main] EXCEPT !.pc = "names", !.name = Live, !.there = FALSE]
      OBVIOUS
    <3>2. r.pc = "names" /\ r.seen = th[Main].seen
      BY <1>1, <3>1 DEF Locals
    <3>3. th'[Main] = r /\ \A w \in Workers : th'[w].pc = "idle"
      BY <1>3, <2>2, <3>1
    <3>4. Residue' \subseteq r.seen
      BY <2>1, <2>2, <3>2 DEF Residue
    <3>. QED BY <1>0, <2>1, <2>2, <3>2, <3>3, <3>4, BootBack
  <2>3. CASE RmBegin(Main, th[Main].name, [th[Main] EXCEPT !.pc = "pruning", !.there = FALSE])
    <3>1. PICK s : s = [th[Main] EXCEPT !.pc = "pruning", !.there = FALSE]
      OBVIOUS
    <3>2. s \in Locals /\ s.pc = "pruning" /\ s.name = th[Main].name /\ s.seen = th[Main].seen
      BY <1>1, <3>1 DEF Locals, Pcs
    <3>3. RmBegin(Main, th[Main].name, s) /\ Residue \subseteq s.seen \cup {th[Main].name}
      BY <2>1, <2>3, <3>1, <3>2
    <3>. QED BY <1>0, <1>2, <2>1, <3>2, <3>3, BootRmBegin
  <2>. QED BY <1>7, <2>2, <2>3 DEF PruneOldDelete
<1>13. CASE PruneEnd(Main)
  <2>1. PICK x : x = th[Main].name
    OBVIOUS
  <2>2. /\ th[Main].pc = "pruning" /\ x \in Name /\ dirs[x] # None /\ Main \in dirs[x].open
        /\ Files(dirs[x]) \subseteq th[Main].left /\ Residue \subseteq th[Main].seen \cup {x}
    BY <1>1, <1>2, <1>13, <2>1 DEF PruneEnd, At, BootRm, Locals
  <2>3. PICK r : r = [th[Main] EXCEPT !.pc = "names", !.name = Live, !.left = {}]
    OBVIOUS
  <2>4. r.pc = "names" /\ r.seen = th[Main].seen
    BY <1>1, <2>3 DEF Locals
  <2>5. RmEnd(Main, x, r, r)
    BY <1>13, <2>1, <2>3 DEF PruneEnd
  <2>6. \A y \in Name : dirs[y] # None /\ Main \in dirs[y].open => y = x
    BY <1>2, <2>1 DEF BootOpen
  <2>7. \A v \in Thread : ~At(v, "merging")
    BY <1>2, <2>2 DEF At, Thread
  <2>8. Put(x, None) /\ th' = [th EXCEPT ![Main] = r]
    BY <1>1, <2>2, <2>5, <2>6, <2>7, RmEndDone
  <2>9. th'[Main] = r /\ \A w \in Workers : th'[w].pc = "idle"
    BY <1>3, <2>8
  <2>10. Residue' \subseteq r.seen
    BY <2>2, <2>4, <2>8, PutResidue
  <2>11. \A y \in Name : dirs'[y] # None => dirs'[y].open = {}
    <3>1. \A y \in Name : dirs'[y] = IF y = x THEN None ELSE dirs[y]
      BY <2>2, <2>8 DEF Put, DataTyped
    <3>. QED BY <1>2, <2>6, <3>1 DEF BootOpen
  <2>. QED BY <2>4, <2>9, <2>10, <2>11, BootBack
<1>8. CASE PruneOldRestore(Main)
  <2> DEFINE r == [th[Main] EXCEPT !.pc = "names", !.name = Live]
  <2>1. r.pc = "names" /\ r.seen = th[Main].seen /\ th[Main].name \in Name
    BY <1>1 DEF Locals
  <2>2. /\ th' = [th EXCEPT ![Main] = r] /\ th[Main].pc = "old"
        /\ dirs[Live] = None /\ Move(th[Main].name, Live)
    BY <1>2, <1>8 DEF PruneOldRestore, At, BootOld
  <2> HIDE DEF r
  <2>3. th'[Main] = r /\ \A w \in Workers : th'[w].pc = "idle"
    BY <1>3, <2>2
  <2>4. Residue' \subseteq Residue \ {th[Main].name}
    BY <1>1, <2>1, <2>2 DEF Residue, Move, DataTyped
  <2>5. Residue' \subseteq r.seen
    BY <1>2, <2>1, <2>2, <2>4 DEF BootOld
  <2>6. \A x \in Name : dirs'[x] # None => dirs'[x].open = {}
    <3>1. \A x \in Name : \/ dirs'[x] = None \/ dirs'[x] = dirs[x]
                          \/ dirs'[x] = dirs[th[Main].name]
      BY <1>1, <2>1, <2>2 DEF Move, DataTyped
    <3>. QED BY <1>0, <2>1, <2>2, <3>1
  <2>. QED BY <2>1, <2>3, <2>5, <2>6, BootBack
<1>9. CASE PruneTmp(Main)
  <2> DEFINE r == [th[Main] EXCEPT !.pc = "partial", !.todo = {l \in Layers : lay[l] = "broken"}]
  <2>1. r.pc = "partial" /\ r.todo = {l \in Layers : lay[l] = "broken"}
    BY <1>1 DEF Locals
  <2>2. /\ th' = [th EXCEPT ![Main] = r] /\ dirs' = dirs /\ lay' = lay
        /\ th[Main].pc = "names" /\ th[Main].seen = {}
    BY <1>9 DEF PruneTmp, At
  <2>3. \A n \in Num : tmp'[n] = "none"
    BY <1>2, <1>9 DEF PruneTmp, At
  <2> HIDE DEF r
  <2>4. th'[Main] = r /\ (\A w \in Workers : th'[w].pc = "idle") /\ Residue' = Residue
    BY <1>3, <2>2 DEF Residue
  <2>5. Residue = {}
    BY <1>2, <2>2 DEF BootNames
  <2>6. BootOpen'
    BY <1>0, <2>2 DEF BootOpen
  <2>. QED BY <2>1, <2>2, <2>3, <2>4, <2>5, <2>6 DEF BootInv, Booting, BootNames, BootOld, BootRm, BootRest
<1>10. CASE PrunePartial(Main)
  <2>1. PICK l \in th[Main].todo :
            /\ lay' = [lay EXCEPT ![l] = "none"] /\ dirs' = Torn(dirs, l)
            /\ th' = [th EXCEPT ![Main] = [th[Main] EXCEPT !.todo = th[Main].todo \ {l}]]
    BY <1>10 DEF PrunePartial
  <2> DEFINE r == [th[Main] EXCEPT !.todo = th[Main].todo \ {l}]
  <2>2. th[Main].pc = "partial" /\ r.pc = "partial" /\ r.todo = th[Main].todo \ {l} /\ tmp' = tmp
    BY <1>1, <1>10 DEF Locals, PrunePartial, At
  <2>3. th' = [th EXCEPT ![Main] = r]
    BY <2>1
  <2> HIDE DEF r
  <2>4. th'[Main] = r /\ \A w \in Workers : th'[w].pc = "idle"
    BY <1>3, <2>3
  <2>5. Residue' = {}
    BY <1>2, <2>1, <2>2, TornResidue DEF BootRest
  <2>6. \A k \in Layers : lay'[k] = "broken" => k \in r.todo
    BY <1>2, <2>1, <2>2 DEF BootRest, DataTyped
  <2>7. BootOpen'
    BY <1>0, <2>1, <2>2, TornOpen DEF BootOpen
  <2>. QED BY <1>2, <2>2, <2>4, <2>5, <2>6, <2>7 DEF BootInv, Booting, BootNames, BootOld, BootRm, BootRest
<1>11. CASE PruneBuildDone(Main)
  <2>1. /\ th' = [th EXCEPT ![Main] = Idle] /\ dirs' = dirs /\ lay' = lay /\ tmp' = tmp
        /\ th[Main].pc = "partial" /\ th[Main].todo = {}
    BY <1>11 DEF PruneBuildDone, Finish, At
  <2>2. th'[Main] = Idle
    BY <1>3, <2>1
  <2>3. th'[Main].pc = "idle"
    BY <2>2, IdleType
  <2>4. Clean
    BY <1>2, <2>1 DEF BootRest, Residue
  <2>. QED BY <2>3, <2>4 DEF BootInv, Booting
<1>12. ~PruneReadRefs(Main) /\ ~PruneUnused(Main) /\ ~PruneUnusedEnd(Main)
  BY <1>2 DEF PruneReadRefs, PruneUnused, PruneUnusedEnd, At
<1>. QED BY <1>4, <1>5, <1>6, <1>7, <1>8, <1>9, <1>10, <1>11, <1>12, <1>13 DEF PruneStep

(* A step changes the locals of its own thread only. *)
LEMMA StepMoves ==
    ASSUME ThreadsTyped, DataTyped, NEW t \in Thread, Step(t) PROVE \E r : th' = [th EXCEPT ![t] = r]
<1>1. ASSUME NEW x, NEW r, RmBegin(t, x, r) PROVE \E k : th' = [th EXCEPT ![t] = k]
  BY <1>1 DEF RmBegin
<1>2. ASSUME NEW x, NEW d, NEW f, RmEnd(t, x, d, f) PROVE \E k : th' = [th EXCEPT ![t] = k]
  BY <1>2 DEF RmEnd
<1>3. CASE LayerStep(t) \/ ImageStep(t)
  BY <1>3 DEF LayerStep, ImageStep, Goto, Finish, Raise,
       LayerNext, ExtractCheck, ExtractClear, ExtractStart, ExtractPublish,
       SaveManifest, MergeBegin, MergeEnd, WriteRef
<1>4. CASE PullStep(t)
  BY <1>1, <1>2, <1>4 DEF PullStep, Goto, Finish, Raise, PullBegin, PullConfig, PullSwap, PullBackup,
       PullPublish, PullFail, PullRestore, PullDrop, PullDropEnd, PullCleanup, PullCleanupEnd
<1>5. CASE LoadStep(t)
  BY <1>1, <1>2, <1>5 DEF LoadStep, Goto, Finish, Raise, ClearBegin, ClearEnd, LoadBegin, LoadMake
<1>6. CASE PruneStep(t)
  BY <1>1, <1>2, <1>6 DEF PruneStep, Goto, Finish, PruneList, PruneStage, PruneOldLook, PruneOldDelete,
       PruneEnd, PruneOldRestore, PruneTmp, PrunePartial, PruneBuildDone, PruneReadRefs, PruneUnused,
       PruneUnusedEnd
<1>. QED BY <1>3, <1>4, <1>5, <1>6 DEF Step

(* Outside the prune, main has no step and requests wait for it. *)
LEMMA BootStep ==
    ASSUME ThreadsTyped, DataTyped, BootInv, [Next]_vars
    PROVE  /\ BootInv'
           /\ th[Main].pc # "idle" /\ th'[Main].pc = "idle" =>
                Residue' = {} /\ \A n \in Num : tmp'[n] = "none" /\ \A l \in Layers : lay'[l] # "broken"
<1>1. Main \in Thread /\ Main \notin Workers
  BY StoreAssumption DEF Thread
<1>2. ASSUME NEW t \in Workers, NEW op \in Ops, Request(t, op) PROVE th[Main].pc = "idle" /\ th'[Main].pc = "idle"
  BY <1>1, <1>2 DEF Request, At, ThreadsTyped
<1>3. ASSUME NEW t \in Thread, Step(t) PROVE th[t].pc # "idle"
  BY <1>3 DEF Step, LayerStep, ImageStep, PullStep, LoadStep, PruneStep,
              LayerNext, ExtractCheck, ExtractClear, ExtractStart, ExtractPublish,
              SaveManifest, MergeBegin, MergeEnd, WriteRef,
              PullBegin, PullConfig, PullSwap, PullBackup, PullPublish, PullFail, PullRestore,
              PullDrop, PullDropEnd, PullCleanup, PullCleanupEnd,
              ClearBegin, ClearEnd, LoadBegin, LoadMake,
              PruneList, PruneStage, PruneOldLook, PruneOldDelete, PruneEnd, PruneOldRestore,
              PruneTmp, PrunePartial,
              PruneBuildDone, PruneReadRefs, PruneUnused, PruneUnusedEnd, At
<1>4. ASSUME NEW t \in Thread, Step(t), th[Main].pc = "idle" PROVE th'[Main].pc = "idle"
  <2>1. t # Main
    BY <1>3, <1>4
  <2>2. \E r : th' = [th EXCEPT ![t] = r]
    BY <1>4, StepMoves
  <2>. QED BY <1>1, <1>4, <2>1, <2>2 DEF ThreadsTyped
<1>5. ASSUME NEW t \in Thread, Step(t), th[Main].pc # "idle" PROVE t = Main /\ PruneStep(Main)
  <2>1. /\ th[Main].pc \in {"prune", "names", "old", "pruning", "partial"}
        /\ \A w \in Workers : th[w].pc = "idle"
    BY <1>5 DEF BootInv, Booting
  <2>2. t = Main
    BY <1>3, <1>5, <2>1 DEF Thread
  <2>3. ~LayerStep(Main) /\ ~ImageStep(Main) /\ ~PullStep(Main) /\ ~LoadStep(Main)
    BY <2>1 DEF LayerStep, ImageStep, PullStep, LoadStep,
              LayerNext, ExtractCheck, ExtractClear, ExtractStart, ExtractPublish,
              SaveManifest, MergeBegin, MergeEnd, WriteRef,
              PullBegin, PullConfig, PullSwap, PullBackup, PullPublish, PullFail, PullRestore,
              PullDrop, PullDropEnd, PullCleanup, PullCleanupEnd,
              ClearBegin, ClearEnd, LoadBegin, LoadMake, At
  <2>. QED BY <1>5, <2>2, <2>3 DEF Step
<1>6. CASE Restart
  <2>1. th'[Main].pc = "prune" /\ \A w \in Workers : th'[w].pc = "idle"
    BY <1>1, <1>6 DEF Restart, Idle, Thread
  <2>2. \A x \in Name : dirs'[x] # None => dirs'[x].open = {}
    <3>1. \A x \in Name : dirs[x] # None => [dirs[x] EXCEPT !.open = {}].open = {}
      BY DEF DataTyped, Dir
    <3>. QED BY <1>6, <3>1 DEF Restart
  <2>. QED BY <2>1, <2>2 DEF BootInv, Booting, BootOpen, BootNames, BootOld, BootRm, BootRest
<1>7. CASE UNCHANGED vars
  BY <1>7 DEF vars, BootInv, Booting, BootOpen, BootNames, BootOld, BootRm, BootRest, Residue
<1>. QED BY <1>2, <1>4, <1>5, <1>6, <1>7, BootPruneStep DEF Next, BootInv, Booting

(* A new store has nothing to prune. *)
LEMMA BootInit == Init => BootInv
BY StoreAssumption DEF Init, BootInv, Booting, Idle, Thread

(* Whatever a crash left, and however often the daemon was killed while it   *)
(* cleaned up, a restarted daemon serves its first request from a store with *)
(* no stage, no backup, no half extracted and no half deleted layer.         *)
THEOREM BootCleansUp == Spec => BootLeavesNoResidue
<1>1. ThreadsTyped /\ DataTyped /\ BootInv /\ [Next]_vars =>
        /\ BootInv'
        /\ [~At(Main, "idle") /\ At(Main, "idle")' =>
              Residue' = {} /\ \A n \in Num : tmp'[n] = "none" /\ \A l \in Layers : lay'[l] # "broken"]_vars
  BY BootStep DEF At
<1>. QED BY <1>1, BootInit, TypeInit, TypeStep, PTL DEF Spec, BootLeavesNoResidue

-----------------------------------------------------------------------------
(***************************************************************************)
(* A published tag is never lost to pulls, prunes and crashes.             *)
(*                                                                         *)
(* That an intact directory is under the tag's name or a backup's is not   *)
(* inductive.  TagParts adds who is where: a pull has the stage and the    *)
(* backup of its number to itself (Roles), no prune is at work with it     *)
(* (Alone), a backup has an owner that will put it back or delete it       *)
(* (Owned), a directory is half deleted only while its thread is at that   *)
(* (Opens, Cleaning), and a stage has what its pull wrote (Staged).  Then  *)
(* what stands under the tag's name or a backup's is whole up to a         *)
(* deletion that began when the name was taken (Refs), and while the name  *)
(* is free somebody is on the way to put a backup back (Kept).             *)
(*                                                                         *)
(* The roots a merge may leave are a parameter R: the second part below    *)
(* uses the same lemmas for those that are whole.                          *)
(***************************************************************************)
Loading  == {"load", "rmi", "clear", "unlink", "make"}
Fetching == {"config", "layers", "extract", "clear layer", "unpack", "publish", "manifest"}
StagePcs == Fetching \cup {"merge", "merging", "ref", "swap", "backup", "rename"}
OwnPcs   == {"rename", "fail", "restore", "drop", "dropping", "cleanup", "cleaning"}
Tending  == {"rename", "fail", "restore"}

(* The name a thread with locals x is deleting. *)
Deletes(x, y) == \/ x.pc = "dropping" /\ y = Stage(x.n)
                 \/ x.pc = "cleaning" /\ y = Backup(x.n)
                 \/ x.pc = "pruning" /\ y = x.name

(* What a pull at pc has put into its stage d; what may stand under a tag. *)
Has(pc, d, R) == /\ d # None
                 /\ pc \in StagePcs \ Fetching => d.cfg # None
                 /\ pc \in {"merging", "ref", "swap", "backup", "rename"} => d.root # "none"
                 /\ pc \in {"ref", "swap", "backup", "rename"} => d.root \in R
                 /\ pc \in {"swap", "backup", "rename"} => d.ref
Good(R) == {d \in Dir : Intact(d) /\ d.root \in R}

Roles == /\ \A t \in Thread : th[t].pc \notin PrunePcs =>
                th[t].op = "pull" /\ th[t].n <= ops /\ th[t].pc \notin Loading
         /\ \A t, u \in Thread : t # u /\ th[t].pc \notin PrunePcs /\ th[u].pc \notin PrunePcs => th[t].n # th[u].n
         /\ \A t \in Thread : th[t].pc = "old" => \E n \in Num : th[t].name = Backup(n)
         /\ \A t \in Thread : th[t].pc = "pruning" => th[t].name # Live
         /\ \A w \in Workers : th[w].pc \in PrunePcs \ {"idle"} => th[w].op = "prune"
Alone == (\E t \in Thread : th[t].pc \in PrunePcs \ {"idle"}) => \A u \in Thread : th[u].pc \in PrunePcs
Owned == \A n \in Num : dirs[Backup(n)] # None /\ ~Booting =>
             \E t \in Thread : th[t].pc \in OwnPcs /\ th[t].n = n
Opens == \A x \in Name : dirs[x] # None => \A t \in dirs[x].open : Deletes(th[t], x)
Cleaning == \A t \in Thread : th[t].pc = "cleaning" =>
                /\ dirs[Backup(th[t].n)] # None /\ t \in dirs[Backup(th[t].n)].open
                /\ Files(dirs[Backup(th[t].n)]) \subseteq th[t].left
Staged(R) == \A t \in Thread : th[t].pc \in StagePcs => Has(th[t].pc, dirs[Stage(th[t].n)], R)
Refs(R)   == /\ dirs[Live] # None => dirs[Live] \in Good(R)
             /\ \A n \in Num : dirs[Backup(n)] # None =>
                   \/ dirs[Backup(n)] \in Good(R)
                   \/ dirs[Backup(n)].open # {}
                   \/ Booting /\ dirs[Live] # None
Kept == kept = "published" /\ dirs[Live] = None =>
           \E n \in Num : /\ dirs[Backup(n)] # None
                          /\ Booting \/ \E t \in Thread : th[t].pc \in Tending /\ th[t].n = n

TagParts(R) == Roles /\ Alone /\ Owned /\ Opens /\ Cleaning /\ Staged(R) /\ Refs(R) /\ Kept

Settled == {"whole", "lossy", "holed"}
TagInv  == kept # "exempt" => TagParts(Settled)

Ctx(R) == /\ TagParts(R) /\ R \subseteq Settled /\ BootInv /\ kept # "exempt" /\ kept' # "exempt"
          /\ ThreadsTyped /\ DataTyped /\ ThreadsTyped' /\ DataTyped'

(* The names differ, and so do those of two requests. *)
LEMMA NameFacts ==
    /\ \A n : Live # Stage(n) /\ Live # Backup(n)
    /\ \A n, m : Stage(n) # Backup(m)
    /\ \A n, m : Stage(n) = Stage(m) => n = m
    /\ \A n, m : Backup(n) = Backup(m) => n = m
BY DEF Live, Stage, Backup

(* Nothing happened to a directory but that a merge into it lost content. *)
Like(d, e) == e = d \/ (d # None /\ d.root = "part" /\ e = [d EXCEPT !.root = "holed"])

(* Such a directory has its files, its deletions and what its pull wrote. *)
LEMMA LikeFacts ==
    ASSUME NEW d \in Dir \cup {None}, NEW e, Like(d, e), NEW R, R \subseteq Settled
    PROVE  /\ d = None <=> e = None
           /\ d # None => Files(e) = Files(d) /\ e.open = d.open
           /\ d # None /\ d.root # "part" => e = d
           /\ d \in Good(R) => e = d
           /\ \A pc : Has(pc, d, R) => Has(pc, e, R)
<1>1. CASE e = d
  BY <1>1
<1>2. CASE d # None /\ d.root = "part" /\ e = [d EXCEPT !.root = "holed"]
  <2>1. d \in Dir
    BY <1>2
  <2>2. e \in Dir /\ e.root = "holed" /\ e.cfg = d.cfg /\ e.man = d.man /\ e.ref = d.ref /\ e.open = d.open
    BY <1>2, <2>1 DEF Dir
  <2>3. e # None
    BY <2>2, StoreAssumption
  <2>4. Files(e) = Files(d)
    BY <1>2, <2>2 DEF Files
  <2>5. d \notin Good(R)
    BY <1>2 DEF Good, Settled
  <2>6. \A pc : Has(pc, d, R) => Has(pc, e, R)
    BY <1>2, <2>2, <2>3 DEF Has, Settled
  <2>. QED BY <1>2, <2>2, <2>3, <2>4, <2>5, <2>6
<1>. QED BY <1>1, <1>2 DEF Like

(* What a racing deletion takes from the merges. *)
LEMMA TornLike ==
    ASSUME DataTyped, NEW l, dirs' = Torn(dirs, l), NEW x \in Name PROVE Like(dirs[x], dirs'[x])
BY DEF Torn, Like

(* Where a pull is at work, no prune is, and the others have other numbers. *)
LEMMA Serving ==
    ASSUME NEW R, Ctx(R), NEW t \in Thread, th[t].pc \notin PrunePcs
    PROVE  /\ t \in Workers /\ t # Main /\ th[t].n \in Num /\ th[t].op = "pull" /\ th[t] \in Locals
           /\ th[t].n <= ops /\ ~Booting
           /\ Stage(th[t].n) \in Name /\ Backup(th[t].n) \in Name /\ Live \in Name
           /\ \A u \in Thread : u # t /\ th[u].pc \notin PrunePcs => th[u].n # th[t].n
           /\ \A u \in Thread : th[u].pc \in PrunePcs => th[u].pc = "idle"
           /\ \A u \in Thread : th[u].pc \notin PrunePcs => th[u].n \in Num
<1>1. /\ t \in Workers /\ th[t].n \in Num /\ th[t] \in Locals
      /\ \A u \in Thread : th[u].pc \notin PrunePcs => th[u].n \in Num
  BY DEF Ctx, ThreadsTyped, Numbered
<1>2. th[t].op = "pull" /\ th[t].n <= ops /\ \A u \in Thread : u # t /\ th[u].pc \notin PrunePcs => th[u].n # th[t].n
  BY DEF Ctx, TagParts, Roles
<1>3. \A u \in Thread : th[u].pc \in PrunePcs => th[u].pc = "idle"
  BY DEF Ctx, TagParts, Alone
<1>4. ~Booting
  <2>1. Booting => th[t].pc = "idle"
    BY <1>1 DEF Ctx, BootInv
  <2>. QED BY <2>1 DEF PrunePcs
<1>. QED BY <1>1, <1>2, <1>3, <1>4, NameTypes, StoreAssumption

(* Nobody else deletes what is under the tag's name or the pull's own. *)
LEMMA OwnOpen ==
    ASSUME NEW R, Ctx(R), NEW t \in Thread, th[t].pc \notin PrunePcs,
           NEW x \in {Live, Stage(th[t].n), Backup(th[t].n)}, dirs[x] # None, NEW u \in dirs[x].open
    PROVE  u = t /\ Deletes(th[t], x)
<1>1. x \in Name
  BY Serving
<1>2. u \in Thread /\ Deletes(th[u], x)
  BY <1>1 DEF Ctx, DataTyped, Dir, TagParts, Opens
<1>3. th[u].pc \notin PrunePcs
  BY <1>2, Serving DEF Deletes, PrunePcs
<1>4. x = Stage(th[u].n) \/ x = Backup(th[u].n)
  BY <1>2, <1>3 DEF Deletes, PrunePcs
<1>5. th[u].n = th[t].n
  BY <1>4, NameFacts
<1>6. u = t
  BY <1>2, <1>3, <1>5, Serving
<1>. QED BY <1>2, <1>6

(* A pull that has not set the tag's directory aside has no backup. *)
LEMMA NotOwner ==
    ASSUME NEW R, Ctx(R), NEW t \in Thread, th[t].pc \notin PrunePcs \cup OwnPcs
    PROVE  dirs[Backup(th[t].n)] = None
<1>1. SUFFICES ASSUME dirs[Backup(th[t].n)] # None PROVE FALSE
  OBVIOUS
<1>2. PICK u \in Thread : th[u].pc \in OwnPcs /\ th[u].n = th[t].n
  BY <1>1, Serving DEF Ctx, TagParts, Owned
<1>3. th[u].pc \notin PrunePcs
  BY <1>2 DEF OwnPcs, PrunePcs
<1>. QED BY <1>2, <1>3, Serving

(* What another pull sees of its own names: they are only like before. *)
Elsewhere(t) == \A x \in Name \ {Live, Stage(th[t].n), Backup(th[t].n)} : Like(dirs[x], dirs'[x])

(* A step of a pull, by what it does to the tag's name and its own. *)
LEMMA PullKeeps ==
    ASSUME NEW R, Ctx(R), NEW t \in Thread, th[t].pc \notin PrunePcs,
           NEW r, th' = [th EXCEPT ![t] = r], ops' = ops,
           r = Idle \/ (r.pc \notin PrunePcs \cup Loading /\ r.op = "pull" /\ r.n = th[t].n),
           Elsewhere(t),
           \A x \in {Live, Stage(th[t].n), Backup(th[t].n)} :
               dirs'[x] # None => \A u \in dirs'[x].open : u = t /\ Deletes(r, x),
           r.pc = "cleaning" => /\ dirs'[Backup(th[t].n)] # None /\ t \in dirs'[Backup(th[t].n)].open
                                /\ Files(dirs'[Backup(th[t].n)]) \subseteq r.left,
           dirs'[Backup(th[t].n)] # None => r.pc \in OwnPcs,
           r.pc \in StagePcs => Has(r.pc, dirs'[Stage(th[t].n)], R),
           dirs'[Live] # None => dirs'[Live] \in Good(R),
           dirs'[Backup(th[t].n)] # None =>
               dirs'[Backup(th[t].n)] \in Good(R) \/ dirs'[Backup(th[t].n)].open # {},
           kept' = "published" /\ dirs'[Live] = None =>
               \/ dirs'[Backup(th[t].n)] # None /\ r.pc \in Tending
               \/ /\ kept = "published" /\ dirs[Live] = None
                  /\ ~(dirs[Backup(th[t].n)] # None /\ th[t].pc \in Tending)
    PROVE  TagParts(R)'
<1> DEFINE n == th[t].n
<1>1. /\ t \in Workers /\ t # Main /\ n \in Num /\ ~Booting /\ n <= ops
      /\ Stage(n) \in Name /\ Backup(n) \in Name /\ Live \in Name
      /\ \A u \in Thread : u # t /\ th[u].pc \notin PrunePcs => th[u].n # n
      /\ \A u \in Thread : th[u].pc \in PrunePcs => th[u].pc = "idle"
      /\ \A u \in Thread : th[u].pc \notin PrunePcs => th[u].n \in Num
  BY Serving
<1>2. th'[t] = r /\ \A u \in Thread : u # t => th'[u] = th[u]
  BY DEF Ctx, ThreadsTyped
<1>3. Main \in Thread /\ ~Booting'
  BY <1>1, <1>2 DEF Booting, Thread
<1>4. r.pc \in PrunePcs => r.pc = "idle" /\ r = Idle
  BY IdleType
<1>5. \A x \in Name : dirs[x] \in Dir \cup {None}
  BY DEF Ctx, DataTyped
<1>6. \A m \in Num : m # n => /\ Like(dirs[Stage(m)], dirs'[Stage(m)]) /\ Stage(m) \in Name
                              /\ Like(dirs[Backup(m)], dirs'[Backup(m)]) /\ Backup(m) \in Name
  BY NameTypes, NameFacts DEF Elsewhere
<1>7. Roles'
  <2>1. \A u \in Thread : th'[u].pc \notin PrunePcs =>
            /\ th'[u].op = "pull" /\ th'[u].n <= ops /\ th'[u].pc \notin Loading
            /\ th'[u].n = th[u].n /\ th[u].pc \notin PrunePcs
    <3>1. r.pc \notin PrunePcs => r.op = "pull" /\ r.pc \notin Loading /\ r.n = n
      BY IdleType DEF PrunePcs
    <3>2. ASSUME NEW u \in Thread, th[u].pc \notin PrunePcs
          PROVE  th[u].op = "pull" /\ th[u].n <= ops /\ th[u].pc \notin Loading
      BY <3>2 DEF Ctx, TagParts, Roles
    <3>. QED BY <1>1, <1>2, <3>1, <3>2
  <2>2. \A u \in Thread : th'[u].pc \in PrunePcs => th'[u].pc = "idle"
    BY <1>1, <1>2, <1>4
  <2>3. \A u, v \in Thread : u # v /\ th'[u].pc \notin PrunePcs /\ th'[v].pc \notin PrunePcs => th'[u].n # th'[v].n
    BY <2>1 DEF Ctx, TagParts, Roles
  <2>. QED BY <2>1, <2>2, <2>3 DEF Roles, PrunePcs, Thread
<1>8. Alone'
  BY <1>1, <1>2, <1>4 DEF Alone
<1>9. Owned'
  <2>1. ASSUME NEW m \in Num, m # n, dirs'[Backup(m)] # None
        PROVE  \E u \in Thread : th'[u].pc \in OwnPcs /\ th'[u].n = m
    <3>1. dirs[Backup(m)] # None
      BY <1>5, <1>6, <2>1, LikeFacts
    <3>2. PICK u \in Thread : th[u].pc \in OwnPcs /\ th[u].n = m
      BY <1>1, <3>1 DEF Ctx, TagParts, Owned
    <3>. QED BY <1>2, <2>1, <3>2
  <2>2. dirs'[Backup(n)] # None => th'[t].pc \in OwnPcs /\ th'[t].n = n
    BY <1>2, IdleType DEF OwnPcs
  <2>. QED BY <2>1, <2>2 DEF Owned
<1>10. Opens'
  <2>1. ASSUME NEW x \in Name \ {Live, Stage(n), Backup(n)}, dirs'[x] # None, NEW u \in dirs'[x].open
        PROVE  Deletes(th'[u], x)
    <3>1. Like(dirs[x], dirs'[x])
      BY <2>1 DEF Elsewhere
    <3>2. dirs[x] # None /\ u \in dirs[x].open
      BY <1>5, <2>1, <3>1, LikeFacts
    <3>3. u \in Thread /\ Deletes(th[u], x)
      BY <1>5, <3>2 DEF Ctx, TagParts, Opens, Dir
    <3>4. u # t
      BY <2>1, <3>3 DEF Deletes, PrunePcs
    <3>. QED BY <1>2, <3>3, <3>4
  <2>2. ASSUME NEW x \in {Live, Stage(n), Backup(n)}, dirs'[x] # None, NEW u \in dirs'[x].open
        PROVE  Deletes(th'[u], x)
    BY <1>2, <2>2
  <2>. QED BY <2>1, <2>2 DEF Opens
<1>11. \A u \in Thread : u # t /\ th'[u].pc \notin PrunePcs => /\ th'[u] = th[u] /\ th[u].n \in Num /\ th[u].n # n
  BY <1>1, <1>2
<1>12. Cleaning'
  <2>1. ASSUME NEW u \in Thread, u # t, th'[u].pc = "cleaning"
        PROVE  /\ dirs'[Backup(th'[u].n)] # None /\ u \in dirs'[Backup(th'[u].n)].open
               /\ Files(dirs'[Backup(th'[u].n)]) \subseteq th'[u].left
    <3>1. th'[u] = th[u] /\ th[u].n \in Num /\ th[u].n # n
      BY <1>11, <2>1 DEF PrunePcs
    <3>2. /\ dirs[Backup(th[u].n)] # None /\ u \in dirs[Backup(th[u].n)].open
          /\ Files(dirs[Backup(th[u].n)]) \subseteq th[u].left
      BY <2>1, <3>1 DEF Ctx, TagParts, Cleaning
    <3>3. /\ dirs'[Backup(th[u].n)] # None /\ dirs'[Backup(th[u].n)].open = dirs[Backup(th[u].n)].open
          /\ Files(dirs'[Backup(th[u].n)]) = Files(dirs[Backup(th[u].n)])
      BY <1>5, <1>6, <3>1, <3>2, LikeFacts DEF Ctx
    <3>. QED BY <3>1, <3>2, <3>3
  <2>2. th'[t].pc = "cleaning" => th'[t].n = n
    BY <1>2, IdleType
  <2>. QED BY <1>2, <2>1, <2>2 DEF Cleaning
<1>13. Staged(R)'
  <2>1. ASSUME NEW u \in Thread, u # t, th'[u].pc \in StagePcs PROVE Has(th'[u].pc, dirs'[Stage(th'[u].n)], R)
    <3>1. th'[u] = th[u] /\ th[u].n \in Num /\ th[u].n # n
      BY <1>11, <2>1 DEF PrunePcs, StagePcs, Fetching
    <3>2. Has(th[u].pc, dirs[Stage(th[u].n)], R)
      BY <2>1, <3>1 DEF Ctx, TagParts, Staged
    <3>. QED BY <1>5, <1>6, <3>1, <3>2, LikeFacts DEF Ctx
  <2>2. th'[t].pc \in StagePcs => th'[t].n = n
    BY <1>2, IdleType DEF StagePcs, Fetching
  <2>. QED BY <1>2, <2>1, <2>2 DEF Staged
<1>14. Refs(R)'
  <2>1. ASSUME NEW m \in Num, m # n, dirs'[Backup(m)] # None
        PROVE  dirs'[Backup(m)] \in Good(R) \/ dirs'[Backup(m)].open # {}
    <3>1. Like(dirs[Backup(m)], dirs'[Backup(m)]) /\ dirs[Backup(m)] \in Dir \cup {None}
      BY <1>5, <1>6, <2>1
    <3>2. dirs[Backup(m)] # None
      BY <2>1, <3>1, LikeFacts DEF Ctx
    <3>3. dirs[Backup(m)] \in Good(R) \/ dirs[Backup(m)].open # {}
      BY <1>1, <3>2 DEF Ctx, TagParts, Refs
    <3>. QED BY <3>1, <3>2, <3>3, LikeFacts DEF Ctx
  <2>. QED BY <2>1 DEF Refs
<1>15. Kept'
  <2>1. SUFFICES ASSUME kept' = "published", dirs'[Live] = None
                 PROVE  \E m \in Num : /\ dirs'[Backup(m)] # None
                                       /\ \E u \in Thread : th'[u].pc \in Tending /\ th'[u].n = m
    BY DEF Kept
  <2>2. CASE dirs'[Backup(n)] # None /\ r.pc \in Tending
    <3>1. r.n = n
      BY <2>2, IdleType DEF Tending
    <3>. QED BY <1>1, <1>2, <2>2, <3>1
  <2>3. CASE kept = "published" /\ dirs[Live] = None /\ ~(dirs[Backup(n)] # None /\ th[t].pc \in Tending)
    <3>1. PICK m \in Num : /\ dirs[Backup(m)] # None
                           /\ \E u \in Thread : th[u].pc \in Tending /\ th[u].n = m
      BY <1>1, <2>3 DEF Ctx, TagParts, Kept
    <3>2. PICK u \in Thread : th[u].pc \in Tending /\ th[u].n = m
      BY <3>1
    <3>3. th[u].pc \notin PrunePcs
      BY <3>2 DEF Tending, PrunePcs
    <3>4. u # t
      BY <2>3, <3>1, <3>2
    <3>5. m # n
      BY <1>1, <3>2, <3>3, <3>4
    <3>6. dirs'[Backup(m)] # None
      BY <1>5, <1>6, <3>1, <3>5, LikeFacts
    <3>. QED BY <1>2, <3>2, <3>4, <3>6
  <2>. QED BY <2>1, <2>2, <2>3
<1>. QED BY <1>7, <1>8, <1>9, <1>10, <1>12, <1>13, <1>14, <1>15 DEF TagParts

(* A pull that moves on: nothing happened to the directories.  It leaves a   *)
(* backup only to another of its owners' steps, and one that may have to be   *)
(* put back only to those that will.                                          *)
LEMMA PullMoves ==
    ASSUME NEW R, Ctx(R), NEW t \in Thread, th[t].pc \notin PrunePcs \cup {"dropping", "cleaning"},
           NEW r, th' = [th EXCEPT ![t] = r], ops' = ops, kept' = kept,
           r = Idle \/ (r.pc \notin PrunePcs \cup Loading /\ r.op = "pull" /\ r.n = th[t].n),
           \A x \in Name : Like(dirs[x], dirs'[x]), r.pc # "cleaning",
           dirs[Backup(th[t].n)] # None => r.pc \in OwnPcs,
           r.pc \in StagePcs => Has(r.pc, dirs[Stage(th[t].n)], R),
           dirs[Live] = None /\ dirs[Backup(th[t].n)] # None /\ th[t].pc \in Tending => r.pc \in Tending
    PROVE  TagParts(R)'
<1>1. /\ Live \in Name /\ Stage(th[t].n) \in Name /\ Backup(th[t].n) \in Name /\ th[t].n \in Num /\ ~Booting
  BY Serving
<1>2. \A x \in Name : dirs[x] \in Dir \cup {None}
  BY DEF Ctx, DataTyped
<1>3. ASSUME NEW x \in {Live, Stage(th[t].n), Backup(th[t].n)}, dirs'[x] # None, NEW u \in dirs'[x].open
      PROVE  FALSE
  <2>1. dirs[x] # None /\ u \in dirs[x].open
    <3>1. x \in Name /\ Like(dirs[x], dirs'[x]) /\ dirs[x] \in Dir \cup {None}
      BY <1>1, <1>2
    <3>. QED BY <1>3, <3>1, LikeFacts DEF Ctx
  <2>2. Deletes(th[t], x)
    BY <2>1, OwnOpen
  <2>. QED BY <2>2 DEF Deletes, PrunePcs
<1>4. /\ dirs'[Live] = None <=> dirs[Live] = None
      /\ dirs'[Backup(th[t].n)] = None <=> dirs[Backup(th[t].n)] = None
  BY <1>1, <1>2, LikeFacts DEF Ctx
<1>5. dirs'[Live] # None => dirs'[Live] \in Good(R)
  BY <1>1, <1>2, <1>4, LikeFacts DEF Ctx, TagParts, Refs
<1>6. dirs'[Backup(th[t].n)] # None => dirs'[Backup(th[t].n)] \in Good(R)
  <2>1. SUFFICES ASSUME dirs'[Backup(th[t].n)] # None PROVE dirs'[Backup(th[t].n)] \in Good(R)
    OBVIOUS
  <2>2. dirs[Backup(th[t].n)] # None
    BY <1>4, <2>1
  <2>3. dirs[Backup(th[t].n)].open = {}
    BY <1>1, <1>2, <1>3, <2>1, <2>2, LikeFacts DEF Ctx
  <2>4. dirs[Backup(th[t].n)] \in Good(R)
    BY <1>1, <2>2, <2>3 DEF Ctx, TagParts, Refs
  <2>. QED BY <1>1, <1>2, <2>4, LikeFacts DEF Ctx
<1>7. r.pc \in StagePcs => Has(r.pc, dirs'[Stage(th[t].n)], R)
  BY <1>1, <1>2, LikeFacts DEF Ctx
<1>8. kept' = "published" /\ dirs'[Live] = None =>
         \/ dirs'[Backup(th[t].n)] # None /\ r.pc \in Tending
         \/ /\ kept = "published" /\ dirs[Live] = None
            /\ ~(dirs[Backup(th[t].n)] # None /\ th[t].pc \in Tending)
  BY <1>4
<1>9. Elsewhere(t)
  BY DEF Elsewhere
<1>10. dirs'[Backup(th[t].n)] # None => r.pc \in OwnPcs
  BY <1>4
<1>. QED BY <1>3, <1>5, <1>6, <1>7, <1>8, <1>9, <1>10, PullKeeps

(* Where a pull writes nothing, all is like before. *)
LEMMA SameLike == ASSUME dirs' = dirs PROVE \A x \in Name : Like(dirs[x], dirs'[x])
BY DEF Like

(* The locals of a pull at another of its program points. *)
LEMMA PcFacts ==
    ASSUME NEW R, Ctx(R), NEW t \in Thread, th[t].pc \notin PrunePcs, NEW p, NEW r, r = [th[t] EXCEPT !.pc = p]
    PROVE  /\ r.pc = p /\ r.op = "pull" /\ r.n = th[t].n /\ r.want = th[t].want /\ r.todo = th[t].todo
           /\ r.layer = th[t].layer /\ r.left = th[t].left
<1>1. th[t] \in Locals /\ th[t].op = "pull"
  BY Serving
<1>. QED BY <1>1 DEF Locals

(* An exception leads to the error path. *)
LEMMA RaiseKeeps ==
    ASSUME NEW R, Ctx(R), NEW t \in Thread, th[t].pc \in StagePcs, Raise(t),
           \A x \in Name : Like(dirs[x], dirs'[x]), ops' = ops, kept' = kept
    PROVE  TagParts(R)'
<1>1. th[t].pc \notin PrunePcs \cup {"dropping", "cleaning"}
  BY DEF StagePcs, Fetching, PrunePcs
<1>2. PICK r : r = [th[t] EXCEPT !.pc = "fail"]
  OBVIOUS
<1>3. r.pc = "fail" /\ r.op = "pull" /\ r.n = th[t].n
  <2>1. th[t] \in Locals /\ th[t].op = "pull"
    BY <1>1, Serving
  <2>. QED BY <1>2, <2>1 DEF Locals
<1>4. th' = [th EXCEPT ![t] = r]
  BY <1>1, <1>2, Serving DEF Raise, Goto, Ctx, ThreadsTyped
<1>5. r.pc \notin PrunePcs \cup Loading /\ r.pc \in OwnPcs /\ r.pc \in Tending /\ r.pc \notin StagePcs
  BY <1>3 DEF PrunePcs, Loading, OwnPcs, Tending, StagePcs, Fetching
<1>. QED BY <1>1, <1>3, <1>4, <1>5, PullMoves

(* While a pull fetches, its stage is only there. *)
LEMMA FetchKeeps ==
    ASSUME NEW R, Ctx(R), NEW t \in Thread, th[t].pc \in Fetching,
           NEW r, th' = [th EXCEPT ![t] = r], r.pc \in Fetching, r.op = "pull", r.n = th[t].n,
           \A x \in Name : Like(dirs[x], dirs'[x]), ops' = ops, kept' = kept
    PROVE  TagParts(R)'
<1>1. th[t].pc \notin PrunePcs \cup {"dropping", "cleaning"} \cup OwnPcs /\ th[t].pc \in StagePcs /\ th[t].pc \notin Tending
  BY DEF Fetching, StagePcs, PrunePcs, OwnPcs, Tending
<1>2. dirs[Backup(th[t].n)] = None
  BY <1>1, NotOwner
<1>3. r.pc \notin PrunePcs \cup Loading /\ r.pc # "cleaning"
  BY DEF Fetching, PrunePcs, Loading
<1>4. dirs[Stage(th[t].n)] # None
  BY <1>1 DEF Ctx, TagParts, Staged, Has
<1>5. Has(r.pc, dirs[Stage(th[t].n)], R)
  BY <1>4 DEF Has, Fetching
<1>. QED BY <1>1, <1>2, <1>3, <1>5, PullMoves

(* The layers of a pull. *)
LEMMA LayerStepTag == ASSUME NEW R, Ctx(R), NEW t \in Thread, LayerStep(t), th[t].op = "pull" PROVE TagParts(R)'
<1>1. th[t].pc \in Fetching
  BY DEF LayerStep, LayerNext, ExtractCheck, ExtractClear, ExtractStart, ExtractPublish, At, Fetching
<1>2. th[t].pc \notin PrunePcs /\ th[t].pc \in StagePcs /\ th[t] \in Locals
  BY <1>1 DEF Fetching, StagePcs, PrunePcs, Ctx, ThreadsTyped
<1>3. \A x \in Name : Like(dirs[x], dirs'[x])
  <2>1. CASE ExtractClear(t)
    BY <2>1, TornLike DEF ExtractClear, Gut, Ctx
  <2>2. CASE dirs' = dirs
    BY <2>2, SameLike
  <2>. QED BY <2>1, <2>2 DEF LayerStep, LayerNext, ExtractCheck, ExtractStart, ExtractPublish
<1>4. ops' = ops /\ kept' = kept
  BY DEF LayerStep, LayerNext, ExtractCheck, ExtractClear, ExtractStart, ExtractPublish
<1>5. ASSUME NEW p \in Fetching, Goto(t, p) PROVE TagParts(R)'
  <2>1. PICK r : r = [th[t] EXCEPT !.pc = p]
    OBVIOUS
  <2>2. r.pc = p /\ r.op = "pull" /\ r.n = th[t].n
    BY <1>2, <2>1, PcFacts
  <2>3. th' = [th EXCEPT ![t] = r]
    BY <1>5, <2>1 DEF Goto, Ctx, ThreadsTyped
  <2>. QED BY <1>1, <1>3, <1>4, <2>2, <2>3, FetchKeeps
<1>6. CASE Raise(t)
  BY <1>2, <1>3, <1>4, <1>6, RaiseKeeps
<1>7. ASSUME NEW r, th' = [th EXCEPT ![t] = r], r.pc \in Fetching, r.op = th[t].op, r.n = th[t].n
      PROVE  TagParts(R)'
  BY <1>1, <1>3, <1>4, <1>7, FetchKeeps
<1>8. ASSUME NEW l, th' = [th EXCEPT ![t] = [th[t] EXCEPT !.todo = th[t].todo \ {l}]] PROVE TagParts(R)'
  <2>1. PICK r : r = [th[t] EXCEPT !.todo = th[t].todo \ {l}]
    OBVIOUS
  <2>2. r.pc = th[t].pc /\ r.op = th[t].op /\ r.n = th[t].n
    BY <1>2, <2>1 DEF Locals
  <2>. QED BY <1>1, <1>7, <1>8, <2>1, <2>2
<1>9. ASSUME NEW l, th' = [th EXCEPT ![t] = [th[t] EXCEPT !.pc = "extract", !.layer = l]] PROVE TagParts(R)'
  <2>1. PICK r : r = [th[t] EXCEPT !.pc = "extract", !.layer = l]
    OBVIOUS
  <2>2. r.pc = "extract" /\ r.op = th[t].op /\ r.n = th[t].n
    BY <1>2, <2>1 DEF Locals
  <2>. QED BY <1>7, <1>9, <2>1, <2>2 DEF Fetching
<1>10. ASSUME NEW l, th' = [th EXCEPT ![t] = [th[t] EXCEPT !.pc = "layers", !.todo = th[t].todo \ {l}]]
       PROVE  TagParts(R)'
  <2>1. PICK r : r = [th[t] EXCEPT !.pc = "layers", !.todo = th[t].todo \ {l}]
    OBVIOUS
  <2>2. r.pc = "layers" /\ r.op = th[t].op /\ r.n = th[t].n
    BY <1>2, <2>1 DEF Locals
  <2>. QED BY <1>7, <1>10, <2>1, <2>2 DEF Fetching
<1>11. CASE LayerNext(t)
  BY <1>5, <1>6, <1>8, <1>9, <1>11 DEF LayerNext, Fetching
<1>12. CASE ExtractCheck(t)
  BY <1>5, <1>10, <1>12 DEF ExtractCheck, Fetching
<1>13. CASE ExtractClear(t) \/ ExtractStart(t)
  BY <1>5, <1>13 DEF ExtractClear, ExtractStart, Fetching
<1>14. CASE ExtractPublish(t)
  BY <1>6, <1>10, <1>14 DEF ExtractPublish
<1>. QED BY <1>11, <1>12, <1>13, <1>14 DEF LayerStep

(* A pull that writes to its own stage, or deletes it. *)
LEMMA StageKeeps ==
    ASSUME NEW R, Ctx(R), NEW t \in Thread, th[t].pc \notin PrunePcs \cup {"cleaning"},
           NEW r, th' = [th EXCEPT ![t] = r], ops' = ops, kept' = kept,
           r.pc \notin PrunePcs \cup Loading \cup {"cleaning"}, r.op = "pull", r.n = th[t].n,
           NEW d, Put(Stage(th[t].n), d),
           d # None => \A u \in d.open : u = t /\ Deletes(r, Stage(th[t].n)),
           dirs[Backup(th[t].n)] # None => r.pc \in OwnPcs, th[t].pc \notin Tending,
           r.pc \in StagePcs => Has(r.pc, d, R)
    PROVE  TagParts(R)'
<1>1. /\ Live \in Name /\ Stage(th[t].n) \in Name /\ Backup(th[t].n) \in Name /\ th[t].n \in Num /\ ~Booting
  BY Serving
<1>2. \A x \in Name : dirs'[x] = IF x = Stage(th[t].n) THEN d ELSE dirs[x]
  BY <1>1 DEF Put, Ctx, DataTyped
<1>3. dirs'[Live] = dirs[Live] /\ dirs'[Backup(th[t].n)] = dirs[Backup(th[t].n)] /\ dirs'[Stage(th[t].n)] = d
  BY <1>1, <1>2, NameFacts
<1>4. Elsewhere(t)
  BY <1>2 DEF Elsewhere, Like
<1>5. ASSUME NEW x \in {Live, Backup(th[t].n)}, dirs'[x] # None, NEW u \in dirs'[x].open PROVE FALSE
  <2>1. dirs[x] # None /\ u \in dirs[x].open
    BY <1>3, <1>5
  <2>2. Deletes(th[t], x)
    BY <2>1, OwnOpen
  <2>. QED BY <2>2, NameFacts DEF Deletes, PrunePcs
<1>6. \A x \in {Live, Stage(th[t].n), Backup(th[t].n)} :
          dirs'[x] # None => \A u \in dirs'[x].open : u = t /\ Deletes(r, x)
  BY <1>3, <1>5
<1>7. /\ dirs'[Live] # None => dirs'[Live] \in Good(R)
      /\ dirs'[Backup(th[t].n)] # None =>
            dirs'[Backup(th[t].n)] \in Good(R) \/ dirs'[Backup(th[t].n)].open # {}
  BY <1>1, <1>3 DEF Ctx, TagParts, Refs
<1>. QED BY <1>3, <1>4, <1>6, <1>7, PullKeeps

(* What a merge that ends leaves is one of the roots R. *)
MergesTo(R) == \A t \in Thread : MergeEnd(t) /\ th[t].op = "pull" /\ dirs[Stage(th[t].n)] # None =>
                  \/ (Raise(t) /\ UNCHANGED dirs)
                  \/ dirs'[Stage(th[t].n)].root \in R

(* The manifest, the merge and image_ref of a pull. *)
LEMMA ImageStepTag ==
    ASSUME NEW R, Ctx(R), MergesTo(R), NEW t \in Thread, ImageStep(t), th[t].op = "pull" PROVE TagParts(R)'
<1>1. th[t].pc \in {"manifest", "merge", "merging", "ref"}
  BY DEF ImageStep, SaveManifest, MergeBegin, MergeEnd, WriteRef, At
<1>2. /\ th[t].pc \notin PrunePcs \cup {"dropping", "cleaning"} \cup OwnPcs
      /\ th[t].pc \in StagePcs /\ th[t].pc \notin Tending
  BY <1>1 DEF Fetching, StagePcs, PrunePcs, OwnPcs, Tending
<1>3. dirs[Backup(th[t].n)] = None
  BY <1>2, NotOwner
<1> DEFINE x == Stage(th[t].n)
<1>4. /\ x \in Name /\ Target(t) = x /\ th[t] \in Locals /\ dirs[x] \in Dir /\ dirs[x] # None
      /\ Has(th[t].pc, dirs[x], R)
  BY <1>2, Serving DEF Target, Ctx, DataTyped, TagParts, Staged, Has
<1>5. dirs[x].open = {}
  <2>1. ASSUME NEW u \in dirs[x].open PROVE FALSE
    <3>1. Deletes(th[t], x)
      BY <1>2, <1>4, <2>1, OwnOpen
    <3>. QED BY <1>2, <3>1 DEF Deletes, PrunePcs
  <2>. QED BY <2>1
<1>6. ops' = ops /\ kept' = kept
  BY DEF ImageStep, SaveManifest, MergeBegin, MergeEnd, WriteRef
<1>7. ASSUME NEW p \in {"merge", "merging", "ref", "swap"}, Goto(t, p), NEW d, Put(x, d), d \in Dir, d.open = {},
             Has(p, d, R)
      PROVE  TagParts(R)'
  <2>1. PICK r : r = [th[t] EXCEPT !.pc = p]
    OBVIOUS
  <2>2. r.pc = p /\ r.op = "pull" /\ r.n = th[t].n
    BY <1>4, <2>1 DEF Locals
  <2>3. th' = [th EXCEPT ![t] = r]
    BY <1>7, <2>1 DEF Goto, Ctx, ThreadsTyped
  <2>4. r.pc \notin PrunePcs \cup Loading \cup {"cleaning"}
    BY <2>2 DEF PrunePcs, Loading
  <2>5. d.open = {} /\ Has(r.pc, d, R)
    BY <1>7, <2>2
  <2>. QED BY <1>2, <1>3, <1>6, <1>7, <2>2, <2>3, <2>4, <2>5, StageKeeps
<1>8. CASE SaveManifest(t)
  <2>1. PICK d : d = [dirs[x] EXCEPT !.man = th[t].want, !.cfg = th[t].want]
    OBVIOUS
  <2>2. Put(x, d) /\ Goto(t, "merge")
    BY <1>4, <1>8, <2>1 DEF SaveManifest
  <2>3. th[t].want \in SUBSET Layers
    BY <1>4 DEF Locals
  <2>4. d \in Dir /\ d.open = {} /\ d.cfg # None
    BY <1>4, <1>5, <2>1, <2>3, StoreAssumption DEF Dir
  <2>5. Has("merge", d, R)
    BY <2>4, StoreAssumption DEF Has
  <2>. QED BY <1>7, <2>2, <2>4, <2>5
<1>9. CASE MergeBegin(t)
  <2>1. PICK d : d = [dirs[x] EXCEPT !.root = IF dirs[x].root = "none" /\ dirs[x].man = th[t].want
                                              THEN "part" ELSE "holed"]
    OBVIOUS
  <2>2. Put(x, d) /\ Goto(t, "merging") /\ th[t].pc = "merge"
    BY <1>4, <1>9, <2>1 DEF MergeBegin, At
  <2>3. d \in Dir /\ d.open = {} /\ d.cfg = dirs[x].cfg /\ d.root # "none"
    BY <1>4, <1>5, <2>1 DEF Dir
  <2>4. Has("merging", d, R)
    BY <1>4, <2>2, <2>3, StoreAssumption DEF Has, StagePcs, Fetching
  <2>. QED BY <1>7, <2>2, <2>3, <2>4
<1>10. CASE MergeEnd(t)
  <2>1. CASE Raise(t) /\ UNCHANGED dirs
    BY <1>2, <1>6, <2>1, SameLike, RaiseKeeps
  <2>2. CASE ~(Raise(t) /\ UNCHANGED dirs)
    <3>1. PICK k \in Settled : Put(x, [dirs[x] EXCEPT !.root = k]) /\ Goto(t, "ref") /\ th[t].pc = "merging"
      BY <1>4, <1>10, <2>2 DEF MergeEnd, At, Settled
    <3>2. PICK d : d = [dirs[x] EXCEPT !.root = k]
      OBVIOUS
    <3>3. dirs'[x] = d
      BY <1>4, <3>1, <3>2 DEF Put, Ctx, DataTyped
    <3>4. dirs'[x].root \in R
      BY <1>4, <1>10, <2>2 DEF MergesTo
    <3>5. d \in Dir /\ d.open = {} /\ d.cfg = dirs[x].cfg /\ d.root = k /\ k \in R /\ k # "none"
      BY <1>4, <1>5, <3>2, <3>3, <3>4 DEF Dir, Settled
    <3>6. Has("ref", d, R)
      BY <1>4, <3>1, <3>5, StoreAssumption DEF Has, StagePcs, Fetching
    <3>. QED BY <1>7, <3>1, <3>2, <3>5, <3>6
  <2>. QED BY <2>1, <2>2
<1>11. CASE WriteRef(t)
  <2>1. PICK d : d = [dirs[x] EXCEPT !.ref = TRUE]
    OBVIOUS
  <2>2. Put(x, d) /\ Goto(t, "swap") /\ th[t].pc = "ref"
    BY <1>4, <1>11, <2>1 DEF WriteRef, At
  <2>3. d \in Dir /\ d.open = {} /\ d.cfg = dirs[x].cfg /\ d.root = dirs[x].root /\ d.ref
    BY <1>4, <1>5, <2>1 DEF Dir
  <2>4. Has("swap", d, R)
    BY <1>4, <2>2, <2>3, StoreAssumption DEF Has, StagePcs, Fetching
  <2>. QED BY <1>7, <2>2, <2>3, <2>4
<1>. QED BY <1>8, <1>9, <1>10, <1>11 DEF ImageStep

(* A directory under the tag's name or a backup's of which no deletion began. *)
LEMMA GoodTag ==
    ASSUME NEW R, Ctx(R), NEW t \in Thread, th[t].pc \notin PrunePcs \cup {"cleaning"},
           NEW x \in {Live, Backup(th[t].n)}, dirs[x] # None
    PROVE  dirs[x] \in Good(R) /\ dirs[x].open = {}
<1>1. \A u \in dirs[x].open : FALSE
  <2>1. ASSUME NEW u \in dirs[x].open PROVE FALSE
    <3>1. Deletes(th[t], x)
      BY <2>1, OwnOpen
    <3>. QED BY <3>1, NameFacts DEF Deletes, PrunePcs
  <2>. QED BY <2>1
<1>2. th[t].n \in Num /\ ~Booting
  BY Serving
<1>. QED BY <1>1, <1>2 DEF Ctx, TagParts, Refs

(* A rename of a pull, among the tag's name and the pull's own. *)
LEMMA MoveKeeps ==
    ASSUME NEW R, Ctx(R), NEW t \in Thread, th[t].pc \notin PrunePcs \cup {"dropping", "cleaning"},
           NEW r, th' = [th EXCEPT ![t] = r], ops' = ops,
           r.pc \notin PrunePcs \cup Loading \cup {"cleaning"}, r.op = "pull", r.n = th[t].n,
           NEW x \in {Live, Stage(th[t].n), Backup(th[t].n)}, NEW y \in {Live, Backup(th[t].n)}, x # y,
           Move(x, y), dirs[x] # None, dirs[x] \in Good(R),
           \/ y = Live
           \/ x = Live /\ r.pc \in Tending,
           (x # Backup(th[t].n) /\ dirs[Backup(th[t].n)] # None) \/ y # Live => r.pc \in OwnPcs,
           r.pc \in StagePcs => x # Stage(th[t].n) /\ Has(r.pc, dirs[Stage(th[t].n)], R)
    PROVE  TagParts(R)'
<1> DEFINE b == Backup(th[t].n)
           s == Stage(th[t].n)
<1>1. Live \in Name /\ s \in Name /\ b \in Name /\ th[t].n \in Num /\ ~Booting
  BY Serving
<1>2. \A z \in Name : dirs'[z] = IF z = x THEN None ELSE IF z = y THEN dirs[x] ELSE dirs[z]
  BY <1>1 DEF Move, Ctx, DataTyped
<1>3. ASSUME NEW z \in {Live, s, b}, dirs[z] # None, NEW u \in dirs[z].open PROVE FALSE
  <2>1. Deletes(th[t], z)
    BY <1>3, OwnOpen
  <2>. QED BY <2>1 DEF Deletes, PrunePcs
<1>4. ASSUME NEW z \in {Live, s, b}, dirs'[z] # None, NEW u \in dirs'[z].open PROVE FALSE
  BY <1>1, <1>2, <1>3, <1>4
<1>5. Elsewhere(t)
  BY <1>2 DEF Elsewhere, Like
<1>6. \A z \in {Live, b} : dirs'[z] # None => dirs'[z] \in Good(R)
  BY <1>1, <1>2, GoodTag
<1>7. dirs'[b] # None => r.pc \in OwnPcs
  BY <1>1, <1>2, NameFacts
<1>8. dirs'[Live] = None => dirs'[b] # None /\ r.pc \in Tending
  BY <1>1, <1>2, NameFacts
<1>9. r.pc \in StagePcs => Has(r.pc, dirs'[s], R)
  BY <1>1, <1>2, NameFacts
<1>. QED BY <1>4, <1>5, <1>6, <1>7, <1>8, <1>9, PullKeeps

(* The swap of a pull, its error path and its deletions. *)
LEMMA PullStepTag == ASSUME NEW R, Ctx(R), NEW t \in Thread, PullStep(t) PROVE TagParts(R)'
<1>1. th[t].pc \in {"pull", "config", "swap", "backup", "rename", "fail", "restore", "drop", "dropping",
                    "cleanup", "cleaning"}
  BY DEF PullStep, PullBegin, PullConfig, PullSwap, PullBackup, PullPublish, PullFail, PullRestore,
         PullDrop, PullDropEnd, PullCleanup, PullCleanupEnd, At
<1> DEFINE n == th[t].n
           s == Stage(n)
           b == Backup(n)
<1>2. th[t].pc \notin PrunePcs
  BY <1>1 DEF PrunePcs
<1>3. /\ t \in Workers /\ th[t] \in Locals /\ th[t].op = "pull" /\ ~Booting /\ n \in Num
      /\ s \in Name /\ b \in Name /\ Live \in Name /\ s # Live /\ b # Live /\ s # b
  BY <1>2, Serving, NameFacts
<1>4. ops' = ops
  BY DEF PullStep, PullBegin, PullConfig, PullSwap, PullBackup, PullPublish, PullFail, PullRestore,
         PullDrop, PullDropEnd, PullCleanup, PullCleanupEnd
<1>5. ASSUME NEW p, Goto(t, p)
      PROVE  \E r : th' = [th EXCEPT ![t] = r] /\ r.pc = p /\ r.op = "pull" /\ r.n = n
  <2>1. PICK r : r = [th[t] EXCEPT !.pc = p]
    OBVIOUS
  <2>2. r.pc = p /\ r.op = "pull" /\ r.n = n
    BY <1>3, <2>1 DEF Locals
  <2>3. th' = [th EXCEPT ![t] = r]
    BY <1>5, <2>1 DEF Goto, Ctx, ThreadsTyped
  <2>. QED BY <2>2, <2>3
<1>6. CASE PullBegin(t)
  <2>1. Put(s, NewDir) /\ kept' = kept /\ th[t].pc = "pull" /\ Goto(t, "config")
    BY <1>6 DEF PullBegin, At
  <2>2. PICK r : th' = [th EXCEPT ![t] = r] /\ r.pc = "config" /\ r.op = "pull" /\ r.n = n
    BY <1>5, <2>1
  <2>3. NewDir.open = {} /\ Has("config", NewDir, R)
    BY NewDirType DEF NewDir, Has, StagePcs, Fetching
  <2>4. th[t].pc \notin PrunePcs \cup OwnPcs \cup {"cleaning"} /\ th[t].pc \notin Tending
    BY <2>1 DEF PrunePcs, OwnPcs, Tending
  <2>5. dirs[b] = None
    BY <2>4, NotOwner
  <2>6. r.pc \notin PrunePcs \cup Loading \cup {"cleaning"}
    BY <2>2 DEF PrunePcs, Loading
  <2>. QED BY <1>4, <2>1, <2>2, <2>3, <2>4, <2>5, <2>6, StageKeeps
<1>7. CASE PullConfig(t)
  <2>1. kept' = kept /\ th[t].pc = "config"
    BY <1>7 DEF PullConfig, At
  <2>2. th[t].pc \in StagePcs /\ th[t].pc \notin PrunePcs \cup OwnPcs \cup {"cleaning"} /\ th[t].pc \notin Tending
    BY <2>1 DEF StagePcs, Fetching, PrunePcs, OwnPcs, Tending
  <2>3. dirs[b] = None
    BY <2>2, NotOwner
  <2>4. CASE Raise(t) /\ UNCHANGED dirs
    BY <1>4, <2>1, <2>2, <2>4, SameLike, RaiseKeeps
  <2>5. ASSUME NEW m \in Offer[t], dirs[s] # None, Put(s, [dirs[s] EXCEPT !.cfg = m]),
               th' = [th EXCEPT ![t] = [th[t] EXCEPT !.pc = "layers", !.want = m, !.todo = m]]
        PROVE  TagParts(R)'
    <3>1. PICK r : r = [th[t] EXCEPT !.pc = "layers", !.want = m, !.todo = m]
      OBVIOUS
    <3>2. r.pc = "layers" /\ r.op = "pull" /\ r.n = n
      BY <1>3, <3>1 DEF Locals
    <3>3. PICK d : d = [dirs[s] EXCEPT !.cfg = m]
      OBVIOUS
    <3>4. dirs[s] \in Dir /\ m \in SUBSET Layers
      BY <1>3, <2>5, StoreAssumption DEF Ctx, DataTyped
    <3>5. d \in Dir /\ d.open = dirs[s].open
      BY <3>3, <3>4 DEF Dir
    <3>6. \A u \in dirs[s].open : FALSE
      <4>1. ASSUME NEW u \in dirs[s].open PROVE FALSE
        <5>1. Deletes(th[t], s)
          BY <1>2, <2>5, <4>1, OwnOpen
        <5>. QED BY <2>1, <5>1 DEF Deletes
      <4>. QED BY <4>1
    <3>7. Has("layers", d, R)
      BY <3>5, StoreAssumption DEF Has, StagePcs, Fetching
    <3>8. r.pc \notin PrunePcs \cup Loading \cup {"cleaning"}
      BY <3>2 DEF PrunePcs, Loading
    <3>9. th' = [th EXCEPT ![t] = r] /\ Put(s, d)
      BY <2>5, <3>1, <3>3
    <3>. QED BY <1>4, <2>1, <2>2, <2>3, <3>2, <3>5, <3>6, <3>7, <3>8, <3>9, StageKeeps
  <2>. QED BY <1>7, <2>4, <2>5 DEF PullConfig
<1>8. CASE PullSwap(t)
  <2>1. kept' = kept /\ dirs' = dirs /\ th[t].pc = "swap"
    BY <1>8 DEF PullSwap, At
  <2>2. /\ th[t].pc \in StagePcs /\ th[t].pc \notin PrunePcs \cup OwnPcs /\ th[t].pc \notin Tending
        /\ th[t].pc \notin PrunePcs \cup {"dropping", "cleaning"}
    BY <2>1 DEF StagePcs, Fetching, PrunePcs, OwnPcs, Tending
  <2>3. dirs[b] = None
    BY <2>2, NotOwner
  <2>4. PICK p \in {"backup", "rename"} : Goto(t, p)
    BY <1>8 DEF PullSwap
  <2>5. PICK r : th' = [th EXCEPT ![t] = r] /\ r.pc = p /\ r.op = "pull" /\ r.n = n
    BY <1>5, <2>4
  <2>6. Has("swap", dirs[s], R)
    BY <2>1, <2>2 DEF Ctx, TagParts, Staged
  <2>7. Has(r.pc, dirs[s], R)
    BY <2>5, <2>6 DEF Has, StagePcs, Fetching
  <2>8. r.pc \notin PrunePcs \cup Loading /\ r.pc # "cleaning"
    BY <2>5 DEF PrunePcs, Loading
  <2>. QED BY <1>4, <2>1, <2>2, <2>3, <2>5, <2>7, <2>8, SameLike, PullMoves
<1>9. CASE PullBackup(t)
  <2>1. kept' = kept /\ th[t].pc = "backup"
    BY <1>9 DEF PullBackup, At
  <2>2. /\ th[t].pc \in StagePcs /\ th[t].pc \notin PrunePcs \cup OwnPcs
        /\ th[t].pc \notin PrunePcs \cup {"dropping", "cleaning"} /\ th[t].pc \notin PrunePcs \cup {"cleaning"}
    BY <2>1 DEF StagePcs, Fetching, PrunePcs, OwnPcs
  <2>3. dirs[b] = None
    BY <2>2, NotOwner
  <2>4. CASE Raise(t) /\ UNCHANGED dirs
    BY <1>4, <2>1, <2>2, <2>4, SameLike, RaiseKeeps
  <2>5. CASE dirs[Live] # None /\ Move(Live, b) /\ Goto(t, "rename")
    <3>1. PICK r : th' = [th EXCEPT ![t] = r] /\ r.pc = "rename" /\ r.op = "pull" /\ r.n = n
      BY <1>5, <2>5
    <3>2. Has("backup", dirs[s], R)
      BY <2>1, <2>2 DEF Ctx, TagParts, Staged
    <3>3. Has(r.pc, dirs[s], R)
      BY <3>1, <3>2 DEF Has, StagePcs, Fetching
    <3>4. dirs[Live] \in Good(R)
      BY <2>2, <2>5, GoodTag
    <3>5. r.pc \notin PrunePcs \cup Loading \cup {"cleaning"} /\ r.pc \in OwnPcs /\ r.pc \in Tending
      BY <3>1 DEF PrunePcs, Loading, OwnPcs, Tending
    <3>. QED BY <1>3, <1>4, <2>2, <2>5, <3>1, <3>3, <3>4, <3>5, MoveKeeps
  <2>. QED BY <1>9, <2>4, <2>5 DEF PullBackup
<1>10. CASE PullPublish(t)
  <2>1. th[t].pc = "rename"
    BY <1>10 DEF PullPublish, At
  <2>2. th[t].pc \in StagePcs /\ th[t].pc \notin PrunePcs \cup {"dropping", "cleaning"}
    BY <2>1 DEF StagePcs, Fetching, PrunePcs
  <2>3. CASE Raise(t) /\ UNCHANGED <<dirs, kept>>
    BY <1>4, <2>2, <2>3, SameLike, RaiseKeeps
  <2>4. CASE dirs[s] # None /\ dirs[Live] = None /\ Move(s, Live) /\ Goto(t, "cleanup")
    <3>1. PICK r : th' = [th EXCEPT ![t] = r] /\ r.pc = "cleanup" /\ r.op = "pull" /\ r.n = n
      BY <1>5, <2>4
    <3>2. Has("rename", dirs[s], R) /\ dirs[s] \in Dir
      BY <1>3, <2>1, <2>2, <2>4 DEF Ctx, TagParts, Staged, DataTyped
    <3>3. dirs[s] \in Good(R)
      <4>1. dirs[s].cfg # None /\ dirs[s].root # "none" /\ dirs[s].ref /\ dirs[s].root \in R
        BY <3>2 DEF Has, StagePcs, Fetching
      <4>2. {"config", "ref", "rootfs"} \subseteq Files(dirs[s])
        BY <4>1 DEF Files, File
      <4>. QED BY <2>4, <3>2, <4>1, <4>2 DEF Good, Intact
    <3>4. r.pc \notin PrunePcs \cup Loading \cup {"cleaning"} /\ r.pc \in OwnPcs /\ r.pc \notin StagePcs
      BY <3>1 DEF PrunePcs, Loading, OwnPcs, StagePcs, Fetching
    <3>. QED BY <1>3, <1>4, <2>2, <2>4, <3>1, <3>3, <3>4, MoveKeeps
  <2>. QED BY <1>10, <2>3, <2>4 DEF PullPublish
<1>11. CASE PullFail(t)
  <2>1. kept' = kept /\ dirs' = dirs /\ th[t].pc = "fail"
    BY <1>11 DEF PullFail, At
  <2>2. th[t].pc \notin PrunePcs \cup {"dropping", "cleaning"}
    BY <2>1 DEF PrunePcs
  <2>3. PICK p : /\ Goto(t, p) /\ p \in {"restore", "drop"}
                 /\ dirs[b] # None /\ dirs[Live] = None => p = "restore"
    BY <1>11 DEF PullFail
  <2>4. PICK r : th' = [th EXCEPT ![t] = r] /\ r.pc = p /\ r.op = "pull" /\ r.n = n
    BY <1>5, <2>3
  <2>5. r.pc \notin PrunePcs \cup Loading /\ r.pc # "cleaning" /\ r.pc \in OwnPcs /\ r.pc \notin StagePcs
    BY <2>3, <2>4 DEF PrunePcs, Loading, OwnPcs, StagePcs, Fetching
  <2>6. dirs[Live] = None /\ dirs[b] # None /\ th[t].pc \in Tending => r.pc \in Tending
    BY <2>3, <2>4 DEF Tending
  <2>. QED BY <1>4, <2>1, <2>2, <2>4, <2>5, <2>6, SameLike, PullMoves
<1>12. CASE PullRestore(t)
  <2>1. th[t].pc = "restore"
    BY <1>12 DEF PullRestore, At
  <2>2. th[t].pc \notin PrunePcs \cup {"dropping", "cleaning"} /\ th[t].pc \notin PrunePcs \cup {"cleaning"}
    BY <2>1 DEF PrunePcs
  <2>3. CASE dirs[b] # None /\ dirs[Live] = None /\ Move(b, Live) /\ Goto(t, "drop")
    <3>1. PICK r : th' = [th EXCEPT ![t] = r] /\ r.pc = "drop" /\ r.op = "pull" /\ r.n = n
      BY <1>5, <2>3
    <3>2. dirs[b] \in Good(R)
      BY <2>2, <2>3, GoodTag
    <3>3. r.pc \notin PrunePcs \cup Loading \cup {"cleaning"} /\ r.pc \in OwnPcs /\ r.pc \notin StagePcs
      BY <3>1 DEF PrunePcs, Loading, OwnPcs, StagePcs, Fetching
    <3>. QED BY <1>3, <1>4, <2>2, <2>3, <3>1, <3>2, <3>3, MoveKeeps
  <2>4. CASE /\ Goto(t, "cleanup") /\ UNCHANGED dirs
             /\ kept' = IF dirs[Live] = None /\ dirs[b] # None THEN "exempt" ELSE kept
    <3>1. PICK r : th' = [th EXCEPT ![t] = r] /\ r.pc = "cleanup" /\ r.op = "pull" /\ r.n = n
      BY <1>5, <2>4
    <3>2. kept' = kept /\ ~(dirs[Live] = None /\ dirs[b] # None)
      BY <2>4 DEF Ctx
    <3>3. r.pc \notin PrunePcs \cup Loading /\ r.pc # "cleaning" /\ r.pc \in OwnPcs /\ r.pc \notin StagePcs
      BY <3>1 DEF PrunePcs, Loading, OwnPcs, StagePcs, Fetching
    <3>. QED BY <1>4, <2>2, <2>4, <3>1, <3>2, <3>3, SameLike, PullMoves
  <2>. QED BY <1>12, <2>3, <2>4 DEF PullRestore
<1>13. CASE PullDrop(t)
  <2>1. kept' = kept /\ th[t].pc = "drop"
    BY <1>13 DEF PullDrop, At
  <2>2. /\ th[t].pc \notin PrunePcs \cup {"dropping", "cleaning"} /\ th[t].pc \notin PrunePcs \cup {"cleaning"}
        /\ th[t].pc \notin Tending
    BY <2>1 DEF PrunePcs, Tending
  <2>3. CASE dirs[s] = None /\ Goto(t, "cleanup") /\ UNCHANGED dirs
    <3>1. PICK r : th' = [th EXCEPT ![t] = r] /\ r.pc = "cleanup" /\ r.op = "pull" /\ r.n = n
      BY <1>5, <2>3
    <3>2. r.pc \notin PrunePcs \cup Loading /\ r.pc # "cleaning" /\ r.pc \in OwnPcs /\ r.pc \notin StagePcs
      BY <3>1 DEF PrunePcs, Loading, OwnPcs, StagePcs, Fetching
    <3>. QED BY <1>4, <2>1, <2>2, <2>3, <3>1, <3>2, SameLike, PullMoves
  <2>4. CASE RmBegin(t, s, [th[t] EXCEPT !.pc = "dropping"])
    <3>1. PICK k : k = [th[t] EXCEPT !.pc = "dropping"]
      OBVIOUS
    <3>2. k \in Locals /\ k.pc = "dropping" /\ k.n = n /\ k.op = "pull"
      BY <1>3, <3>1 DEF Locals, Pcs
    <3>3. RmBegin(t, s, k) /\ DataTyped
      BY <2>4, <3>1 DEF Ctx
    <3>4. PICK e \in Dir, r \in Locals :
             /\ dirs[s] # None /\ Put(s, e) /\ e.open = dirs[s].open \cup {t}
             /\ th' = [th EXCEPT ![t] = r] /\ r.pc = "dropping" /\ r.n = n /\ r.op = "pull"
      BY <1>3, <3>2, <3>3, RmBeginFacts
    <3>5. \A u \in dirs[s].open : u = t /\ Deletes(th[t], s)
      BY <1>2, <3>4, OwnOpen
    <3>6. \A u \in e.open : u = t /\ Deletes(r, s)
      BY <3>4, <3>5 DEF Deletes
    <3>7. r.pc \notin PrunePcs \cup Loading \cup {"cleaning"} /\ r.pc \in OwnPcs /\ r.pc \notin StagePcs
      BY <3>4 DEF PrunePcs, Loading, OwnPcs, StagePcs, Fetching
    <3>. QED BY <1>4, <2>1, <2>2, <3>4, <3>6, <3>7, StageKeeps
  <2>. QED BY <1>13, <2>3, <2>4 DEF PullDrop
<1>14. CASE PullDropEnd(t)
  <2>1. kept' = kept /\ th[t].pc = "dropping"
    BY <1>14 DEF PullDropEnd, At
  <2>2. th[t].pc \notin PrunePcs \cup {"cleaning"} /\ th[t].pc \notin Tending
    BY <2>1 DEF PrunePcs, Tending
  <2>3. PICK r : r = [th[t] EXCEPT !.pc = "cleanup", !.left = {}]
    OBVIOUS
  <2>4. r.pc = "cleanup" /\ r.op = "pull" /\ r.n = n
    BY <1>3, <2>3 DEF Locals
  <2>5. RmEnd(t, s, r, r)
    BY <1>14, <2>3 DEF PullDropEnd
  <2>6. \A y \in Name : dirs[y] # None /\ t \in dirs[y].open => y = s
    BY <2>1 DEF Ctx, TagParts, Opens, Deletes
  <2>7. th' = [th EXCEPT ![t] = r]
    BY <1>3, <2>5, RmEndFacts DEF Ctx
  <2>8. \E d : /\ Put(s, d)
               /\ d # None => \A u \in d.open : FALSE
    <3>1. \/ Put(s, None)
          \/ \E e \in Dir : dirs[s] # None /\ Put(s, e) /\ e.open = dirs[s].open \ {t}
          \/ dirs' = dirs /\ (dirs[s] # None => t \notin dirs[s].open)
      BY <1>3, <2>5, <2>6, RmEndFacts DEF Ctx
    <3>2. dirs[s] # None => \A u \in dirs[s].open : u = t
      BY <1>2, OwnOpen
    <3>3. ASSUME dirs' = dirs PROVE Put(s, dirs[s])
      BY <1>3, <3>3 DEF Put, Ctx, DataTyped
    <3>. QED BY <3>1, <3>2, <3>3
  <2>9. r.pc \notin PrunePcs \cup Loading \cup {"cleaning"} /\ r.pc \in OwnPcs /\ r.pc \notin StagePcs
    BY <2>4 DEF PrunePcs, Loading, OwnPcs, StagePcs, Fetching
  <2>. QED BY <1>4, <2>1, <2>2, <2>4, <2>7, <2>8, <2>9, StageKeeps
<1>15. CASE PullCleanup(t)
  <2>1. kept' = kept /\ th[t].pc = "cleanup"
    BY <1>15 DEF PullCleanup, At
  <2>2. /\ th[t].pc \notin PrunePcs \cup {"dropping", "cleaning"} /\ th[t].pc \notin PrunePcs \cup {"cleaning"}
        /\ th[t].pc \notin Tending
    BY <2>1 DEF PrunePcs, Tending
  <2>3. CASE dirs[b] = None /\ Finish(t) /\ UNCHANGED dirs
    <3>1. PICK r : r = Idle
      OBVIOUS
    <3>2. r.pc # "cleaning" /\ r.pc \notin StagePcs
      BY <3>1, IdleType DEF StagePcs, Fetching
    <3>. QED BY <1>4, <2>1, <2>2, <2>3, <3>1, <3>2, SameLike, PullMoves DEF Finish
  <2>4. CASE RmBegin(t, b, [th[t] EXCEPT !.pc = "cleaning"])
    <3>1. PICK k : k = [th[t] EXCEPT !.pc = "cleaning"]
      OBVIOUS
    <3>2. k \in Locals /\ k.pc = "cleaning" /\ k.n = n /\ k.op = "pull"
      BY <1>3, <3>1 DEF Locals, Pcs
    <3>3. RmBegin(t, b, k) /\ DataTyped
      BY <2>4, <3>1 DEF Ctx
    <3>4. PICK e \in Dir, r \in Locals :
             /\ dirs[b] # None /\ Put(b, e) /\ e.open = dirs[b].open \cup {t}
             /\ th' = [th EXCEPT ![t] = r] /\ r.pc = "cleaning" /\ r.n = n /\ r.op = "pull" /\ r.left = Files(e)
      BY <1>3, <3>2, <3>3, RmBeginFacts
    <3>5. \A u \in dirs[b].open : u = t /\ Deletes(th[t], b)
      BY <1>2, <3>4, OwnOpen
    <3>6. \A u \in e.open : u = t /\ Deletes(r, b)
      BY <3>4, <3>5 DEF Deletes
    <3>7. r.pc \notin PrunePcs \cup Loading /\ r.pc \in OwnPcs /\ r.pc \notin StagePcs
      BY <3>4 DEF PrunePcs, Loading, OwnPcs, StagePcs, Fetching
    <3>8. \A y \in Name : dirs'[y] = IF y = b THEN e ELSE dirs[y]
      BY <3>4 DEF Put, Ctx, DataTyped
    <3>9. Elsewhere(t)
      BY <3>8 DEF Elsewhere, Like
    <3>10. ASSUME NEW y \in {Live, s}, dirs'[y] # None, NEW u \in dirs'[y].open PROVE FALSE
      <4>1. dirs[y] # None /\ u \in dirs[y].open
        BY <1>3, <3>8, <3>10
      <4>2. Deletes(th[t], y)
        BY <1>2, <4>1, OwnOpen
      <4>. QED BY <2>1, <4>2 DEF Deletes
    <3>11. \A y \in {Live, s, b} : dirs'[y] # None => \A u \in dirs'[y].open : u = t /\ Deletes(r, y)
      BY <1>3, <3>6, <3>8, <3>10
    <3>12. /\ dirs'[b] = e /\ t \in e.open /\ e # None /\ e.open # {}
           /\ dirs'[Live] = dirs[Live]
      BY <1>3, <3>4, <3>8, StoreAssumption
    <3>13. dirs'[Live] # None => dirs'[Live] \in Good(R)
      BY <3>12 DEF Ctx, TagParts, Refs
    <3>. QED BY <1>2, <1>4, <2>1, <2>2, <3>4, <3>7, <3>9, <3>11, <3>12, <3>13, PullKeeps
  <2>. QED BY <1>15, <2>3, <2>4 DEF PullCleanup
<1>16. CASE PullCleanupEnd(t)
  <2>1. kept' = kept /\ th[t].pc = "cleaning" /\ RmEnd(t, b, Idle, Idle)
    BY <1>16 DEF PullCleanupEnd, At
  <2>2. dirs[b] # None /\ t \in dirs[b].open /\ Files(dirs[b]) \subseteq th[t].left
    BY <2>1 DEF Ctx, TagParts, Cleaning
  <2>3. \A y \in Name : dirs[y] # None /\ t \in dirs[y].open => y = b
    BY <2>1 DEF Ctx, TagParts, Opens, Deletes
  <2>4. \A v \in Thread : At(v, "merging") => Target(v) # b
    <3>1. ASSUME NEW v \in Thread, At(v, "merging") PROVE Target(v) # b
      <4>1. th[v].op = "pull"
        BY <3>1 DEF At, PrunePcs, Ctx, TagParts, Roles
      <4>. QED BY <4>1, NameFacts DEF Target
    <3>. QED BY <3>1
  <2>5. Put(b, None) /\ th' = [th EXCEPT ![t] = Idle]
    BY <1>3, <2>1, <2>2, <2>3, <2>4, RmEndDone DEF Ctx
  <2>6. \A y \in Name : dirs'[y] = IF y = b THEN None ELSE dirs[y]
    BY <2>5 DEF Put, Ctx, DataTyped
  <2>7. Elsewhere(t)
    BY <2>6 DEF Elsewhere, Like
  <2>8. ASSUME NEW y \in {Live, s, b}, dirs'[y] # None, NEW u \in dirs'[y].open PROVE FALSE
    <3>1. dirs[y] # None /\ u \in dirs[y].open /\ y # b
      BY <1>3, <2>6, <2>8
    <3>2. Deletes(th[t], y)
      BY <1>2, <3>1, OwnOpen
    <3>. QED BY <2>1, <3>1, <3>2 DEF Deletes
  <2>9. dirs'[b] = None /\ dirs'[Live] = dirs[Live]
    BY <1>3, <2>6
  <2>10. dirs'[Live] # None => dirs'[Live] \in Good(R)
    BY <2>9 DEF Ctx, TagParts, Refs
  <2>11. th[t].pc \notin Tending
    BY <2>1 DEF Tending
  <2>12. PICK r : r = Idle /\ r.pc = "idle"
    BY IdleType
  <2>13. r.pc # "cleaning" /\ r.pc \notin StagePcs
    BY <2>12 DEF StagePcs, Fetching
  <2>. QED BY <1>2, <1>4, <2>1, <2>5, <2>7, <2>8, <2>9, <2>10, <2>11, <2>12, <2>13, PullKeeps
<1>. QED BY <1>6, <1>7, <1>8, <1>9, <1>10, <1>11, <1>12, <1>13, <1>14, <1>15, <1>16 DEF PullStep

(* While the tag is kept there is no load and no removal. *)
LEMMA NoLoad == ASSUME NEW R, Ctx(R), NEW t \in Thread PROVE ~LoadStep(t)
<1>1. th[t].pc \notin Loading
  BY DEF Ctx, TagParts, Roles, Loading, PrunePcs
<1>. QED BY <1>1 DEF LoadStep, ClearBegin, ClearEnd, LoadBegin, LoadMake, At, Loading

(* While a prune is at work, nobody else is but prunes; outside the startup  *)
(* no backup is there for it, and a tag that was published has its directory. *)
LEMMA Pruning ==
    ASSUME NEW R, Ctx(R), NEW t \in Thread, th[t].pc \in PrunePcs \ {"idle"}
    PROVE  /\ th[t] \in Locals /\ \A u \in Thread : th[u].pc \in PrunePcs
           /\ t = Main <=> Booting
           /\ t # Main => /\ t \in Workers /\ th[t].op = "prune"
                          /\ \A n \in Num : dirs[Backup(n)] = None
<1>1. th[t] \in Locals /\ \A u \in Thread : th[u].pc \in PrunePcs
  BY DEF Ctx, ThreadsTyped, TagParts, Alone
<1>2. t # Main => t \in Workers
  BY DEF Thread
<1>3. t = Main <=> Booting
  BY <1>2 DEF Ctx, BootInv, Booting
<1>4. ~Booting => \A n \in Num : dirs[Backup(n)] = None
  BY <1>1 DEF Ctx, TagParts, Owned, OwnPcs, PrunePcs
<1>. QED BY <1>1, <1>2, <1>3, <1>4 DEF Ctx, TagParts, Roles

(* A step of a prune, by what it does to the directories. *)
LEMMA PruneKeeps ==
    ASSUME NEW R, Ctx(R), NEW t \in Thread, th[t].pc \in PrunePcs \ {"idle"},
           NEW r, th' = [th EXCEPT ![t] = r], ops' = ops, kept' = kept,
           r.pc \in PrunePcs, t # Main /\ r.pc # "idle" => r.op = "prune",
           r.pc = "old" => \E n \in Num : r.name = Backup(n),
           r.pc = "pruning" => r.name # Live,
           \A x \in Name : dirs'[x] # None => \A u \in dirs'[x].open :
               (u = t /\ Deletes(r, x)) \/ (u # t /\ dirs[x] # None /\ u \in dirs[x].open),
           \A n \in Num : dirs'[Backup(n)] # None => t = Main /\ r.pc # "idle",
           dirs'[Live] # None => dirs'[Live] \in Good(R),
           \A n \in Num : dirs'[Backup(n)] # None =>
               dirs'[Backup(n)] \in Good(R) \/ dirs'[Backup(n)].open # {} \/ dirs'[Live] # None,
           kept = "published" /\ dirs'[Live] = None => \E n \in Num : dirs'[Backup(n)] # None
    PROVE  TagParts(R)'
<1>1. \A u \in Thread : th[u].pc \in PrunePcs
  BY Pruning
<1>2. th'[t] = r /\ \A u \in Thread : u # t => th'[u] = th[u]
  BY DEF Ctx, ThreadsTyped
<1>3. \A u \in Thread : th'[u].pc \in PrunePcs
  BY <1>1, <1>2
<1>4. t = Main => (Booting' <=> r.pc # "idle")
  BY <1>2 DEF Booting
<1>5. Roles'
  <2>1. \A u \in Thread : th'[u].pc = "old" => \E n \in Num : th'[u].name = Backup(n)
    BY <1>2 DEF Ctx, TagParts, Roles
  <2>2. \A u \in Thread : th'[u].pc = "pruning" => th'[u].name # Live
    BY <1>2 DEF Ctx, TagParts, Roles
  <2>3. \A w \in Workers : th'[w].pc \in PrunePcs \ {"idle"} => th'[w].op = "prune"
    BY <1>2, StoreAssumption DEF Ctx, TagParts, Roles, Thread
  <2>. QED BY <1>3, <2>1, <2>2, <2>3 DEF Roles
<1>6. Alone'
  BY <1>3 DEF Alone
<1>7. Owned'
  BY <1>4 DEF Owned
<1>8. Opens'
  <2>1. ASSUME NEW x \in Name, dirs'[x] # None, NEW u \in dirs'[x].open, u # t PROVE Deletes(th'[u], x)
    <3>1. dirs[x] # None /\ u \in dirs[x].open
      BY <2>1
    <3>2. u \in Thread /\ Deletes(th[u], x)
      BY <3>1 DEF Ctx, DataTyped, Dir, TagParts, Opens
    <3>. QED BY <1>2, <2>1, <3>2
  <2>. QED BY <1>2, <2>1 DEF Opens
<1>9. Cleaning' /\ Staged(R)'
  BY <1>3 DEF Cleaning, Staged, StagePcs, Fetching, PrunePcs
<1>10. Refs(R)'
  BY <1>4 DEF Refs
<1>11. Kept'
  BY <1>4 DEF Kept
<1>. QED BY <1>5, <1>6, <1>7, <1>8, <1>9, <1>10, <1>11 DEF TagParts

(* A step of a prune that deletes no directory. *)
LEMMA PruneSame ==
    ASSUME NEW R, Ctx(R), NEW t \in Thread, th[t].pc \in PrunePcs \ {"idle", "pruning"},
           NEW r, th' = [th EXCEPT ![t] = r], ops' = ops, kept' = kept,
           r.pc \in PrunePcs \ {"pruning"}, r.op = th[t].op \/ r.pc = "idle",
           r.pc = "old" => \E n \in Num : r.name = Backup(n),
           t = Main /\ r.pc = "idle" => \A n \in Num : dirs[Backup(n)] = None,
           \A x \in Name : Like(dirs[x], dirs'[x])
    PROVE  TagParts(R)'
<1>1. /\ t = Main <=> Booting
      /\ t # Main => th[t].op = "prune" /\ \A n \in Num : dirs[Backup(n)] = None
  BY Pruning
<1>2. \A x \in Name : dirs[x] \in Dir \cup {None}
  BY DEF Ctx, DataTyped
<1>3. Live \in Name /\ \A n \in Num : Backup(n) \in Name
  BY NameTypes
<1>4. \A x \in Name : /\ dirs'[x] = None <=> dirs[x] = None
                      /\ dirs[x] # None => dirs'[x].open = dirs[x].open
                      /\ dirs[x] \in Good(R) => dirs'[x] = dirs[x]
  BY <1>2, LikeFacts DEF Ctx
<1>5. \A x \in Name : dirs'[x] # None => \A u \in dirs'[x].open : u # t /\ dirs[x] # None /\ u \in dirs[x].open
  <2>1. \A x : ~Deletes(th[t], x)
    BY DEF Deletes, PrunePcs
  <2>. QED BY <1>4, <2>1 DEF Ctx, TagParts, Opens
<1>6. dirs'[Live] # None => dirs'[Live] \in Good(R)
  BY <1>3, <1>4 DEF Ctx, TagParts, Refs
<1>7. \A n \in Num : dirs'[Backup(n)] # None =>
               dirs'[Backup(n)] \in Good(R) \/ dirs'[Backup(n)].open # {} \/ dirs'[Live] # None
  <2>1. SUFFICES ASSUME NEW n \in Num, dirs'[Backup(n)] # None
                 PROVE  dirs'[Backup(n)] \in Good(R) \/ dirs'[Backup(n)].open # {} \/ dirs'[Live] # None
    OBVIOUS
  <2>2. dirs[Backup(n)] # None
    BY <1>3, <1>4, <2>1
  <2>3. dirs[Backup(n)] \in Good(R) \/ dirs[Backup(n)].open # {} \/ dirs[Live] # None
    BY <2>2 DEF Ctx, TagParts, Refs
  <2>. QED BY <1>3, <1>4, <2>2, <2>3
<1>8. kept = "published" /\ dirs'[Live] = None => \E n \in Num : dirs'[Backup(n)] # None
  BY <1>3, <1>4 DEF Ctx, TagParts, Kept
<1>9. \A n \in Num : dirs'[Backup(n)] # None => t = Main /\ r.pc # "idle"
  BY <1>1, <1>3, <1>4
<1>. QED BY <1>1, <1>5, <1>6, <1>7, <1>8, <1>9, PruneKeeps

(* A prune that begins to delete a stage, or at startup a backup when the    *)
(* tag has its directory.                                                    *)
LEMMA PruneBegins ==
    ASSUME NEW R, Ctx(R), NEW t \in Thread, th[t].pc \in PrunePcs \ {"idle", "pruning"},
           NEW x \in Name, NEW k \in Locals, RmBegin(t, x, k), k.pc = "pruning", k.name = x, k.op = th[t].op,
           x # Live, \A n \in Num : x = Backup(n) => dirs[Live] # None,
           ops' = ops, kept' = kept
    PROVE  TagParts(R)'
<1>1. /\ t = Main <=> Booting
      /\ t # Main => th[t].op = "prune" /\ \A n \in Num : dirs[Backup(n)] = None
  BY Pruning
<1>2. PICK e \in Dir, r \in Locals :
         /\ dirs[x] # None /\ Put(x, e) /\ e.open = dirs[x].open \cup {t}
         /\ th' = [th EXCEPT ![t] = r] /\ r.pc = "pruning" /\ r.op = th[t].op /\ r.name = x
  <2>1. DataTyped
    BY DEF Ctx
  <2>. QED BY <2>1, RmBeginFacts
<1>3. \A y \in Name : dirs'[y] = IF y = x THEN e ELSE dirs[y]
  BY <1>2 DEF Put, Ctx, DataTyped
<1>4. e # None /\ Live \in Name /\ \A n \in Num : Backup(n) \in Name
  BY NameTypes, StoreAssumption
<1>5. \A y \in Name : dirs'[y] # None => \A u \in dirs'[y].open :
          (u = t /\ Deletes(r, y)) \/ (u # t /\ dirs[y] # None /\ u \in dirs[y].open)
  <2>1. \A y : ~Deletes(th[t], y)
    BY DEF Deletes, PrunePcs
  <2>2. Deletes(r, x)
    BY <1>2 DEF Deletes
  <2>3. \A y \in Name : dirs[y] # None => t \notin dirs[y].open
    BY <2>1 DEF Ctx, TagParts, Opens
  <2>. QED BY <1>2, <1>3, <2>2, <2>3
<1>6. dirs'[Live] = dirs[Live] /\ \A n \in Num : dirs'[Backup(n)] # None <=> dirs[Backup(n)] # None
  BY <1>2, <1>3, <1>4
<1>7. dirs'[Live] # None => dirs'[Live] \in Good(R)
  BY <1>6 DEF Ctx, TagParts, Refs
<1>8. \A n \in Num : dirs'[Backup(n)] # None =>
               dirs'[Backup(n)] \in Good(R) \/ dirs'[Backup(n)].open # {} \/ dirs'[Live] # None
  <2>1. \A n \in Num : Backup(n) # x /\ dirs[Backup(n)] # None =>
            dirs[Backup(n)] \in Good(R) \/ dirs[Backup(n)].open # {} \/ dirs[Live] # None
    BY DEF Ctx, TagParts, Refs
  <2>. QED BY <1>3, <1>4, <1>6, <2>1
<1>9. kept = "published" /\ dirs'[Live] = None => \E n \in Num : dirs'[Backup(n)] # None
  BY <1>6 DEF Ctx, TagParts, Kept
<1>10. \A n \in Num : dirs'[Backup(n)] # None => t = Main /\ r.pc # "idle"
  BY <1>1, <1>2, <1>6
<1>11. r.pc \in PrunePcs
  BY <1>2 DEF PrunePcs
<1>. QED BY <1>1, <1>2, <1>5, <1>7, <1>8, <1>9, <1>10, <1>11, PruneKeeps

(* A prune that ends a deletion. *)
LEMMA PruneEnds ==
    ASSUME NEW R, Ctx(R), NEW t \in Thread, PruneEnd(t) PROVE TagParts(R)'
<1>1. th[t].pc = "pruning" /\ th[t].pc \in PrunePcs \ {"idle"} /\ ops' = ops /\ kept' = kept
  BY DEF PruneEnd, At, PrunePcs
<1>2. /\ t = Main <=> Booting
      /\ t # Main => t \in Workers /\ th[t].op = "prune" /\ \A n \in Num : dirs[Backup(n)] = None
      /\ th[t] \in Locals /\ \A u \in Thread : th[u].pc \in PrunePcs
  BY <1>1, Pruning
<1>3. PICK x : x = th[t].name
  OBVIOUS
<1>4. x \in Name /\ x # Live /\ Live \in Name /\ \A n \in Num : Backup(n) \in Name
  BY <1>1, <1>2, <1>3, NameTypes DEF Locals, Ctx, TagParts, Roles
<1>5. PICK r : r = [th[t] EXCEPT !.pc = "names", !.name = Live, !.left = {}]
  OBVIOUS
<1>6. r.pc = "names" /\ r.op = th[t].op /\ RmEnd(t, x, r, r)
  BY <1>2, <1>3, <1>5 DEF Locals, PruneEnd
<1>7. \A y \in Name : dirs[y] # None /\ t \in dirs[y].open => y = x
  BY <1>1, <1>3 DEF Ctx, TagParts, Opens, Deletes
<1>8. th' = [th EXCEPT ![t] = r]
  BY <1>4, <1>6, RmEndFacts DEF Ctx
<1>9. PICK d : /\ \A y \in Name : dirs'[y] = IF y = x THEN d ELSE dirs[y]
               /\ d # None => dirs[x] # None /\ d.open = dirs[x].open \ {t}
               /\ d = None \/ t # Main
  <2>1. CASE t = Main
    <3>1. /\ dirs[x] # None /\ t \in dirs[x].open /\ Files(dirs[x]) \subseteq th[t].left
      BY <1>1, <1>2, <1>3, <2>1 DEF Ctx, BootInv, BootRm
    <3>2. \A v \in Thread : At(v, "merging") => Target(v) # x
      BY <1>2 DEF At, PrunePcs
    <3>3. Put(x, None)
      BY <1>4, <1>6, <1>7, <3>1, <3>2, RmEndDone DEF Ctx
    <3>. QED BY <3>3 DEF Put, Ctx, DataTyped
  <2>2. CASE t # Main
    <3>1. \/ Put(x, None)
          \/ \E e \in Dir : dirs[x] # None /\ Put(x, e) /\ e.open = dirs[x].open \ {t}
          \/ dirs' = dirs /\ (dirs[x] # None => t \notin dirs[x].open)
      BY <1>4, <1>6, <1>7, RmEndFacts DEF Ctx
    <3>2. CASE Put(x, None)
      BY <2>2, <3>2 DEF Put, Ctx, DataTyped
    <3>3. ASSUME NEW e \in Dir, dirs[x] # None, Put(x, e), e.open = dirs[x].open \ {t}
          PROVE  \A y \in Name : dirs'[y] = IF y = x THEN e ELSE dirs[y]
      BY <3>3 DEF Put, Ctx, DataTyped
    <3>4. CASE dirs' = dirs /\ (dirs[x] # None => t \notin dirs[x].open)
      <4>1. \A y \in Name : dirs'[y] = IF y = x THEN dirs[x] ELSE dirs[y]
        BY <3>4
      <4>2. dirs[x] # None => dirs[x].open = dirs[x].open \ {t}
        BY <3>4
      <4>. QED BY <2>2, <4>1, <4>2
    <3>. QED BY <2>2, <3>1, <3>2, <3>3, <3>4
  <2>. QED BY <2>1, <2>2
<1>10. \A y \in Name : dirs'[y] # None => \A u \in dirs'[y].open : u # t /\ dirs[y] # None /\ u \in dirs[y].open
  BY <1>7, <1>9
<1>11. dirs'[Live] = dirs[Live]
  BY <1>4, <1>9
<1>12. \A n \in Num : dirs'[Backup(n)] = dirs[Backup(n)] \/ (dirs'[Backup(n)] = None /\ dirs[Live] # None)
  <2>1. SUFFICES ASSUME NEW n \in Num, Backup(n) = x
                 PROVE  dirs'[x] = dirs[x] \/ (dirs'[x] = None /\ dirs[Live] # None)
    BY <1>4, <1>9
  <2>2. CASE t = Main
    <3>1. dirs[Live] # None
      BY <1>1, <1>2, <1>3, <2>1, <2>2 DEF Ctx, BootInv, BootRm
    <3>. QED BY <1>4, <1>9, <2>2, <3>1
  <2>3. CASE t # Main
    <3>1. dirs[x] = None
      BY <1>2, <2>1, <2>3
    <3>. QED BY <1>4, <1>9, <3>1
  <2>. QED BY <2>2, <2>3
<1>13. dirs'[Live] # None => dirs'[Live] \in Good(R)
  BY <1>11 DEF Ctx, TagParts, Refs
<1>14. \A n \in Num : dirs'[Backup(n)] # None =>
               dirs'[Backup(n)] \in Good(R) \/ dirs'[Backup(n)].open # {} \/ dirs'[Live] # None
  BY <1>11, <1>12 DEF Ctx, TagParts, Refs
<1>15. kept = "published" /\ dirs'[Live] = None => \E n \in Num : dirs'[Backup(n)] # None
  BY <1>11, <1>12 DEF Ctx, TagParts, Kept
<1>16. \A n \in Num : dirs'[Backup(n)] # None => t = Main /\ r.pc # "idle"
  BY <1>2, <1>6, <1>12
<1>17. r.pc \in PrunePcs
  BY <1>6 DEF PrunePcs
<1>. QED BY <1>1, <1>2, <1>6, <1>8, <1>10, <1>13, <1>14, <1>15, <1>16, <1>17, PruneKeeps

(* The prunes. *)
LEMMA PruneStepTag == ASSUME NEW R, Ctx(R), NEW t \in Thread, PruneStep(t) PROVE TagParts(R)'
<1>1. th[t].pc \in PrunePcs \ {"idle"}
  BY DEF PruneStep, PruneList, PruneStage, PruneOldLook, PruneOldDelete, PruneEnd, PruneOldRestore,
         PruneTmp, PrunePartial, PruneBuildDone, PruneReadRefs, PruneUnused, PruneUnusedEnd, At, PrunePcs
<1>2. /\ th[t] \in Locals
      /\ t = Main <=> Booting
      /\ t # Main => \A n \in Num : dirs[Backup(n)] = None
  BY <1>1, Pruning
<1>3. ops' = ops /\ kept' = kept
  BY DEF PruneStep, PruneList, PruneStage, PruneOldLook, PruneOldDelete, PruneEnd, PruneOldRestore,
         PruneTmp, PrunePartial, PruneBuildDone, PruneReadRefs, PruneUnused, PruneUnusedEnd
<1>4. ASSUME NEW r, th' = [th EXCEPT ![t] = r], th[t].pc # "pruning", r.op = th[t].op,
             r.pc \in PrunePcs \ {"idle", "old", "pruning"},
             \A x \in Name : Like(dirs[x], dirs'[x])
      PROVE  TagParts(R)'
  BY <1>1, <1>3, <1>4, PruneSame
<1>5. ASSUME Finish(t), th[t].pc # "pruning", t = Main => \A n \in Num : dirs[Backup(n)] = None,
             \A x \in Name : Like(dirs[x], dirs'[x])
      PROVE  TagParts(R)'
  <2>1. PICK r : r = Idle /\ r.pc = "idle"
    BY IdleType
  <2>2. th' = [th EXCEPT ![t] = r]
    BY <1>5, <2>1 DEF Finish
  <2>3. r.pc \in PrunePcs \ {"pruning"}
    BY <2>1 DEF PrunePcs
  <2>. QED BY <1>1, <1>3, <1>5, <2>1, <2>2, <2>3, PruneSame
<1>6. CASE PruneList(t)
  <2>1. PICK r : r = [th[t] EXCEPT !.pc = "names", !.seen = Residue]
    OBVIOUS
  <2>2. r.pc = "names" /\ r.op = th[t].op /\ th' = [th EXCEPT ![t] = r] /\ dirs' = dirs /\ th[t].pc = "prune"
    BY <1>2, <1>6, <2>1 DEF Locals, PruneList, At
  <2>. QED BY <1>4, <2>2, SameLike DEF PrunePcs
<1>7. CASE PruneStage(t)
  <2>1. PICK n \in Num :
          LET r == [th[t] EXCEPT !.seen = th[t].seen \ {Stage(n)}] IN
          \/ RmBegin(t, Stage(n), [r EXCEPT !.pc = "pruning", !.name = Stage(n)])
          \/ dirs[Stage(n)] = None /\ th' = [th EXCEPT ![t] = r] /\ UNCHANGED dirs
    BY <1>7 DEF PruneStage
  <2>2. PICK r : r = [th[t] EXCEPT !.seen = th[t].seen \ {Stage(n)}]
    OBVIOUS
  <2>3. r \in Locals /\ th[t].pc = "names" /\ r.pc = "names" /\ r.op = th[t].op
    BY <1>2, <1>7, <2>2 DEF Locals, PruneStage, At
  <2>4. CASE th' = [th EXCEPT ![t] = r] /\ UNCHANGED dirs
    BY <1>4, <2>3, <2>4, SameLike DEF PrunePcs
  <2>5. CASE RmBegin(t, Stage(n), [r EXCEPT !.pc = "pruning", !.name = Stage(n)])
    <3>1. PICK s : s = [r EXCEPT !.pc = "pruning", !.name = Stage(n)]
      OBVIOUS
    <3>2. Stage(n) \in Name /\ Stage(n) # Live /\ \A m \in Num : Stage(n) # Backup(m)
      BY NameTypes, NameFacts
    <3>3. s \in Locals /\ s.pc = "pruning" /\ s.name = Stage(n) /\ s.op = th[t].op
      BY <2>3, <3>1, <3>2 DEF Locals, Pcs
    <3>4. RmBegin(t, Stage(n), s)
      BY <2>5, <3>1
    <3>5. th[t].pc \in PrunePcs \ {"idle", "pruning"}
      BY <1>1, <2>3
    <3>. QED BY <1>3, <3>2, <3>3, <3>4, <3>5, PruneBegins
  <2>. QED BY <2>1, <2>2, <2>4, <2>5
<1>8. CASE PruneOldLook(t)
  <2>1. PICK n \in Num :
            th' = [th EXCEPT ![t] = [th[t] EXCEPT !.pc = "old", !.seen = th[t].seen \ {Backup(n)},
                                          !.name = Backup(n), !.there = dirs[Live] # None]]
    BY <1>8 DEF PruneOldLook
  <2>2. PICK r : r = [th[t] EXCEPT !.pc = "old", !.seen = th[t].seen \ {Backup(n)},
                                   !.name = Backup(n), !.there = dirs[Live] # None]
    OBVIOUS
  <2>3. r.pc = "old" /\ r.op = th[t].op /\ r.name = Backup(n)
    BY <1>2, <2>2 DEF Locals
  <2>4. th' = [th EXCEPT ![t] = r] /\ dirs' = dirs /\ th[t].pc = "names"
    BY <1>8, <2>1, <2>2 DEF PruneOldLook, At
  <2>5. th[t].pc \in PrunePcs \ {"idle", "pruning"} /\ r.pc \in PrunePcs \ {"pruning"}
    BY <1>1, <2>3, <2>4 DEF PrunePcs
  <2>6. \E m \in Num : r.name = Backup(m)
    BY <2>3
  <2>. QED BY <1>3, <2>3, <2>4, <2>5, <2>6, SameLike, PruneSame
<1>9. CASE PruneOldDelete(t)
  <2>1. PICK n \in Num : th[t].pc = "old" /\ th[t].name = Backup(n)
    BY <1>9 DEF PruneOldDelete, At, Ctx, TagParts, Roles
  <2>2. CASE /\ UNCHANGED dirs
             /\ th' = [th EXCEPT ![t] = [th[t] EXCEPT !.pc = "names", !.name = Live, !.there = FALSE]]
    <3>1. PICK r : r = [th[t] EXCEPT !.pc = "names", !.name = Live, !.there = FALSE]
      OBVIOUS
    <3>2. r.pc = "names" /\ r.op = th[t].op /\ th' = [th EXCEPT ![t] = r]
      BY <1>2, <2>2, <3>1 DEF Locals
    <3>. QED BY <1>4, <2>1, <2>2, <3>2, SameLike DEF PrunePcs
  <2>3. CASE RmBegin(t, th[t].name, [th[t] EXCEPT !.pc = "pruning", !.there = FALSE])
    <3>1. PICK s : s = [th[t] EXCEPT !.pc = "pruning", !.there = FALSE]
      OBVIOUS
    <3>2. s \in Locals /\ s.pc = "pruning" /\ s.name = Backup(n) /\ s.op = th[t].op
      BY <1>2, <2>1, <3>1 DEF Locals, Pcs
    <3>3. RmBegin(t, Backup(n), s)
      BY <2>1, <2>3, <3>1
    <3>4. dirs[Live] # None
      <4>1. t = Main
        BY <1>2, <2>1, <3>3 DEF RmBegin
      <4>. QED BY <1>2, <1>9, <2>1, <4>1 DEF PruneOldDelete, Ctx, BootInv, BootOld
    <3>5. Backup(n) \in Name /\ Backup(n) # Live /\ th[t].pc \in PrunePcs \ {"idle", "pruning"}
      BY <1>1, <2>1, NameTypes, NameFacts
    <3>. QED BY <1>3, <3>2, <3>3, <3>4, <3>5, PruneBegins
  <2>. QED BY <1>9, <2>2, <2>3 DEF PruneOldDelete
<1>10. CASE PruneEnd(t)
  BY <1>10, PruneEnds
<1>11. CASE PruneOldRestore(t)
  <2>1. PICK n \in Num : th[t].pc = "old" /\ th[t].name = Backup(n)
    BY <1>11 DEF PruneOldRestore, At, Ctx, TagParts, Roles
  <2>2. PICK r : r = [th[t] EXCEPT !.pc = "names", !.name = Live]
    OBVIOUS
  <2>3. r.pc = "names" /\ r.op = th[t].op /\ th' = [th EXCEPT ![t] = r] /\ r.pc \in PrunePcs
    BY <1>2, <1>11, <2>2 DEF Locals, PruneOldRestore, PrunePcs
  <2>4. Live \in Name /\ Backup(n) \in Name /\ Backup(n) # Live /\ \A m \in Num : Backup(m) \in Name /\ Backup(m) # Live
    BY NameTypes, NameFacts
  <2>5. CASE dirs' = dirs
    BY <1>4, <2>1, <2>3, <2>5, SameLike DEF PrunePcs
  <2>6. CASE dirs[Live] = None /\ Move(Backup(n), Live)
    <3>1. \A x \in Name : dirs'[x] = IF x = Backup(n) THEN None ELSE IF x = Live THEN dirs[Backup(n)] ELSE dirs[x]
      BY <2>4, <2>6 DEF Move, Ctx, DataTyped
    <3>2. CASE dirs[Backup(n)] = None
      <4>1. \A x \in Name : dirs'[x] = dirs[x]
        BY <2>4, <2>6, <3>1, <3>2
      <4>2. \A x \in Name : Like(dirs[x], dirs'[x])
        BY <4>1 DEF Like
      <4>. QED BY <1>4, <2>1, <2>3, <4>2 DEF PrunePcs
    <3>3. CASE dirs[Backup(n)] # None
      <4>1. t = Main
        BY <1>2, <3>3
      <4>2. \A x \in Name : dirs[x] # None => dirs[x].open = {}
        BY <1>2, <2>1, <4>1 DEF Ctx, BootInv, BootOpen
      <4>3. dirs[Backup(n)] \in Good(R)
        BY <2>4, <2>6, <3>3, <4>2 DEF Ctx, TagParts, Refs
      <4>4. \A x \in Name : dirs'[x] # None => dirs'[x].open = {}
        BY <2>4, <3>1, <4>2
      <4>5. dirs'[Live] = dirs[Backup(n)] /\ dirs'[Live] # None
        BY <2>4, <3>1, <3>3
      <4>6. th[t].pc \in PrunePcs \ {"idle"} /\ r.pc # "idle" /\ r.pc # "old" /\ r.pc # "pruning"
        BY <1>1, <2>3
      <4>. QED BY <1>3, <2>3, <4>1, <4>3, <4>4, <4>5, <4>6, PruneKeeps
    <3>. QED BY <3>2, <3>3
  <2>. QED BY <1>11, <2>1, <2>5, <2>6 DEF PruneOldRestore
<1>12. CASE PruneTmp(t)
  <2>1. PICK r : r = [th[t] EXCEPT !.pc = "partial", !.todo = {l \in Layers : lay[l] = "broken"}]
    OBVIOUS
  <2>2. r.pc = "partial" /\ r.op = th[t].op /\ th' = [th EXCEPT ![t] = r] /\ dirs' = dirs /\ th[t].pc = "names"
    BY <1>2, <1>12, <2>1 DEF Locals, PruneTmp, At
  <2>. QED BY <1>4, <2>2, SameLike DEF PrunePcs
<1>13. CASE PrunePartial(t)
  <2>1. PICK l \in th[t].todo :
            /\ dirs' = Torn(dirs, l)
            /\ th' = [th EXCEPT ![t] = [th[t] EXCEPT !.todo = th[t].todo \ {l}]]
    BY <1>13 DEF PrunePartial
  <2>2. PICK r : r = [th[t] EXCEPT !.todo = th[t].todo \ {l}]
    OBVIOUS
  <2>3. r.pc = "partial" /\ r.op = th[t].op /\ th' = [th EXCEPT ![t] = r] /\ th[t].pc = "partial"
    BY <1>2, <1>13, <2>1, <2>2 DEF Locals, PrunePartial, At
  <2>4. \A x \in Name : Like(dirs[x], dirs'[x])
    BY <2>1, TornLike DEF Ctx
  <2>. QED BY <1>4, <2>3, <2>4 DEF PrunePcs
<1>14. CASE PruneBuildDone(t)
  <2>1. dirs' = dirs /\ th[t].pc = "partial"
    BY <1>14 DEF PruneBuildDone, At
  <2>2. CASE Finish(t)
    <3>1. t = Main => Residue = {}
      BY <1>2, <2>1 DEF Ctx, BootInv, BootRest
    <3>2. t = Main => \A n \in Num : dirs[Backup(n)] = None
      BY <3>1, NameTypes, NameFacts DEF Residue
    <3>. QED BY <1>5, <2>1, <2>2, <3>2, SameLike
  <2>3. CASE ~Finish(t)
    <3>1. PICK r : r = [th[t] EXCEPT !.pc = "refs", !.seen = {x \in Name : dirs[x] # None}]
      OBVIOUS
    <3>2. r.pc = "refs" /\ r.op = th[t].op /\ th' = [th EXCEPT ![t] = r]
      BY <1>2, <1>14, <2>3, <3>1 DEF Locals, PruneBuildDone
    <3>. QED BY <1>4, <2>1, <3>2, SameLike DEF PrunePcs
  <2>. QED BY <2>2, <2>3
<1>15. CASE PruneReadRefs(t)
  <2>1. dirs' = dirs /\ th[t].pc = "refs"
    BY <1>15 DEF PruneReadRefs, At
  <2>2. ASSUME NEW x, NEW f, th' = [th EXCEPT ![t] = [th[t] EXCEPT !.seen = th[t].seen \ {x}, !.refs = f]]
        PROVE  TagParts(R)'
    <3>1. PICK r : r = [th[t] EXCEPT !.seen = th[t].seen \ {x}, !.refs = f]
      OBVIOUS
    <3>2. r.pc = "refs" /\ r.op = th[t].op /\ th' = [th EXCEPT ![t] = r]
      BY <1>2, <2>1, <2>2, <3>1 DEF Locals
    <3>. QED BY <1>4, <2>1, <3>2, SameLike DEF PrunePcs
  <2>3. ASSUME NEW f, th' = [th EXCEPT ![t] = [th[t] EXCEPT !.pc = "unused", !.refs = {}, !.todo = f]]
        PROVE  TagParts(R)'
    <3>1. PICK r : r = [th[t] EXCEPT !.pc = "unused", !.refs = {}, !.todo = f]
      OBVIOUS
    <3>2. r.pc = "unused" /\ r.op = th[t].op /\ th' = [th EXCEPT ![t] = r]
      BY <1>2, <2>3, <3>1 DEF Locals
    <3>. QED BY <1>4, <2>1, <3>2, SameLike DEF PrunePcs
  <2>. QED BY <1>15, <2>2, <2>3 DEF PruneReadRefs
<1>16. CASE PruneUnused(t)
  <2>1. th[t].pc = "unused"
    BY <1>16 DEF PruneUnused, At
  <2>2. \A x \in Name : Like(dirs[x], dirs'[x])
    <3>1. dirs' = dirs \/ \E l : dirs' = Torn(dirs, l)
      BY <1>16 DEF PruneUnused, Gut
    <3>. QED BY <3>1, SameLike, TornLike DEF Ctx
  <2>3. t # Main
    BY <1>2, <2>1 DEF Ctx, BootInv
  <2>4. ASSUME NEW l, th' = [th EXCEPT ![t] = [th[t] EXCEPT !.pc = "unused layer", !.layer = l]]
        PROVE  TagParts(R)'
    <3>1. PICK r : r = [th[t] EXCEPT !.pc = "unused layer", !.layer = l]
      OBVIOUS
    <3>2. r.pc = "unused layer" /\ r.op = th[t].op /\ th' = [th EXCEPT ![t] = r]
      BY <1>2, <2>4, <3>1 DEF Locals
    <3>. QED BY <1>4, <2>1, <2>2, <3>2 DEF PrunePcs
  <2>5. ASSUME NEW l, th' = [th EXCEPT ![t] = [th[t] EXCEPT !.todo = th[t].todo \ {l}]]
        PROVE  TagParts(R)'
    <3>1. PICK r : r = [th[t] EXCEPT !.todo = th[t].todo \ {l}]
      OBVIOUS
    <3>2. r.pc = "unused" /\ r.op = th[t].op /\ th' = [th EXCEPT ![t] = r]
      BY <1>2, <2>1, <2>5, <3>1 DEF Locals
    <3>. QED BY <1>4, <2>1, <2>2, <3>2 DEF PrunePcs
  <2>6. CASE Finish(t)
    BY <1>5, <2>1, <2>2, <2>3, <2>6
  <2>. QED BY <1>16, <2>4, <2>5, <2>6 DEF PruneUnused
<1>17. CASE PruneUnusedEnd(t)
  <2>1. PICK r : r = [th[t] EXCEPT !.pc = "unused", !.layer = None, !.todo = th[t].todo \ {th[t].layer}]
    OBVIOUS
  <2>2. r.pc = "unused" /\ r.op = th[t].op /\ th' = [th EXCEPT ![t] = r] /\ dirs' = dirs /\ th[t].pc = "unused layer"
    BY <1>2, <1>17, <2>1 DEF Locals, PruneUnusedEnd, At
  <2>. QED BY <1>4, <2>2, SameLike DEF PrunePcs
<1>. QED BY <1>6, <1>7, <1>8, <1>9, <1>10, <1>11, <1>12, <1>13, <1>14, <1>15, <1>16, <1>17 DEF PruneStep

(* A request has a number of its own; a prune and a pull are not together. *)
LEMMA RequestTag ==
    ASSUME NEW R, Ctx(R), NEW t \in Workers, NEW op \in Ops, Request(t, op) PROVE TagParts(R)'
<1>1. /\ th[t].pc = "idle" /\ th[Main].pc = "idle" /\ dirs' = dirs /\ ops' = ops + 1 /\ ops \in Nat
      /\ t \in Thread /\ t # Main
  BY StoreAssumption DEF Request, At, Thread, Ctx, DataTyped
<1>2. \/ op = "pull" /\ \A u \in Workers : th[u].op # "prune"
      \/ op = "prune" /\ \A u \in Workers : th[u].op # "pull"
  BY DEF Request, Ctx
<1>3. kept' = kept
  BY <1>2 DEF Request
<1>4. PICK r : r = [Idle EXCEPT !.op = op, !.n = ops + 1, !.pc = op]
  OBVIOUS
<1>5. r.op = op /\ r.n = ops + 1 /\ r.pc = op
  BY <1>4 DEF Idle
<1>6. th'[t] = r /\ \A u \in Thread : u # t => th'[u] = th[u]
  BY <1>1, <1>4 DEF Request, Ctx, ThreadsTyped
<1>7. op = "pull" => \A u \in Thread : th[u].pc \in PrunePcs => th[u].pc = "idle"
  BY <1>1, <1>2 DEF Ctx, TagParts, Roles, Thread
<1>8. op = "prune" => \A u \in Thread : th[u].pc \in PrunePcs
  BY <1>1, <1>2 DEF Ctx, TagParts, Roles, Thread, PrunePcs
<1>9. "pull" \notin PrunePcs \cup Loading /\ "prune" \in PrunePcs /\ "idle" \in PrunePcs
  BY DEF PrunePcs, Loading
<1>10. Roles'
  <2>1. \A u \in Thread : th'[u].pc \notin PrunePcs =>
            /\ th'[u].op = "pull" /\ th'[u].n <= ops' /\ th'[u].pc \notin Loading
            /\ u # t => th'[u].n <= ops
    <3>1. \A u \in Thread : u # t /\ th[u].pc \notin PrunePcs =>
              th[u].op = "pull" /\ th[u].n <= ops /\ th[u].pc \notin Loading /\ th[u].n \in Nat
      BY DEF Ctx, TagParts, Roles, ThreadsTyped, Numbered, Num
    <3>. QED BY <1>1, <1>2, <1>5, <1>6, <1>9, <3>1
  <2>2. ASSUME NEW u \in Thread, NEW v \in Thread, u # v, th'[u].pc \notin PrunePcs, th'[v].pc \notin PrunePcs
        PROVE  th'[u].n # th'[v].n
    <3>1. CASE u # t /\ v # t
      BY <1>6, <2>2, <3>1 DEF Ctx, TagParts, Roles
    <3>2. CASE u = t
      BY <1>1, <1>5, <1>6, <2>1, <2>2, <3>2
    <3>3. CASE v = t
      BY <1>1, <1>5, <1>6, <2>1, <2>2, <3>3
    <3>. QED BY <3>1, <3>2, <3>3
  <2>3. \A u \in Thread : th'[u].pc = "old" => \E n \in Num : th'[u].name = Backup(n)
    BY <1>2, <1>5, <1>6 DEF Ctx, TagParts, Roles
  <2>4. \A u \in Thread : th'[u].pc = "pruning" => th'[u].name # Live
    BY <1>2, <1>5, <1>6 DEF Ctx, TagParts, Roles
  <2>5. \A w \in Workers : th'[w].pc \in PrunePcs \ {"idle"} => th'[w].op = "prune"
    BY <1>2, <1>5, <1>6, <1>9 DEF Ctx, TagParts, Roles, Thread
  <2>. QED BY <2>1, <2>2, <2>3, <2>4, <2>5 DEF Roles
<1>11. Alone'
  BY <1>2, <1>5, <1>6, <1>7, <1>8, <1>9 DEF Alone
<1>12. ~Booting /\ ~Booting'
  BY <1>1, <1>6, StoreAssumption DEF Booting, Thread
<1>13. \A u \in Thread : th[u].pc # "idle" => th'[u] = th[u]
  BY <1>1, <1>6
<1>14. Owned'
  <2>1. \A u \in Thread : th[u].pc \in OwnPcs => th'[u] = th[u]
    BY <1>13 DEF OwnPcs
  <2>. QED BY <1>1, <1>12, <2>1 DEF Ctx, TagParts, Owned
<1>15. Opens'
  <2>1. ASSUME NEW x \in Name, dirs[x] # None, NEW u \in dirs[x].open PROVE Deletes(th'[u], x)
    <3>1. u \in Thread /\ Deletes(th[u], x)
      BY <2>1 DEF Ctx, DataTyped, Dir, TagParts, Opens
    <3>. QED BY <1>13, <3>1 DEF Deletes
  <2>. QED BY <1>1, <2>1 DEF Opens
<1>16. Cleaning'
  BY <1>1, <1>2, <1>5, <1>6 DEF Ctx, TagParts, Cleaning
<1>17. Staged(R)'
  <2>1. th'[t].pc \notin StagePcs
    BY <1>2, <1>5, <1>6 DEF StagePcs, Fetching
  <2>. QED BY <1>1, <1>6, <2>1 DEF Ctx, TagParts, Staged
<1>18. Refs(R)'
  BY <1>1, <1>12 DEF Ctx, TagParts, Refs
<1>19. Kept'
  <2>1. \A u \in Thread : th[u].pc \in Tending => th'[u] = th[u]
    BY <1>13 DEF Tending
  <2>. QED BY <1>1, <1>3, <1>12, <2>1 DEF Ctx, TagParts, Kept
<1>. QED BY <1>10, <1>11, <1>14, <1>15, <1>16, <1>17, <1>18, <1>19 DEF TagParts

(* A directory whose deletion a crash ended is what it was. *)
LEMMA ClosedFacts ==
    ASSUME NEW d \in Dir, NEW e, e = [d EXCEPT !.open = {}], NEW R
    PROVE  e # None /\ e.open = {} /\ (d \in Good(R) => e \in Good(R))
<1>1. e \in Dir /\ e # None /\ e.open = {} /\ e.root = d.root /\ Files(e) = Files(d)
  BY OpenFacts
<1>. QED BY <1>1 DEF Good, Intact

(* After a crash the prune takes what was half done. *)
LEMMA RestartTag == ASSUME NEW R, Ctx(R), Restart PROVE TagParts(R)'
<1>1. Main \in Thread /\ Main \notin Workers
  BY StoreAssumption DEF Thread
<1>2. th'[Main].pc = "prune" /\ \A w \in Workers : th'[w].pc = "idle"
  BY <1>1 DEF Restart, Idle, Thread
<1>3. \A u \in Thread : th'[u].pc \in PrunePcs /\ th'[u].pc \notin {"old", "pruning"}
  BY <1>2 DEF Thread, PrunePcs
<1>4. Booting'
  BY <1>2 DEF Booting
<1>5. ~Ruined /\ kept' = kept
  BY DEF Restart, Ctx
<1>6. \A x \in Name : /\ dirs'[x] = None <=> dirs[x] = None
                      /\ dirs'[x] # None => dirs'[x].open = {}
                      /\ dirs[x] \in Good(R) => dirs'[x] \in Good(R)
  <2>1. ASSUME NEW x \in Name, dirs[x] # None
        PROVE  dirs'[x] # None /\ dirs'[x].open = {} /\ (dirs[x] \in Good(R) => dirs'[x] \in Good(R))
    <3>1. dirs[x] \in Dir /\ dirs'[x] = [dirs[x] EXCEPT !.open = {}]
      BY <2>1 DEF Ctx, DataTyped, Restart
    <3>. QED BY <3>1, ClosedFacts
  <2>2. \A x \in Name : dirs[x] = None => dirs'[x] = None
    BY DEF Restart
  <2>3. None \notin Good(R)
    BY DEF Good, Intact
  <2>. QED BY <2>1, <2>2, <2>3
<1>7. Live \in Name /\ \A n \in Num : Backup(n) \in Name
  BY NameTypes
<1>8. Roles' /\ Alone' /\ Owned' /\ Opens' /\ Cleaning' /\ Staged(R)'
  BY <1>2, <1>3, <1>4, <1>6 DEF Roles, Alone, Owned, Opens, Cleaning, Staged, PrunePcs, StagePcs, Fetching
<1>9. Refs(R)'
  <2>1. dirs'[Live] # None => dirs'[Live] \in Good(R)
    BY <1>6, <1>7 DEF Ctx, TagParts, Refs
  <2>2. ASSUME NEW n \in Num, dirs'[Backup(n)] # None, dirs'[Live] = None PROVE dirs'[Backup(n)] \in Good(R)
    <3>1. dirs[Backup(n)] # None /\ dirs[Live] = None
      BY <1>6, <1>7, <2>2
    <3>2. dirs[Backup(n)].open = {}
      BY <1>5, <3>1 DEF Ruined
    <3>3. dirs[Backup(n)] \in Good(R)
      BY <3>1, <3>2 DEF Ctx, TagParts, Refs
    <3>. QED BY <1>6, <1>7, <3>3
  <2>. QED BY <1>4, <2>1, <2>2 DEF Refs
<1>10. Kept'
  BY <1>4, <1>5, <1>6, <1>7 DEF Ctx, TagParts, Kept
<1>. QED BY <1>8, <1>9, <1>10 DEF TagParts

(* Every step keeps it, as long as the merges leave one of the roots R. *)
LEMMA TagInductive ==
    ASSUME NEW R, R \subseteq Settled, TagParts(R), MergesTo(R), BootInv, kept # "exempt", kept' # "exempt",
           ThreadsTyped, DataTyped, [Next]_vars
    PROVE  TagParts(R)'
<1>1. Ctx(R)
  BY TypeStep DEF Ctx
<1>2. CASE \E t \in Workers, op \in Ops : Request(t, op)
  BY <1>1, <1>2, RequestTag
<1>3. ASSUME NEW t \in Thread, Step(t) PROVE TagParts(R)'
  <2>1. LayerStep(t) \/ ImageStep(t) => th[t].op = "pull"
    <3>1. LayerStep(t) \/ ImageStep(t) => th[t].pc \notin PrunePcs
      BY DEF LayerStep, LayerNext, ExtractCheck, ExtractClear, ExtractStart, ExtractPublish,
             ImageStep, SaveManifest, MergeBegin, MergeEnd, WriteRef, At, PrunePcs
    <3>. QED BY <3>1 DEF TagParts, Roles
  <2>. QED BY <1>1, <1>3, <2>1, LayerStepTag, ImageStepTag, PullStepTag, NoLoad, PruneStepTag DEF Step
<1>4. CASE Restart
  BY <1>1, <1>4, RestartTag
<1>5. CASE UNCHANGED vars
  BY <1>5 DEF vars, TagParts, Roles, Alone, Owned, Opens, Cleaning, Staged, Refs, Kept, Booting
<1>. QED BY <1>2, <1>3, <1>4, <1>5 DEF Next

(* A new store has no tag and no request. *)
LEMMA TagInit == ASSUME NEW R, Init PROVE TagParts(R)
<1>1. \A t \in Thread : th[t].pc = "idle" /\ th[t].pc \in PrunePcs
  BY IdleType DEF Init, PrunePcs
<1>2. \A x \in Name : dirs[x] = None
  BY DEF Init
<1>3. kept = "none" /\ Live \in Name /\ \A n \in Num : Backup(n) \in Name
  BY NameTypes DEF Init
<1>4. Roles /\ Alone /\ Owned /\ Opens /\ Cleaning /\ Staged(R)
  BY <1>1, <1>2, <1>3, StoreAssumption DEF Roles, Alone, Owned, Opens, Cleaning, Staged, StagePcs, Fetching, Thread
<1>5. Refs(R) /\ Kept
  BY <1>2, <1>3 DEF Refs, Kept
<1>. QED BY <1>4, <1>5 DEF TagParts

(* A merge that ends leaves a root that is whole, lossy or holed. *)
LEMMA MergesSettle ==
    ASSUME DataTyped, ThreadsTyped, [Next]_vars PROVE MergesTo(Settled)
<1>1. SUFFICES ASSUME NEW t \in Thread, MergeEnd(t), th[t].op = "pull", dirs[Stage(th[t].n)] # None,
                      ~(Raise(t) /\ UNCHANGED dirs)
               PROVE  dirs'[Stage(th[t].n)].root \in Settled
  BY DEF MergesTo
<1>2. th[t].n \in Num /\ Stage(th[t].n) \in Name
  BY <1>1, NameTypes DEF MergeEnd, At, ThreadsTyped, Numbered, PrunePcs
<1>3. Target(t) = Stage(th[t].n)
  BY <1>1 DEF Target
<1>4. PICK k \in Settled : Put(Stage(th[t].n), [dirs[Stage(th[t].n)] EXCEPT !.root = k])
  BY <1>1, <1>3 DEF MergeEnd, Settled
<1>5. dirs'[Stage(th[t].n)] = [dirs[Stage(th[t].n)] EXCEPT !.root = k] /\ dirs[Stage(th[t].n)] \in Dir
  BY <1>1, <1>2, <1>4 DEF Put, DataTyped
<1>. QED BY <1>5 DEF Dir

(* While the tag's name is free, the backup that is there is intact: nobody   *)
(* deletes it but the pull that would put it back, or a prune that saw the   *)
(* tag's directory.                                                          *)
LEMMA TagFound ==
    ASSUME TagParts(Settled), kept = "published", BootInv, DataTyped
    PROVE  TagNotLost /\ TagInPlace
<1>1. Live \in Name /\ \A n \in Num : Backup(n) \in Name
  BY NameTypes
<1>2. dirs[Live] # None => Intact(dirs[Live])
  BY DEF TagParts, Refs, Good
<1>3. ASSUME dirs[Live] = None
      PROVE  \E n \in Num : /\ Intact(dirs[Backup(n)])
                            /\ Booting \/ \E t \in Thread : th[t].pc \in Tending /\ th[t].n = n
  <2>1. PICK n \in Num : /\ dirs[Backup(n)] # None
                         /\ Booting \/ \E t \in Thread : th[t].pc \in Tending /\ th[t].n = n
    BY <1>3 DEF TagParts, Kept
  <2>2. ASSUME NEW u \in dirs[Backup(n)].open PROVE FALSE
    <3>1. u \in Thread /\ Deletes(th[u], Backup(n))
      BY <1>1, <2>1, <2>2 DEF DataTyped, Dir, TagParts, Opens
    <3>2. CASE Booting
      <4>1. u = Main /\ th[Main].pc = "pruning" /\ Backup(n) = th[Main].name
        BY <1>1, <2>1, <2>2, <3>2 DEF BootInv, BootOpen
      <4>. QED BY <1>3, <3>2, <4>1 DEF BootInv, BootRm
    <3>3. CASE ~Booting
      <4>1. PICK t \in Thread : th[t].pc \in Tending /\ th[t].n = n
        BY <2>1, <3>3
      <4>2. th[t].pc \notin PrunePcs /\ th[t].pc # "cleaning"
        BY <4>1 DEF Tending, PrunePcs
      <4>3. th[u].pc # "pruning"
        BY <3>1, <4>2 DEF TagParts, Alone, PrunePcs
      <4>4. th[u].pc = "cleaning" /\ th[u].n = n
        BY <3>1, <4>3, NameFacts DEF Deletes
      <4>5. th[u].pc \notin PrunePcs /\ u # t
        BY <4>2, <4>4 DEF PrunePcs
      <4>. QED BY <3>1, <4>1, <4>2, <4>4, <4>5 DEF TagParts, Roles
    <3>. QED BY <3>2, <3>3
  <2>3. dirs[Backup(n)].open = {}
    BY <2>2
  <2>4. dirs[Backup(n)] \in Good(Settled)
    BY <1>3, <2>1, <2>3 DEF TagParts, Refs
  <2>. QED BY <2>1, <2>4 DEF Good
<1>4. TagNotLost
  BY <1>2, <1>3 DEF TagNotLost
<1>5. TagInPlace
  <2>1. SUFFICES ASSUME \A t \in Thread : th[t].pc = "idle", dirs[Live] = None PROVE FALSE
    BY <1>2 DEF TagInPlace, At
  <2>2. Main \in Thread
    BY DEF Thread
  <2>. QED BY <1>3, <2>1, <2>2 DEF Booting, Tending
<1>. QED BY <1>4, <1>5

(* The history stays exempt. *)
LEMMA Exempted == ASSUME [Next]_vars, kept' # "exempt" PROVE kept # "exempt"
BY DEF Next, vars, Request, Restart, Step, LayerStep, LayerNext, ExtractCheck, ExtractClear, ExtractStart,
       ExtractPublish, ImageStep, SaveManifest, MergeBegin, MergeEnd, WriteRef, PullStep, PullBegin,
       PullConfig, PullSwap, PullBackup, PullPublish, PullFail, PullRestore, PullDrop, PullDropEnd,
       PullCleanup, PullCleanupEnd, LoadStep, ClearBegin, ClearEnd, LoadBegin, LoadMake, PruneStep,
       PruneList, PruneStage, PruneOldLook, PruneOldDelete, PruneEnd, PruneOldRestore, PruneTmp,
       PrunePartial, PruneBuildDone, PruneReadRefs, PruneUnused, PruneUnusedEnd

(* The parts hold as long as the history does not exempt the behaviour. *)
LEMMA TagStep == ThreadsTyped /\ DataTyped /\ BootInv /\ TagInv /\ [Next]_vars => TagInv'
<1> SUFFICES ASSUME ThreadsTyped, DataTyped, BootInv, TagInv, [Next]_vars, kept' # "exempt"
             PROVE  TagParts(Settled)'
  BY DEF TagInv
<1>1. kept # "exempt"
  BY Exempted
<1>2. TagParts(Settled) /\ MergesTo(Settled)
  BY <1>1, MergesSettle DEF TagInv
<1>. QED BY <1>1, <1>2, TagInductive

(* Whatever pulls do between their renames, in their error path and in      *)
(* their deletions, and wherever crashes cut them, an intact directory of a *)
(* published tag is under its name or a backup's (pull_image,               *)
(* prune_build_artifacts, _image_dir_complete without the layers).          *)
THEOREM PublishedNeverLost == Spec => []TagNotLost
<1>1. ThreadsTyped /\ DataTyped /\ BootInv /\ TagInv => TagNotLost
  BY TagFound DEF TagInv, TagNotLost
<1>2. Init => TagInv
  BY TagInit DEF TagInv
<1>. QED BY <1>1, <1>2, TagStep, TypeInit, TypeStep, BootInit, BootStep, PTL DEF Spec

(* ... and under its own name once no request and no prune is at work. *)
THEOREM TagStaysInPlace == Spec => []TagInPlace
<1>1. ThreadsTyped /\ DataTyped /\ BootInv /\ TagInv => TagInPlace
  BY TagFound DEF TagInv, TagInPlace
<1>2. Init => TagInv
  BY TagInit DEF TagInv
<1>. QED BY <1>1, <1>2, TagStep, TypeInit, TypeStep, BootInit, BootStep, PTL DEF Spec

-----------------------------------------------------------------------------
(***************************************************************************)
(* What inspect, list and run accept is whole, while pulls share no layer. *)
(* A pull that alone extracts a layer finds at its path what it left, so   *)
(* no layer is ever there in part, and every merge reads whole layers: it  *)
(* leaves a root of Merged, and the parts above hold with these roots.     *)
(***************************************************************************)
Merged == {"whole", "lossy"}
Loaded == {"layers", "extract", "clear layer", "publish"}
StageIs(ds, x, R) == ds[Stage(x.n)] # None /\ ds[Stage(x.n)].root \in R

(* What a pull with locals x has done, in directories ds and layers ly. *)
Sound(ds, ly, x) ==
    /\ x.pc # "unpack"
    /\ x.pc \in Loaded => x.todo \subseteq x.want /\ \A l \in x.want \ x.todo : ly[l] = "full"
    /\ x.pc \in Loaded \ {"layers"} => x.layer \in x.want
    /\ x.pc \in {"clear layer", "publish"} => ly[x.layer] = "none"
    /\ x.pc \in {"manifest", "merge", "merging"} => \A l \in x.want : ly[l] = "full"
    /\ x.pc \in Loaded \cup {"config", "manifest", "merge"} => StageIs(ds, x, {"none"})
    /\ x.pc = "merge" => ds[Stage(x.n)].man = x.want
    /\ x.pc = "merging" => StageIs(ds, x, {"part"})

Pulls        == \A t \in Thread : Sound(dirs, lay, th[t])
LayersIntact == lay \in [Layers -> {"none", "full"}] /\ tmp \in [Num -> {"none", "full"}]
WholeInv     == kept # "exempt" => TagParts(Merged) /\ Pulls /\ LayersIntact

(* No two requests at work share a layer. *)
Apart == \A t, u \in Workers : t # u => th[t].want \cap th[u].want = {}

WholeCtx == Ctx(Merged) /\ Pulls /\ LayersIntact /\ Apart /\ Ops \subseteq {"pull"}

(* Where a thread is when it fills no stage. *)
NoPull == PrunePcs \cup {"pull", "ref", "swap", "backup", "rename", "fail", "restore", "drop", "dropping",
                         "cleanup", "cleaning"}

(* There it has nothing to keep. *)
LEMMA NothingKept == ASSUME NEW ds, NEW ly, NEW x, x.pc \in NoPull PROVE Sound(ds, ly, x)
BY DEF Sound, NoPull, PrunePcs, Loaded

(* The other pulls keep what they have done when a pull writes to its own   *)
(* stage, to the tag and its backups, and completes one of its own layers.  *)
LEMMA Undisturbed ==
    ASSUME WholeCtx, NEW t \in Thread, NEW u \in Thread, t # u, th[t].pc \notin PrunePcs,
           \A m \in Num : m # th[t].n => dirs'[Stage(m)] = dirs[Stage(m)],
           \A l \in Layers : lay'[l] = lay[l] \/ (l \in th[t].want /\ lay'[l] = "full")
    PROVE  Sound(dirs', lay', th[u])
<1>1. CASE th[u].pc \in PrunePcs
  BY <1>1, NothingKept DEF NoPull
<1>2. CASE th[u].pc \notin PrunePcs
  <2>1. th[t].n # th[u].n /\ th[u].n \in Num /\ t \in Workers /\ u \in Workers
    <3>1. Ctx(Merged)
      BY DEF WholeCtx
    <3>. QED BY <1>2, <3>1, Serving
  <2>2. dirs'[Stage(th[u].n)] = dirs[Stage(th[u].n)]
    BY <2>1
  <2>3. th[t].want \cap th[u].want = {} /\ th[u].want \subseteq Layers
    BY <2>1 DEF WholeCtx, Ctx, Apart, ThreadsTyped, Locals
  <2>4. \A l \in th[u].want : lay'[l] = lay[l]
    BY <2>3
  <2>5. Sound(dirs, lay, th[u])
    BY DEF WholeCtx, Pulls
  <2>. QED BY <2>2, <2>3, <2>4, <2>5 DEF Sound, StageIs, Loaded
<1>. QED BY <1>1, <1>2

(* A step of a pull: what it has to show about itself and the layers. *)
LEMMA WholeStep ==
    ASSUME WholeCtx, NEW t \in Thread, NEW r, th' = [th EXCEPT ![t] = r], th[t].pc \notin PrunePcs,
           \A m \in Num : m # th[t].n => dirs'[Stage(m)] = dirs[Stage(m)],
           \A l \in Layers : lay'[l] = lay[l] \/ (l \in th[t].want /\ lay'[l] = "full"),
           LayersIntact', Sound(dirs', lay', r)
    PROVE  Pulls' /\ LayersIntact'
<1>1. th'[t] = r /\ \A u \in Thread : u # t => th'[u] = th[u]
  BY DEF WholeCtx, Ctx, ThreadsTyped
<1>2. \A u \in Thread : Sound(dirs', lay', th'[u])
  <2>1. ASSUME NEW u \in Thread, u # t PROVE Sound(dirs', lay', th'[u])
    <3>1. Sound(dirs', lay', th[u])
      BY <2>1, Undisturbed
    <3>. QED BY <1>1, <2>1, <3>1
  <2>. QED BY <1>1, <2>1
<1>. QED BY <1>2 DEF Pulls

(* A step of a pull that leaves the layers as they are. *)
LEMMA WholeSame ==
    ASSUME WholeCtx, NEW t \in Thread, NEW r, th' = [th EXCEPT ![t] = r], th[t].pc \notin PrunePcs,
           \A m \in Num : m # th[t].n => dirs'[Stage(m)] = dirs[Stage(m)],
           lay' = lay, LayersIntact', Sound(dirs', lay, r)
    PROVE  Pulls' /\ LayersIntact'
BY WholeStep

(* An exception leaves the pull with nothing it has to keep. *)
LEMMA WholeRaise ==
    ASSUME WholeCtx, NEW t \in Thread, Raise(t), th[t].pc \notin PrunePcs,
           dirs' = dirs, lay' = lay, LayersIntact'
    PROVE  Pulls' /\ LayersIntact'
<1>1. th[t].op = "pull" /\ th[t] \in Locals
  BY DEF WholeCtx, Ctx, TagParts, Roles, ThreadsTyped
<1>2. PICK r : r = [th[t] EXCEPT !.pc = "fail"]
  OBVIOUS
<1>3. th' = [th EXCEPT ![t] = r] /\ r.pc = "fail"
  BY <1>1, <1>2 DEF Raise, Goto, Locals, WholeCtx, Ctx, ThreadsTyped
<1>4. Sound(dirs', lay, r)
  BY <1>3, NothingKept DEF NoPull
<1>. QED BY <1>3, <1>4, WholeSame

(* The layers: cached ones are whole, the others are extracted once. *)
LEMMA LayerStepWhole == ASSUME WholeCtx, NEW t \in Thread, LayerStep(t) PROVE Pulls' /\ LayersIntact'
<1>1. th[t].pc \in Loaded
  <2>1. th[t].pc # "unpack"
    BY DEF WholeCtx, Pulls, Sound
  <2>. QED BY <2>1 DEF LayerStep, LayerNext, ExtractCheck, ExtractClear, ExtractStart, ExtractPublish, At, Loaded
<1>2. /\ th[t].pc \notin PrunePcs /\ th[t] \in Locals /\ th[t].op = "pull" /\ th[t].n \in Num
      /\ th[t].want \subseteq Layers
  <2>1. th[t].pc \notin PrunePcs /\ Ctx(Merged)
    BY <1>1 DEF Loaded, PrunePcs, WholeCtx
  <2>2. th[t] \in Locals /\ th[t].op = "pull" /\ th[t].n \in Num
    BY <2>1, Serving
  <2>. QED BY <2>1, <2>2 DEF Locals
<1>3. Sound(dirs, lay, th[t]) /\ LayersIntact
  BY DEF WholeCtx, Pulls
<1>4. \A l \in Layers : Exists(l) <=> lay[l] = "full"
  BY <1>3 DEF LayersIntact, Exists
<1>5. /\ th[t].todo \subseteq th[t].want /\ \A l \in th[t].want \ th[t].todo : lay[l] = "full"
      /\ StageIs(dirs, th[t], {"none"})
  BY <1>1, <1>3 DEF Sound
<1>6. ASSUME NEW l \in Layers, lay[l] = "full", dirs' = dirs, lay' = lay, tmp' = tmp,
             \/ th' = [th EXCEPT ![t] = [th[t] EXCEPT !.todo = th[t].todo \ {l}]] /\ th[t].pc = "layers"
             \/ th' = [th EXCEPT ![t] = [th[t] EXCEPT !.pc = "layers", !.todo = th[t].todo \ {l}]]
      PROVE  Pulls' /\ LayersIntact'
  <2>1. PICK r : r = [th[t] EXCEPT !.pc = "layers", !.todo = th[t].todo \ {l}]
    OBVIOUS
  <2>2. th' = [th EXCEPT ![t] = r]
    BY <1>2, <1>6, <2>1 DEF Locals
  <2>3. r.pc = "layers" /\ r.todo = th[t].todo \ {l} /\ r.want = th[t].want /\ r.n = th[t].n
    BY <1>2, <2>1 DEF Locals
  <2>4. Sound(dirs', lay, r)
    BY <1>5, <1>6, <2>3 DEF Sound, Loaded, StageIs
  <2>. QED BY <1>2, <1>3, <1>6, <2>2, <2>4, WholeSame DEF LayersIntact
<1>7. CASE LayerNext(t)
  <2>1. dirs' = dirs /\ lay' = lay /\ tmp' = tmp /\ th[t].pc = "layers" /\ LayersIntact'
    BY <1>3, <1>7 DEF LayerNext, At, LayersIntact
  <2>2. CASE th[t].todo = {} /\ Goto(t, IF th[t].op = "pull" THEN "manifest" ELSE "clear")
    <3>1. PICK r : r = [th[t] EXCEPT !.pc = "manifest"]
      OBVIOUS
    <3>2. th' = [th EXCEPT ![t] = r]
      BY <1>2, <2>2, <3>1 DEF Goto, WholeCtx, Ctx, ThreadsTyped
    <3>3. r.pc = "manifest" /\ r.want = th[t].want /\ r.n = th[t].n
      BY <1>2, <3>1 DEF Locals
    <3>4. Sound(dirs', lay, r)
      BY <1>5, <2>1, <2>2, <3>3 DEF Sound, Loaded, StageIs
    <3>. QED BY <1>2, <2>1, <3>2, <3>4, WholeSame
  <2>3. ASSUME NEW l \in th[t].todo, th' = [th EXCEPT ![t] = [th[t] EXCEPT !.pc = "extract", !.layer = l]]
        PROVE  Pulls' /\ LayersIntact'
    <3>1. PICK r : r = [th[t] EXCEPT !.pc = "extract", !.layer = l]
      OBVIOUS
    <3>2. r.pc = "extract" /\ r.want = th[t].want /\ r.todo = th[t].todo /\ r.layer = l /\ r.n = th[t].n
      BY <1>2, <3>1 DEF Locals
    <3>3. Sound(dirs', lay, r) /\ th' = [th EXCEPT ![t] = r]
      BY <1>5, <2>1, <2>3, <3>1, <3>2 DEF Sound, Loaded, StageIs
    <3>. QED BY <1>2, <2>1, <3>3, WholeSame
  <2>4. ASSUME NEW l \in th[t].todo, Exists(l),
               th' = [th EXCEPT ![t] = [th[t] EXCEPT !.todo = th[t].todo \ {l}]]
        PROVE  Pulls' /\ LayersIntact'
    <3>1. l \in Layers
      BY <1>2, <1>5
    <3>. QED BY <1>4, <1>6, <2>1, <2>4, <3>1
  <2>5. CASE Raise(t)
    BY <1>2, <2>1, <2>5, WholeRaise
  <2>. QED BY <1>7, <2>2, <2>3, <2>4, <2>5 DEF LayerNext
<1>8. CASE ExtractCheck(t)
  <2>1. dirs' = dirs /\ lay' = lay /\ tmp' = tmp /\ th[t].pc = "extract" /\ LayersIntact'
    BY <1>3, <1>8 DEF ExtractCheck, At, LayersIntact
  <2>2. th[t].layer \in th[t].want /\ th[t].layer \in Layers
    BY <1>2, <1>3, <2>1 DEF Sound, Loaded
  <2>3. CASE Exists(th[t].layer)
    BY <1>4, <1>6, <1>8, <2>1, <2>2, <2>3 DEF ExtractCheck
  <2>4. CASE ~Exists(th[t].layer)
    <3>1. PICK r : r = [th[t] EXCEPT !.pc = "clear layer"]
      OBVIOUS
    <3>2. th' = [th EXCEPT ![t] = r]
      BY <1>8, <2>4, <3>1 DEF ExtractCheck, Goto, WholeCtx, Ctx, ThreadsTyped
    <3>3. r.pc = "clear layer" /\ r.want = th[t].want /\ r.todo = th[t].todo /\ r.layer = th[t].layer /\ r.n = th[t].n
      BY <1>2, <3>1 DEF Locals
    <3>4. lay[th[t].layer] = "none"
      BY <1>3, <2>2, <2>4 DEF LayersIntact, Exists
    <3>5. Sound(dirs', lay, r)
      BY <1>5, <2>1, <2>2, <3>3, <3>4 DEF Sound, Loaded, StageIs
    <3>. QED BY <1>2, <2>1, <3>2, <3>5, WholeSame
  <2>. QED BY <2>3, <2>4
<1>9. ~ExtractClear(t)
  BY <1>3 DEF ExtractClear, At, Sound
<1>10. CASE ExtractStart(t)
  <2>1. th[t].pc = "clear layer" /\ lay[th[t].layer] = "none" /\ th[t].layer \in th[t].want
    BY <1>3, <1>10 DEF ExtractStart, At, Sound, Loaded
  <2>2. dirs' = dirs /\ lay' = lay /\ LayersIntact'
    BY <1>3, <1>10, <2>1 DEF ExtractStart, At, LayersIntact
  <2>3. PICK r : r = [th[t] EXCEPT !.pc = "publish"]
    OBVIOUS
  <2>4. th' = [th EXCEPT ![t] = r]
    BY <1>10, <2>3 DEF ExtractStart, Goto, WholeCtx, Ctx, ThreadsTyped
  <2>5. r.pc = "publish" /\ r.want = th[t].want /\ r.todo = th[t].todo /\ r.layer = th[t].layer /\ r.n = th[t].n
    BY <1>2, <2>3 DEF Locals
  <2>6. Sound(dirs', lay, r)
    BY <1>5, <2>1, <2>2, <2>5 DEF Sound, Loaded, StageIs
  <2>. QED BY <1>2, <2>2, <2>4, <2>6, WholeSame
<1>11. CASE ExtractPublish(t)
  <2>1. th[t].pc = "publish" /\ lay[th[t].layer] = "none" /\ th[t].layer \in th[t].want /\ th[t].layer \in Layers
    BY <1>2, <1>3, <1>11 DEF ExtractPublish, At, Sound, Loaded
  <2>2. dirs' = dirs
    BY <1>11 DEF ExtractPublish
  <2>3. tmp' \in [Num -> {"none", "full"}]
    BY <1>3, <1>11 DEF ExtractPublish, LayersIntact
  <2>4. CASE tmp[th[t].n] # "none" /\ lay' = [lay EXCEPT ![th[t].layer] = tmp[th[t].n]]
             /\ th' = [th EXCEPT ![t] = [th[t] EXCEPT !.pc = "layers", !.todo = th[t].todo \ {th[t].layer}]]
    <3>1. tmp[th[t].n] = "full"
      BY <1>2, <1>3, <2>4 DEF LayersIntact
    <3>2. \A l \in Layers : lay'[l] = IF l = th[t].layer THEN "full" ELSE lay[l]
      BY <1>3, <2>4, <3>1 DEF LayersIntact
    <3>3. LayersIntact'
      BY <1>3, <2>3, <2>4, <3>1 DEF LayersIntact
    <3>4. PICK r : r = [th[t] EXCEPT !.pc = "layers", !.todo = th[t].todo \ {th[t].layer}]
      OBVIOUS
    <3>5. r.pc = "layers" /\ r.todo = th[t].todo \ {th[t].layer} /\ r.want = th[t].want /\ r.n = th[t].n
      BY <1>2, <3>4 DEF Locals
    <3>6. \A l \in r.want \ r.todo : lay'[l] = "full"
      BY <1>2, <1>5, <3>2, <3>5
    <3>7. Sound(dirs', lay', r)
      BY <1>5, <2>2, <3>5, <3>6 DEF Sound, Loaded, StageIs
    <3>8. \A l \in Layers : lay'[l] = lay[l] \/ (l \in th[t].want /\ lay'[l] = "full")
      BY <2>1, <3>2
    <3>9. th' = [th EXCEPT ![t] = r]
      BY <2>4, <3>4
    <3>. QED BY <1>2, <2>2, <3>3, <3>7, <3>8, <3>9, WholeStep
  <2>5. CASE Raise(t) /\ lay' = lay
    BY <1>2, <1>3, <2>2, <2>3, <2>5, WholeRaise DEF LayersIntact
  <2>. QED BY <1>11, <2>4, <2>5 DEF ExtractPublish
<1>. QED BY <1>7, <1>8, <1>9, <1>10, <1>11 DEF LayerStep

(* A pull that writes its own stage and goes on with locals r. *)
LEMMA StageWhole ==
    ASSUME WholeCtx, NEW t \in Thread, th[t].pc \notin PrunePcs, NEW r, th' = [th EXCEPT ![t] = r],
           NEW d, Put(Stage(th[t].n), d), lay' = lay, tmp' = tmp,
           dirs'[Stage(th[t].n)] = d => Sound(dirs', lay, r)
    PROVE  Pulls' /\ LayersIntact'
<1>1. Stage(th[t].n) \in Name /\ \A m \in Num : Stage(m) \in Name
  <2>1. Ctx(Merged)
    BY DEF WholeCtx
  <2>. QED BY <2>1, Serving, NameTypes
<1>2. \A x \in Name : dirs'[x] = IF x = Stage(th[t].n) THEN d ELSE dirs[x]
  BY <1>1 DEF Put, WholeCtx, Ctx, DataTyped
<1>3. \A m \in Num : m # th[t].n => dirs'[Stage(m)] = dirs[Stage(m)]
  BY <1>1, <1>2, NameFacts
<1>4. LayersIntact'
  BY DEF WholeCtx, LayersIntact
<1>. QED BY <1>1, <1>2, <1>3, <1>4, WholeSame

(* The merge of a stage that nobody else writes, from layers that are whole. *)
LEMMA ImageStepWhole == ASSUME WholeCtx, NEW t \in Thread, ImageStep(t) PROVE Pulls' /\ LayersIntact'
<1>1. th[t].pc \in {"manifest", "merge", "merging", "ref"}
  BY DEF ImageStep, SaveManifest, MergeBegin, MergeEnd, WriteRef, At
<1>2. /\ th[t].pc \notin PrunePcs /\ th[t] \in Locals /\ th[t].op = "pull" /\ th[t].n \in Num
      /\ Stage(th[t].n) \in Name
  <2>1. th[t].pc \notin PrunePcs /\ Ctx(Merged)
    BY <1>1 DEF PrunePcs, WholeCtx
  <2>. QED BY <2>1, Serving
<1>3. Sound(dirs, lay, th[t]) /\ LayersIntact
  BY DEF WholeCtx, Pulls
<1> DEFINE x == Stage(th[t].n)
<1>4. Target(t) = x
  BY <1>2 DEF Target
<1>5. dirs[x] # None /\ dirs[x] \in Dir
  <2>1. Has(th[t].pc, dirs[x], Merged)
    BY <1>1 DEF StagePcs, Fetching, WholeCtx, Ctx, TagParts, Staged
  <2>. QED BY <1>2, <2>1 DEF Has, WholeCtx, Ctx, DataTyped
<1>6. ASSUME NEW p, Goto(t, p)
      PROVE  \E r : th' = [th EXCEPT ![t] = r] /\ r.pc = p /\ r.want = th[t].want /\ r.n = th[t].n
  <2>1. PICK r : r = [th[t] EXCEPT !.pc = p]
    OBVIOUS
  <2>2. th' = [th EXCEPT ![t] = r] /\ r.pc = p /\ r.want = th[t].want /\ r.n = th[t].n
    BY <1>2, <1>6, <2>1 DEF Goto, Locals, WholeCtx, Ctx, ThreadsTyped
  <2>. QED BY <2>2
<1>7. \A d \in Dir : d # None
  BY StoreAssumption
<1>8. ASSUME NEW d \in Dir, Put(x, d), lay' = lay, tmp' = tmp, NEW p \in NoPull, Goto(t, p)
      PROVE  Pulls' /\ LayersIntact'
  <2>1. PICK r : th' = [th EXCEPT ![t] = r] /\ r.pc = p
    BY <1>6, <1>8
  <2>2. Sound(dirs', lay, r)
    BY <2>1, NothingKept
  <2>. QED BY <1>2, <1>8, <2>1, <2>2, StageWhole
<1>9. CASE SaveManifest(t)
  <2>1. PICK d : d = [dirs[x] EXCEPT !.man = th[t].want, !.cfg = th[t].want]
    OBVIOUS
  <2>2. Put(x, d) /\ Goto(t, "merge") /\ lay' = lay /\ tmp' = tmp /\ th[t].pc = "manifest"
    BY <1>4, <1>5, <1>9, <2>1 DEF SaveManifest, At
  <2>3. d \in Dir /\ d.man = th[t].want /\ d.root = dirs[x].root
    BY <1>2, <1>5, <2>1 DEF Dir, Locals
  <2>4. PICK r : th' = [th EXCEPT ![t] = r] /\ r.pc = "merge" /\ r.want = th[t].want /\ r.n = th[t].n
    BY <1>6, <2>2
  <2>5. dirs[x].root = "none" /\ \A l \in th[t].want : lay[l] = "full"
    BY <1>3, <2>2 DEF Sound, StageIs
  <2>6. dirs'[x] = d => Sound(dirs', lay, r)
    BY <1>7, <2>3, <2>4, <2>5 DEF Sound, StageIs, Loaded
  <2>. QED BY <1>2, <2>2, <2>4, <2>6, StageWhole
<1>10. CASE MergeBegin(t)
  <2>1. PICK d : d = [dirs[x] EXCEPT !.root = IF dirs[x].root = "none" /\ dirs[x].man = th[t].want
                                              THEN "part" ELSE "holed"]
    OBVIOUS
  <2>2. Put(x, d) /\ Goto(t, "merging") /\ lay' = lay /\ tmp' = tmp /\ th[t].pc = "merge"
    BY <1>4, <1>5, <1>10, <2>1 DEF MergeBegin, At
  <2>3. dirs[x].root = "none" /\ dirs[x].man = th[t].want /\ \A l \in th[t].want : lay[l] = "full"
    BY <1>3, <2>2 DEF Sound, StageIs
  <2>4. d \in Dir /\ d.root = "part"
    BY <1>5, <2>1, <2>3 DEF Dir
  <2>5. PICK r : th' = [th EXCEPT ![t] = r] /\ r.pc = "merging" /\ r.want = th[t].want /\ r.n = th[t].n
    BY <1>6, <2>2
  <2>6. dirs'[x] = d => Sound(dirs', lay, r)
    BY <1>7, <2>3, <2>4, <2>5 DEF Sound, StageIs, Loaded
  <2>. QED BY <1>2, <2>2, <2>5, <2>6, StageWhole
<1>11. CASE MergeEnd(t)
  <2>1. th[t].pc = "merging" /\ lay' = lay /\ tmp' = tmp
    BY <1>11 DEF MergeEnd, At
  <2>2. dirs[x].root = "part" /\ \A l \in th[t].want : lay[l] = "full"
    BY <1>3, <2>1 DEF Sound, StageIs
  <2>3. PICK k \in Merged : Put(x, [dirs[x] EXCEPT !.root = k]) /\ Goto(t, "ref")
    BY <1>4, <1>5, <1>11, <2>2 DEF MergeEnd, Merged
  <2>4. [dirs[x] EXCEPT !.root = k] \in Dir
    BY <1>5 DEF Dir, Merged
  <2>. QED BY <1>8, <2>1, <2>3, <2>4 DEF NoPull
<1>12. CASE WriteRef(t)
  <2>1. Put(x, [dirs[x] EXCEPT !.ref = TRUE]) /\ Goto(t, "swap") /\ lay' = lay /\ tmp' = tmp
    BY <1>2, <1>4, <1>5, <1>12 DEF WriteRef
  <2>2. [dirs[x] EXCEPT !.ref = TRUE] \in Dir
    BY <1>5 DEF Dir
  <2>. QED BY <1>8, <2>1, <2>2 DEF NoPull
<1>. QED BY <1>9, <1>10, <1>11, <1>12 DEF ImageStep

(* So a merge that ends leaves a root of Merged. *)
LEMMA MergesWhole == ASSUME WholeCtx PROVE MergesTo(Merged)
<1>1. SUFFICES ASSUME NEW t \in Thread, MergeEnd(t), th[t].op = "pull", dirs[Stage(th[t].n)] # None,
                      ~(Raise(t) /\ UNCHANGED dirs)
               PROVE  dirs'[Stage(th[t].n)].root \in Merged
  BY DEF MergesTo
<1>2. th[t].pc = "merging" /\ Target(t) = Stage(th[t].n) /\ Stage(th[t].n) \in Name
  <2>1. th[t].pc = "merging" /\ th[t].pc \notin PrunePcs /\ Ctx(Merged)
    BY <1>1 DEF MergeEnd, At, PrunePcs, WholeCtx
  <2>. QED BY <1>1, <2>1, Serving DEF Target
<1>3. dirs[Stage(th[t].n)].root = "part" /\ \A l \in th[t].want : lay[l] = "full"
  BY <1>2 DEF WholeCtx, Pulls, Sound, StageIs
<1>4. PICK k \in Merged : Put(Stage(th[t].n), [dirs[Stage(th[t].n)] EXCEPT !.root = k])
  BY <1>1, <1>2, <1>3 DEF MergeEnd, Merged
<1>5. dirs'[Stage(th[t].n)] = [dirs[Stage(th[t].n)] EXCEPT !.root = k] /\ dirs[Stage(th[t].n)] \in Dir
  BY <1>1, <1>2, <1>4 DEF Put, WholeCtx, Ctx, DataTyped
<1>. QED BY <1>5 DEF Dir

(* Renames and deletions of a pull touch no other pull's stage. *)
LEMMA PullElsewhere ==
    ASSUME WholeCtx, NEW t \in Thread, PullStep(t), th[t].pc \notin PrunePcs
    PROVE  /\ \A m \in Num : m # th[t].n => dirs'[Stage(m)] = dirs[Stage(m)]
           /\ lay' = lay /\ tmp' = tmp
<1> DEFINE x == Stage(th[t].n)
           b == Backup(th[t].n)
<1>1. /\ x \in Name /\ b \in Name /\ Live \in Name /\ \A m \in Num : Stage(m) \in Name
      /\ th[t] \in Locals
  <2>1. Ctx(Merged)
    BY DEF WholeCtx
  <2>. QED BY <2>1, Serving, NameTypes
<1>2. \A m \in Num : m # th[t].n => Stage(m) \notin {x, b, Live}
  BY NameFacts
<1>3. dirs \in [Name -> Dir \cup {None}] /\ ThreadsTyped /\ DataTyped
  BY DEF WholeCtx, Ctx, DataTyped
<1>4. lay' = lay /\ tmp' = tmp
  BY DEF PullStep, PullBegin, PullConfig, PullSwap, PullBackup, PullPublish, PullFail, PullRestore, PullDrop,
         PullDropEnd, PullCleanup, PullCleanupEnd
<1>5. ASSUME NEW y \in {x, b}, NEW d, Put(y, d) PROVE \A m \in Num : m # th[t].n => dirs'[Stage(m)] = dirs[Stage(m)]
  BY <1>1, <1>2, <1>3, <1>5 DEF Put
<1>6. ASSUME NEW y \in {x, b, Live}, NEW z \in {x, b, Live}, Move(y, z)
      PROVE  \A m \in Num : m # th[t].n => dirs'[Stage(m)] = dirs[Stage(m)]
  BY <1>1, <1>2, <1>3, <1>6 DEF Move
<1>7. ASSUME NEW y \in {x, b}, NEW r, RmBegin(t, y, r)
      PROVE  \A m \in Num : m # th[t].n => dirs'[Stage(m)] = dirs[Stage(m)]
  BY <1>5, <1>7 DEF RmBegin
<1>8. ASSUME th[t].pc \in {"dropping", "cleaning"}, NEW y \in {x, b}, NEW r, RmEnd(t, y, r, r)
      PROVE  \A m \in Num : m # th[t].n => dirs'[Stage(m)] = dirs[Stage(m)]
  <2>1. \A z \in Name : dirs[z] # None /\ t \in dirs[z].open => z \in {x, b}
    BY <1>8 DEF WholeCtx, Ctx, TagParts, Opens, Deletes
  <2>2. \/ Put(y, None)
        \/ \E z \in {x, b}, e \in Dir : Put(z, e)
        \/ dirs' = dirs
    BY <1>1, <1>3, <1>8, <2>1, RmEndFacts
  <2>. QED BY <1>5, <2>2
<1>9. CASE PullBegin(t) \/ PullConfig(t)
  BY <1>5, <1>9 DEF PullBegin, PullConfig
<1>10. CASE PullSwap(t) \/ PullFail(t)
  BY <1>10 DEF PullSwap, PullFail
<1>11. CASE PullBackup(t) \/ PullPublish(t) \/ PullRestore(t)
  BY <1>6, <1>11 DEF PullBackup, PullPublish, PullRestore
<1>12. CASE PullDrop(t) \/ PullCleanup(t)
  BY <1>7, <1>12 DEF PullDrop, PullCleanup
<1>13. CASE PullDropEnd(t) \/ PullCleanupEnd(t)
  BY <1>8, <1>13 DEF PullDropEnd, PullCleanupEnd, At
<1>. QED BY <1>4, <1>9, <1>10, <1>11, <1>12, <1>13 DEF PullStep

(* The other steps of pull_image. *)
LEMMA PullStepWhole == ASSUME WholeCtx, NEW t \in Thread, PullStep(t) PROVE Pulls' /\ LayersIntact'
<1>1. th[t].pc \in {"pull", "config", "swap", "backup", "rename", "fail", "restore", "drop", "dropping",
                    "cleanup", "cleaning"}
  BY DEF PullStep, PullBegin, PullConfig, PullSwap, PullBackup, PullPublish, PullFail, PullRestore,
         PullDrop, PullDropEnd, PullCleanup, PullCleanupEnd, At
<1>2. th[t].pc \notin PrunePcs
  BY <1>1 DEF PrunePcs
<1>3. th[t] \in Locals /\ Stage(th[t].n) \in Name /\ t \in Workers /\ ThreadsTyped /\ DataTyped
  <2>1. Ctx(Merged)
    BY DEF WholeCtx
  <2>. QED BY <1>2, <2>1, Serving DEF Ctx
<1>4. /\ \A m \in Num : m # th[t].n => dirs'[Stage(m)] = dirs[Stage(m)]
      /\ lay' = lay /\ tmp' = tmp /\ LayersIntact'
  <2>1. lay' = lay /\ tmp' = tmp /\ \A m \in Num : m # th[t].n => dirs'[Stage(m)] = dirs[Stage(m)]
    BY <1>2, PullElsewhere
  <2>. QED BY <2>1 DEF WholeCtx, LayersIntact
<1>5. ASSUME NEW r, th' = [th EXCEPT ![t] = r], r.pc \in NoPull PROVE Pulls' /\ LayersIntact'
  <2>1. Sound(dirs', lay, r)
    BY <1>5, NothingKept
  <2>. QED BY <1>2, <1>4, <1>5, <2>1, WholeSame
<1>6. ASSUME NEW p, Goto(t, p) PROVE \E r : th' = [th EXCEPT ![t] = r] /\ r.pc = p /\ r.n = th[t].n
  <2>1. PICK r : r = [th[t] EXCEPT !.pc = p]
    OBVIOUS
  <2>2. th' = [th EXCEPT ![t] = r] /\ r.pc = p /\ r.n = th[t].n
    BY <1>3, <1>6, <2>1 DEF Goto, Locals
  <2>. QED BY <2>2
<1>7. ASSUME NEW p \in NoPull, Goto(t, p) PROVE Pulls' /\ LayersIntact'
  BY <1>5, <1>6, <1>7
<1>8. ASSUME Raise(t) PROVE Pulls' /\ LayersIntact'
  <2>1. Goto(t, "fail")
    <3>1. Ctx(Merged)
      BY DEF WholeCtx
    <3>. QED BY <1>2, <1>8, <3>1, Serving DEF Raise
  <2>. QED BY <1>7, <2>1 DEF NoPull
<1>9. CASE PullBegin(t)
  <2>1. Put(Stage(th[t].n), NewDir) /\ Goto(t, "config")
    BY <1>9 DEF PullBegin
  <2>2. PICK r : th' = [th EXCEPT ![t] = r] /\ r.pc = "config" /\ r.n = th[t].n
    BY <1>6, <2>1
  <2>3. dirs'[Stage(th[t].n)] = NewDir /\ NewDir # None /\ NewDir.root = "none"
    BY <1>3, <2>1, NewDirType DEF Put, NewDir, DataTyped
  <2>4. Sound(dirs', lay, r)
    BY <2>2, <2>3 DEF Sound, StageIs, Loaded
  <2>. QED BY <1>2, <1>4, <2>2, <2>4, WholeSame
<1>10. CASE PullConfig(t)
  <2>1. th[t].pc = "config"
    BY <1>10 DEF PullConfig, At
  <2>2. ASSUME NEW m \in Offer[t], Put(Stage(th[t].n), [dirs[Stage(th[t].n)] EXCEPT !.cfg = m]),
               th' = [th EXCEPT ![t] = [th[t] EXCEPT !.pc = "layers", !.want = m, !.todo = m]]
        PROVE  Pulls' /\ LayersIntact'
    <3>1. dirs[Stage(th[t].n)] # None /\ dirs[Stage(th[t].n)].root = "none"
      BY <2>1 DEF WholeCtx, Pulls, Sound, StageIs
    <3>2. m \in SUBSET Layers /\ dirs[Stage(th[t].n)] \in Dir
      BY <1>3, <3>1, StoreAssumption DEF DataTyped
    <3>3. PICK d : d = [dirs[Stage(th[t].n)] EXCEPT !.cfg = m]
      OBVIOUS
    <3>4. d \in Dir /\ d.root = "none"
      BY <3>1, <3>2, <3>3 DEF Dir
    <3>5. PICK r : r = [th[t] EXCEPT !.pc = "layers", !.want = m, !.todo = m]
      OBVIOUS
    <3>6. r.pc = "layers" /\ r.want = m /\ r.todo = m /\ r.n = th[t].n
      BY <1>3, <3>5 DEF Locals
    <3>7. dirs'[Stage(th[t].n)] = d
      BY <1>3, <2>2, <3>3 DEF Put, DataTyped
    <3>8. Sound(dirs', lay, r)
      BY <3>4, <3>6, <3>7, StoreAssumption DEF Sound, StageIs, Loaded
    <3>9. th' = [th EXCEPT ![t] = r]
      BY <2>2, <3>5
    <3>. QED BY <1>2, <1>4, <3>8, <3>9, WholeSame
  <2>. QED BY <1>8, <1>10, <2>2 DEF PullConfig
<1>11. CASE PullSwap(t) \/ PullBackup(t) \/ PullPublish(t) \/ PullFail(t) \/ PullRestore(t)
  <2>1. Raise(t) \/ \E p \in NoPull : Goto(t, p)
    BY <1>11 DEF PullSwap, PullBackup, PullPublish, PullFail, PullRestore, NoPull
  <2>. QED BY <1>7, <1>8, <2>1
<1>12. CASE PullDrop(t) \/ PullCleanup(t)
  <2>1. ASSUME NEW p \in {"dropping", "cleaning"}, NEW y \in Name, RmBegin(t, y, [th[t] EXCEPT !.pc = p])
        PROVE  Pulls' /\ LayersIntact'
    <3>1. PICK k : k = [th[t] EXCEPT !.pc = p]
      OBVIOUS
    <3>2. k \in Locals /\ k.pc = p
      BY <1>3, <3>1 DEF Locals, Pcs
    <3>3. RmBegin(t, y, k)
      BY <2>1, <3>1
    <3>4. \E r \in Locals : th' = [th EXCEPT ![t] = r] /\ r.pc = p
      BY <1>3, <3>2, <3>3, RmBeginFacts
    <3>. QED BY <1>5, <3>4 DEF NoPull
  <2>2. CASE Finish(t)
    BY <1>5, <2>2, IdleType DEF Finish, NoPull, PrunePcs
  <2>3. Backup(th[t].n) \in Name
    <3>1. Ctx(Merged)
      BY DEF WholeCtx
    <3>. QED BY <1>2, <3>1, Serving
  <2>4. \/ Goto(t, "cleanup")
        \/ Finish(t)
        \/ \E p \in {"dropping", "cleaning"}, y \in Name : RmBegin(t, y, [th[t] EXCEPT !.pc = p])
    BY <1>3, <1>12, <2>3 DEF PullDrop, PullCleanup
  <2>. QED BY <1>7, <2>1, <2>2, <2>4 DEF NoPull
<1>13. CASE PullDropEnd(t)
  <2>1. PICK r : r = [th[t] EXCEPT !.pc = "cleanup", !.left = {}]
    OBVIOUS
  <2>2. r.pc \in NoPull /\ RmEnd(t, Stage(th[t].n), r, r)
    BY <1>3, <1>13, <2>1 DEF PullDropEnd, Locals, NoPull
  <2>3. th' = [th EXCEPT ![t] = r]
    BY <1>3, <2>2, RmEndFacts
  <2>. QED BY <1>5, <2>2, <2>3
<1>14. CASE PullCleanupEnd(t)
  <2>1. Backup(th[t].n) \in Name
    <3>1. Ctx(Merged)
      BY DEF WholeCtx
    <3>. QED BY <1>2, <3>1, Serving
  <2>2. th' = [th EXCEPT ![t] = Idle]
    BY <1>3, <1>14, <2>1, RmEndFacts DEF PullCleanupEnd
  <2>. QED BY <1>5, <2>2, IdleType DEF NoPull, PrunePcs
<1>. QED BY <1>9, <1>10, <1>11, <1>12, <1>13, <1>14 DEF PullStep

(* The prune at startup runs alone: a layer it deletes nobody is merging. *)
LEMMA PruneStepWhole == ASSUME WholeCtx, NEW t \in Thread, PruneStep(t) PROVE Pulls' /\ LayersIntact'
<1>1. th[t].pc \in PrunePcs \ {"idle"}
  BY DEF PruneStep, PruneList, PruneStage, PruneOldLook, PruneOldDelete, PruneEnd, PruneOldRestore, PruneTmp,
         PrunePartial, PruneBuildDone, PruneReadRefs, PruneUnused, PruneUnusedEnd, At, PrunePcs
<1>2. t = Main
  <2>1. Ctx(Merged)
    BY DEF WholeCtx
  <2>2. t # Main => t \in Workers /\ th[t].op = "prune" /\ th[t] \in Locals
    BY <1>1, <2>1, Pruning
  <2>. QED BY <2>2 DEF WholeCtx, Locals
<1>3. /\ \A w \in Workers : th[w].pc = "idle"
      /\ th[t].pc \in {"prune", "names", "old", "pruning", "partial"}
  BY <1>1, <1>2 DEF WholeCtx, Ctx, BootInv, Booting
<1>4. BootInv' /\ \A w \in Workers : th'[w] = th[w]
  <2>1. ThreadsTyped /\ DataTyped /\ BootInv
    BY DEF WholeCtx, Ctx
  <2>2. \E r : th' = [th EXCEPT ![t] = r]
    BY <2>1, StepMoves DEF Step
  <2>. QED BY <1>1, <1>2, <2>1, <2>2, BootPruneStep, StoreAssumption DEF ThreadsTyped, Thread
<1>5. \A u \in Thread : th'[u].pc \in NoPull
  BY <1>3, <1>4 DEF BootInv, Booting, NoPull, PrunePcs, Thread
<1>6. Pulls'
  BY <1>5, NothingKept DEF Pulls
<1>7. ~PruneReadRefs(t) /\ ~PruneUnused(t) /\ ~PruneUnusedEnd(t)
  BY <1>3 DEF PruneReadRefs, PruneUnused, PruneUnusedEnd, At
<1>8. LayersIntact'
  <2>1. LayersIntact
    BY DEF WholeCtx
  <2>2. lay' \in [Layers -> {"none", "full"}]
    BY <1>7, <2>1 DEF PruneStep, PruneList, PruneStage, PruneOldLook, PruneOldDelete, PruneEnd, PruneOldRestore,
                      PruneTmp, PrunePartial, PruneBuildDone, LayersIntact
  <2>3. CASE PruneTmp(t)
    <3>1. tmp' = [n \in Num |-> "none"]
      BY <1>3, <2>3 DEF PruneTmp, At
    <3>. QED BY <2>2, <3>1 DEF LayersIntact
  <2>4. CASE ~PruneTmp(t)
    BY <1>7, <2>1, <2>2, <2>4 DEF PruneStep, PruneList, PruneStage, PruneOldLook, PruneOldDelete, PruneEnd,
                      PruneOldRestore, PrunePartial, PruneBuildDone, LayersIntact
  <2>. QED BY <2>3, <2>4
<1>. QED BY <1>6, <1>8

(* A new pull has done nothing yet. *)
LEMMA RequestWhole ==
    ASSUME WholeCtx, NEW t \in Workers, Request(t, "pull") PROVE Pulls' /\ LayersIntact'
<1>1. PICK r : r = [Idle EXCEPT !.op = "pull", !.n = ops + 1, !.pc = "pull"]
  OBVIOUS
<1>2. th' = [th EXCEPT ![t] = r] /\ dirs' = dirs /\ lay' = lay /\ tmp' = tmp /\ t \in Thread
  BY <1>1 DEF Request, Thread
<1>3. r.pc = "pull"
  BY <1>1 DEF Idle
<1>4. th'[t] = r /\ \A u \in Thread : u # t => th'[u] = th[u]
  BY <1>2 DEF WholeCtx, Ctx, ThreadsTyped
<1>5. Sound(dirs, lay, r)
  BY <1>3, NothingKept DEF NoPull
<1>. QED BY <1>2, <1>4, <1>5 DEF WholeCtx, Pulls, LayersIntact

(* The invariant is inductive when requests are pulls without a common layer. *)
LEMMA WholeInductive ==
    ASSUME Ops \subseteq {"pull"}
    PROVE  WholeInv /\ BootInv /\ Apart /\ ThreadsTyped /\ DataTyped /\ [Next]_vars => WholeInv'
<1> SUFFICES ASSUME WholeInv, BootInv, Apart, ThreadsTyped, DataTyped, [Next]_vars, kept' # "exempt"
             PROVE  TagParts(Merged)' /\ Pulls' /\ LayersIntact'
  BY DEF WholeInv
<1>1. kept # "exempt"
  BY Exempted
<1>2. WholeCtx
  BY <1>1, TypeStep DEF WholeInv, WholeCtx, Ctx, Merged, Settled
<1>3. TagParts(Merged)'
  <2>1. Merged \subseteq Settled /\ TagParts(Merged) /\ MergesTo(Merged)
    BY <1>2, MergesWhole DEF WholeCtx, Ctx
  <2>. QED BY <1>1, <2>1, TagInductive
<1>4. CASE \E t \in Workers, op \in Ops : Request(t, op)
  BY <1>2, <1>3, <1>4, RequestWhole
<1>5. CASE \E t \in Thread : Step(t)
  <2>1. Ctx(Merged)
    BY <1>2 DEF WholeCtx
  <2>. QED BY <1>2, <1>3, <1>5, <2>1, LayerStepWhole, ImageStepWhole, PullStepWhole, NoLoad, PruneStepWhole DEF Step
<1>6. CASE Restart
  <2>1. \A u \in Thread : th'[u].pc \in NoPull
    BY <1>6 DEF Restart, Idle, NoPull, PrunePcs
  <2>2. Pulls'
    BY <2>1, NothingKept DEF Pulls
  <2>. QED BY <1>2, <1>3, <1>6, <2>2 DEF Restart, WholeCtx, LayersIntact
<1>7. CASE UNCHANGED vars
  BY <1>2, <1>3, <1>7 DEF vars, WholeCtx, Pulls, LayersIntact
<1>. QED BY <1>4, <1>5, <1>6, <1>7 DEF Next

(* A new store has whole layers, or none, and no image. *)
LEMMA WholeInit == Init => WholeInv
<1> SUFFICES ASSUME Init PROVE TagParts(Merged) /\ Pulls /\ LayersIntact
  BY DEF WholeInv
<1>1. \A t \in Thread : th[t].pc \in NoPull
  BY IdleType DEF Init, NoPull, PrunePcs
<1>2. Pulls
  BY <1>1, NothingKept DEF Pulls
<1>3. LayersIntact
  BY DEF Init, LayersIntact
<1>. QED BY <1>2, <1>3, TagInit

(* While requests are pulls and no two at work share a layer, an image that  *)
(* _image_dir_complete accepts has the whole tree of its layers, up to the    *)
(* single files a merge skipped, whichever pull failed or was killed and     *)
(* however often the daemon was started again - until a crash met a half     *)
(* deleted backup without the tag's directory, or a rename that should put a *)
(* backup back failed (kept).  Two pulls of one missing layer break it (the  *)
(* run images_race).                                                         *)
THEOREM AcceptedIsWhole ==
    ASSUME Ops \subseteq {"pull"}
    PROVE  Spec /\ []Apart => [](kept # "exempt" => VisibleIsWhole)
<1>1. WholeInv => (kept # "exempt" => VisibleIsWhole)
  <2>1. TagParts(Merged) => (dirs[Live] # None => dirs[Live].root \in Merged)
    BY DEF TagParts, Refs, Good
  <2>. QED BY <2>1 DEF WholeInv, VisibleIsWhole, Complete, Intact, Merged
<1>2. WholeInv /\ BootInv /\ Apart /\ ThreadsTyped /\ DataTyped /\ [Next]_vars => WholeInv'
  BY WholeInductive
<1>. QED BY <1>1, <1>2, TypeInit, TypeStep, BootInit, BootStep, WholeInit, PTL DEF Spec
=============
