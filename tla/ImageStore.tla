------------------------------ MODULE ImageStore ------------------------------
(***************************************************************************)
(* The image store of pdockerd: content-addressed layers shared by all     *)
(* images, and one directory per tag.  A pull writes a staging directory   *)
(* next to the tag's and swaps it in with two renames; a load writes the   *)
(* tag's directory in place; a removal and the prunes delete directories.  *)
(* Each is a sequence of file-system calls made with no lock, and a crash  *)
(* leaves what was written.  At startup the daemon prunes residues before  *)
(* it serves requests.                                                     *)
(*                                                                         *)
(* One tag is modelled: tags meet only in the layers they share, and so do *)
(* the successive images of one tag.  A directory is its files:            *)
(* config.json and manifest.json (the layers each names), image_ref, and   *)
(* the merged rootfs.  "holed" marks a tree that may lack content although *)
(* its directory is there: a deletion or a merge that raced or was cut;    *)
(* "lossy" a merge that ran to its end and skipped files it could not copy. *)
(*                                                                         *)
(* Every rmtree is two steps: it opens and lists the directory and some    *)
(* files go; then the rest goes, wherever the directory is by then.        *)
(***************************************************************************)
EXTENDS Naturals, FiniteSets

CONSTANTS Workers,     \* request threads
          Main,        \* the thread that prunes at startup
          Ops,         \* the requests they may make: pull, load, rmi, prune
          Layers,      \* diff ids
          Cached,      \* layers in the store at the start
          Offer,       \* Offer[w]: the images worker w may be given, as sets of layers
          MaxOps,      \* bound on the requests of a behaviour
          MaxCrashes,  \* bound on the crashes of a behaviour
          None         \* no file, no directory

Num    == 1..MaxOps
Thread == Workers \cup {Main}
Live   == <<"tag", 0>>
Stage(n)  == <<"pull", n>>
Backup(n) == <<"old", n>>
Name   == {Live} \cup {Stage(n) : n \in Num} \cup {Backup(n) : n \in Num}

File == {"config", "manifest", "ref", "rootfs"}

(* A directory of the store: its files, and the threads deleting it. *)
Dir == [cfg : {None} \cup SUBSET Layers, man : SUBSET Layers, ref : BOOLEAN,
        root : {"none", "part", "whole", "lossy", "holed"}, open : SUBSET Thread]

ASSUME StoreAssumption ==
    /\ Main \notin Workers /\ Cached \subseteq Layers
    /\ Ops \subseteq {"pull", "load", "rmi", "prune"}
    /\ Offer \in [Workers -> SUBSET SUBSET Layers]
    /\ MaxOps \in Nat \ {0} /\ MaxCrashes \in Nat
    /\ None \notin Dir /\ \A s \in SUBSET Layers : s # None

VARIABLES dirs,     \* dirs[x]: the directory of name x under images/, or None
          lay,      \* lay[l]: the state of LAYERS_DIR/l
          tmp,      \* tmp[n]: the layer directory request n is extracting into
          th,       \* th[t]: where thread t is and what it holds
          ops,      \* requests made so far
          crashes,  \* crashes so far
          kept      \* history: no image yet, one was published by a pull, or
                    \* exempt (Request, PullRestore and Restart say when)

vars == <<dirs, lay, tmp, th, ops, crashes, kept>>

NewDir    == [cfg |-> None, man |-> {}, ref |-> FALSE, root |-> "none", open |-> {}]
Idle      == [pc |-> "idle", op |-> "none", n |-> 0, want |-> {}, todo |-> {}, layer |-> None,
              left |-> {}, seen |-> {}, name |-> Live, there |-> FALSE, refs |-> {}]

Init == /\ dirs = [x \in Name |-> None]
        /\ lay = [l \in Layers |-> IF l \in Cached THEN "full" ELSE "none"]
        /\ tmp = [n \in Num |-> "none"]
        /\ th = [t \in Thread |-> Idle]
        /\ ops = 0 /\ crashes = 0 /\ kept = "none"

-----------------------------------------------------------------------------
(* _layer_exists: the directory has a tree/ and a matching meta.json. *)
Exists(l) == lay[l] \in {"full", "holed"}

Files(d) == {f \in File : \/ f = "config" /\ d.cfg # None
                          \/ f = "manifest" /\ d.man # {}
                          \/ f = "ref" /\ d.ref
                          \/ f = "rootfs" /\ d.root # "none"}
Without(d, gone) == [d EXCEPT !.cfg  = IF "config" \in gone THEN None ELSE d.cfg,
                              !.man  = IF "manifest" \in gone THEN {} ELSE d.man,
                              !.ref  = d.ref /\ "ref" \notin gone,
                              !.root = IF "rootfs" \in gone THEN "none" ELSE d.root]

(* _image_dir_complete, and what it asks of the directory itself *)
Intact(d)   == d # None /\ {"config", "ref", "rootfs"} \subseteq Files(d)
Required(d) == d.man \cup d.cfg
Complete(d) == Intact(d) /\ \A l \in Required(d) : Exists(l)

At(t, pc)   == th[t].pc = pc
Goto(t, pc) == th' = [th EXCEPT ![t].pc = pc]
Finish(t)   == th' = [th EXCEPT ![t] = Idle]
Target(t)   == IF th[t].op = "pull" THEN Stage(th[t].n) ELSE Live
Put(x, d)   == dirs' = [dirs EXCEPT ![x] = d]
Move(x, y)  == dirs' = [dirs EXCEPT ![y] = dirs[x], ![x] = None]

(* An exception: a pull cleans up, the other requests just end. *)
Raise(t) == IF th[t].op = "pull" THEN Goto(t, "fail") ELSE Finish(t)

(* A merge that reads layer l while its tree goes may miss content. *)
Torn(ds, l) == [x \in Name |-> IF ds[x] # None /\ ds[x].root = "part" /\ l \in ds[x].man
                               THEN [ds[x] EXCEPT !.root = "holed"] ELSE ds[x]]

(* rmtree of a layer, in its first half: the layer still passes for one, or *)
(* not, as the deletion takes the files in any order.                       *)
Gut(l) == /\ \E s \in {"holed", "broken"} : lay' = [lay EXCEPT ![l] = s]
          /\ dirs' = Torn(dirs, l)

(* rmtree of the directory named x, whose thread goes on with locals r:     *)
(* some files go.                                                           *)
RmBegin(t, x, r) ==
    /\ dirs[x] # None
    /\ \E gone \in SUBSET Files(dirs[x]) :
         LET d == Without(dirs[x], gone) IN
         /\ Put(x, [d EXCEPT !.open = d.open \cup {t},
                             !.root = IF d.root = "none" THEN "none" ELSE "holed"])
         /\ th' = [th EXCEPT ![t] = [r EXCEPT !.left = Files(d)]]

(* The directory at y without the listed files.  Others may have written     *)
(* other files since, and a merge makes the directories it needs again.      *)
Remains(t, y) == LET d == Without(dirs[y], th[t].left) IN
    {d} \cup {[d EXCEPT !.root = "holed"] : u \in {v \in Thread : At(v, "merging") /\ Target(v) = y
                                                                 /\ "rootfs" \in th[t].left}}

(* The listed files that were left go, wherever the directory is by now;     *)
(* then the rmdir of name x, which fails if files are there or nothing is.   *)
RmEnd(t, x, done, failed) ==
    \/ \E y \in Name :
         /\ dirs[y] # None /\ t \in dirs[y].open
         /\ \E d \in Remains(t, y) :
              \/ /\ y = x /\ Files(d) = {}
                 /\ Put(x, None)
                 /\ th' = [th EXCEPT ![t] = done]
              \/ /\ y # x \/ Files(d) # {}
                 /\ Put(y, [d EXCEPT !.open = d.open \ {t}])
                 /\ th' = [th EXCEPT ![t] = failed]
    \/ /\ \A y \in Name : dirs[y] # None => t \notin dirs[y].open
       /\ th' = [th EXCEPT ![t] = failed]
       /\ UNCHANGED dirs

(* A load or a removal ever, or a prune request at work together with a     *)
(* pull: such a prune deletes the stage of a pull in progress, even while   *)
(* the pull renames it to the tag.                                          *)
Request(t, op) ==
    /\ At(t, "idle") /\ t \in Workers /\ op \in Ops
    /\ At(Main, "idle") /\ ops < MaxOps
    /\ ops' = ops + 1
    /\ th' = [th EXCEPT ![t] = [Idle EXCEPT !.op = op, !.n = ops + 1, !.pc = op]]
    /\ kept' = IF \/ op = "pull" /\ \A u \in Workers : th[u].op # "prune"
                  \/ op = "prune" /\ \A u \in Workers : th[u].op # "pull"
               THEN kept ELSE "exempt"
    /\ UNCHANGED <<dirs, lay, tmp, crashes>>

-----------------------------------------------------------------------------
(* pull_image *)

PullBegin(t) ==
    /\ At(t, "pull")
    /\ Put(Stage(th[t].n), NewDir)
    /\ Goto(t, "config")
    /\ UNCHANGED <<lay, tmp, ops, crashes, kept>>

(* Regression: the digest of the config is counted among the layers. *)
PullConfigCounted(t) ==
    /\ At(t, "config")
    /\ \E m \in Offer[t] :
         th' = [th EXCEPT ![t] = [th[t] EXCEPT !.pc = "layers", !.want = m, !.todo = m \cup {"config"}]]
    /\ UNCHANGED <<dirs, lay, tmp, ops, crashes, kept>>

(* Fetch manifest and config; either may fail, and so may the write. *)
PullConfig(t) ==
    /\ At(t, "config")
    /\ \/ \E m \in Offer[t] :
            /\ dirs[Stage(th[t].n)] # None
            /\ Put(Stage(th[t].n), [dirs[Stage(th[t].n)] EXCEPT !.cfg = m])
            /\ th' = [th EXCEPT ![t] = [th[t] EXCEPT !.pc = "layers", !.want = m, !.todo = m]]
       \/ Raise(t) /\ UNCHANGED dirs
    /\ UNCHANGED <<lay, tmp, ops, crashes, kept>>

(* The next layer: cached, or fetched and then extracted.  The fetch may fail. *)
LayerNext(t) ==
    /\ At(t, "layers")
    /\ \/ /\ th[t].todo = {}
          /\ Goto(t, IF th[t].op = "pull" THEN "manifest" ELSE "clear")
       \/ \E l \in th[t].todo :
            IF Exists(l) THEN th' = [th EXCEPT ![t] = [th[t] EXCEPT !.todo = th[t].todo \ {l}]]
            ELSE \/ th' = [th EXCEPT ![t] = [th[t] EXCEPT !.pc = "extract", !.layer = l]]
                 \/ Raise(t)
    /\ UNCHANGED <<dirs, lay, tmp, ops, crashes, kept>>

(* Regression: the layer is unpacked at its final path. *)
ExtractInPlace(t) ==
    /\ At(t, "clear layer")
    /\ lay' = [lay EXCEPT ![th[t].layer] = "holed"]
    /\ Goto(t, "unpack")
    /\ UNCHANGED <<dirs, tmp, ops, crashes, kept>>

(* _extract_layer_tar *)
ExtractCheck(t) ==
    /\ At(t, "extract")
    /\ IF Exists(th[t].layer)
       THEN th' = [th EXCEPT ![t] = [th[t] EXCEPT !.pc = "layers", !.todo = th[t].todo \ {th[t].layer}]]
       ELSE Goto(t, "clear layer")
    /\ UNCHANGED <<dirs, lay, tmp, ops, crashes, kept>>

(* What is at the layer's path is taken for a residue and deleted: first    *)
(* some of its files, then the rest.                                        *)
ExtractClear(t) ==
    /\ At(t, "clear layer")
    /\ lay[th[t].layer] # "none"
    /\ Gut(th[t].layer)
    /\ Goto(t, "unpack")
    /\ UNCHANGED <<tmp, ops, crashes, kept>>

ExtractStart(t) ==
    /\ \/ At(t, "unpack")
       \/ At(t, "clear layer") /\ lay[th[t].layer] = "none"
    /\ lay' = IF At(t, "unpack") THEN [lay EXCEPT ![th[t].layer] = "none"] ELSE lay
    /\ tmp' = [tmp EXCEPT ![th[t].n] = "full"]
    /\ Goto(t, "publish")
    /\ UNCHANGED <<dirs, ops, crashes, kept>>

(* meta.json and the rename: a directory that is not empty cannot be replaced. *)
ExtractPublish(t) ==
    /\ At(t, "publish")
    /\ LET l == th[t].layer
           n == th[t].n
       IN \/ /\ tmp[n] # "none" /\ lay[l] = "none"
             /\ lay' = [lay EXCEPT ![l] = tmp[n]]
             /\ th' = [th EXCEPT ![t] = [th[t] EXCEPT !.pc = "layers", !.todo = th[t].todo \ {l}]]
          \/ /\ Raise(t)
             /\ UNCHANGED lay
    /\ tmp' = [tmp EXCEPT ![th[t].n] = "none"]
    /\ UNCHANGED <<dirs, ops, crashes, kept>>

(* _save_image_manifest makes the directory again when it is gone. *)
SaveManifest(t) ==
    /\ At(t, "manifest")
    /\ LET x == Target(t)
           d == IF dirs[x] = None THEN NewDir ELSE dirs[x]
       IN Put(x, [d EXCEPT !.man = th[t].want, !.cfg = th[t].want])
    /\ Goto(t, "merge")
    /\ UNCHANGED <<lay, tmp, ops, crashes, kept>>

(* merge_layers_into: makes rootfs/, then goes through the layers.  An error *)
(* on a single file is ignored; a layer without a tree raises.               *)
MergeBegin(t) ==
    /\ At(t, "merge")
    /\ LET x == Target(t)
           d == IF dirs[x] = None THEN NewDir ELSE dirs[x]
       IN Put(x, [d EXCEPT !.root = IF d.root = "none" /\ d.man = th[t].want THEN "part" ELSE "holed"])
    /\ Goto(t, "merging")
    /\ UNCHANGED <<lay, tmp, ops, crashes, kept>>

MergeEnd(t) ==
    /\ At(t, "merging")
    /\ LET x == Target(t)
           whole == dirs[x] # None /\ dirs[x].root = "part" /\ \A l \in th[t].want : lay[l] = "full"
       IN \/ /\ \/ \A l \in th[t].want : lay[l] # "none"
                \/ dirs[x] # None /\ dirs[x].root = "holed"
             /\ \/ /\ dirs[x] # None
                   /\ \E r \in IF whole THEN {"whole", "lossy"} ELSE {"holed"} :
                        Put(x, [dirs[x] EXCEPT !.root = r])
                \/ dirs[x] = None /\ dirs' \in {dirs, [dirs EXCEPT ![x] = [NewDir EXCEPT !.root = "holed"]]}
             /\ Goto(t, "ref")
          \/ /\ \E l \in th[t].want : lay[l] \in {"none", "broken"}
             /\ Raise(t)
             /\ UNCHANGED dirs
    /\ UNCHANGED <<lay, tmp, ops, crashes, kept>>

(* image_ref: for a load, this is what makes the image visible. *)
WriteRef(t) ==
    /\ At(t, "ref")
    /\ LET x == Target(t) IN
       \/ /\ dirs[x] # None
          /\ Put(x, [dirs[x] EXCEPT !.ref = TRUE])
          /\ IF th[t].op = "pull" THEN Goto(t, "swap") ELSE Finish(t)
       \/ /\ dirs[x] = None
          /\ Raise(t)
          /\ UNCHANGED dirs
    /\ UNCHANGED <<lay, tmp, ops, crashes, kept>>

PullSwap(t) ==
    /\ At(t, "swap")
    /\ Goto(t, IF dirs[Live] # None THEN "backup" ELSE "rename")
    /\ UNCHANGED <<dirs, lay, tmp, ops, crashes, kept>>

(* Any of the three renames may fail, and does so when its source is gone *)
(* or another directory has the name it moves to.                         *)
PullBackup(t) ==
    /\ At(t, "backup")
    /\ \/ dirs[Live] # None /\ Move(Live, Backup(th[t].n)) /\ Goto(t, "rename")
       \/ Raise(t) /\ UNCHANGED dirs
    /\ UNCHANGED <<lay, tmp, ops, crashes, kept>>

PullPublish(t) ==
    /\ At(t, "rename")
    /\ \/ /\ dirs[Stage(th[t].n)] # None /\ dirs[Live] = None
          /\ Move(Stage(th[t].n), Live) /\ Goto(t, "cleanup")
          /\ kept' = IF kept = "none" THEN "published" ELSE kept
       \/ Raise(t) /\ UNCHANGED <<dirs, kept>>
    /\ UNCHANGED <<lay, tmp, ops, crashes>>

(* Regression: the error path only cleans up. *)
PullFailNoRestore(t) ==
    /\ At(t, "fail")
    /\ Goto(t, "drop")
    /\ UNCHANGED <<dirs, lay, tmp, ops, crashes, kept>>

(* The except clause: put the backup back if the tag has no directory, then  *)
(* delete the stage.  A rename that fails raises past that; if nothing had   *)
(* the tag's name, the finally clause deletes the only directory: exempt.    *)
PullFail(t) ==
    /\ At(t, "fail")
    /\ Goto(t, IF dirs[Backup(th[t].n)] # None /\ dirs[Live] = None THEN "restore" ELSE "drop")
    /\ UNCHANGED <<dirs, lay, tmp, ops, crashes, kept>>

PullRestore(t) ==
    /\ At(t, "restore")
    /\ \/ /\ dirs[Backup(th[t].n)] # None /\ dirs[Live] = None
          /\ Move(Backup(th[t].n), Live) /\ Goto(t, "drop") /\ UNCHANGED kept
       \/ /\ Goto(t, "cleanup") /\ UNCHANGED dirs
          /\ kept' = IF dirs[Live] = None /\ dirs[Backup(th[t].n)] # None THEN "exempt" ELSE kept
    /\ UNCHANGED <<lay, tmp, ops, crashes>>

PullDrop(t) ==
    /\ At(t, "drop")
    /\ \/ RmBegin(t, Stage(th[t].n), [th[t] EXCEPT !.pc = "dropping"])
       \/ dirs[Stage(th[t].n)] = None /\ Goto(t, "cleanup") /\ UNCHANGED dirs
    /\ UNCHANGED <<lay, tmp, ops, crashes, kept>>

PullDropEnd(t) ==
    /\ At(t, "dropping")
    /\ LET r == [th[t] EXCEPT !.pc = "cleanup", !.left = {}] IN RmEnd(t, Stage(th[t].n), r, r)
    /\ UNCHANGED <<lay, tmp, ops, crashes, kept>>

(* The finally clause *)
PullCleanup(t) ==
    /\ At(t, "cleanup")
    /\ \/ RmBegin(t, Backup(th[t].n), [th[t] EXCEPT !.pc = "cleaning"])
       \/ dirs[Backup(th[t].n)] = None /\ Finish(t) /\ UNCHANGED dirs
    /\ UNCHANGED <<lay, tmp, ops, crashes, kept>>

PullCleanupEnd(t) ==
    /\ At(t, "cleaning")
    /\ RmEnd(t, Backup(th[t].n), Idle, Idle)
    /\ UNCHANGED <<lay, tmp, ops, crashes, kept>>

-----------------------------------------------------------------------------
(* load_images and remove_image: the tag's directory is deleted in place *)

ClearBegin(t) ==
    /\ th[t].pc \in {"clear", "rmi"}
    /\ \/ RmBegin(t, Live, [th[t] EXCEPT !.pc = "unlink"])
       \/ /\ dirs[Live] = None
          /\ IF th[t].op = "load" THEN Goto(t, "make") ELSE Finish(t)
          /\ UNCHANGED dirs
    /\ UNCHANGED <<lay, tmp, ops, crashes, kept>>

(* Here an error of the rmtree raises. *)
ClearEnd(t) ==
    /\ At(t, "unlink")
    /\ RmEnd(t, Live, IF th[t].op = "load" THEN [th[t] EXCEPT !.pc = "make", !.left = {}] ELSE Idle, Idle)
    /\ UNCHANGED <<lay, tmp, ops, crashes, kept>>

LoadBegin(t) ==
    /\ At(t, "load")
    /\ \/ \E m \in Offer[t] :
            th' = [th EXCEPT ![t] = [th[t] EXCEPT !.pc = "layers", !.want = m, !.todo = m]]
       \/ Finish(t)
    /\ UNCHANGED <<dirs, lay, tmp, ops, crashes, kept>>

LoadMake(t) ==
    /\ At(t, "make")
    /\ IF dirs[Live] = None
       THEN Put(Live, [NewDir EXCEPT !.cfg = th[t].want]) /\ Goto(t, "manifest")
       ELSE Finish(t) /\ UNCHANGED dirs
    /\ UNCHANGED <<lay, tmp, ops, crashes, kept>>

-----------------------------------------------------------------------------
(* prune_build_artifacts, at startup and by the prune requests *)

Residue == {x \in Name \ {Live} : dirs[x] # None}

PruneList(t) ==
    /\ At(t, "prune")
    /\ th' = [th EXCEPT ![t] = [th[t] EXCEPT !.pc = "names", !.seen = Residue]]
    /\ UNCHANGED <<dirs, lay, tmp, ops, crashes, kept>>

PruneStage(t) ==
    /\ At(t, "names")
    /\ \E n \in Num :
         /\ Stage(n) \in th[t].seen
         /\ LET r == [th[t] EXCEPT !.seen = th[t].seen \ {Stage(n)}] IN
            \/ RmBegin(t, Stage(n), [r EXCEPT !.pc = "pruning", !.name = Stage(n)])
            \/ dirs[Stage(n)] = None /\ th' = [th EXCEPT ![t] = r] /\ UNCHANGED dirs
    /\ UNCHANGED <<lay, tmp, ops, crashes, kept>>

(* Regression: backups are left to the pull that made them. *)
PruneOldSkips(t) ==
    /\ At(t, "names")
    /\ \E n \in Num :
         /\ Backup(n) \in th[t].seen
         /\ th' = [th EXCEPT ![t] = [th[t] EXCEPT !.seen = th[t].seen \ {Backup(n)}]]
    /\ UNCHANGED <<dirs, lay, tmp, ops, crashes, kept>>

(* A backup is put back when the tag has no directory, else deleted: a look, *)
(* then the rename or the deletion.                                          *)
PruneOldLook(t) ==
    /\ At(t, "names")
    /\ \E n \in Num :
         /\ Backup(n) \in th[t].seen
         /\ th' = [th EXCEPT ![t] = [th[t] EXCEPT !.pc = "old", !.seen = th[t].seen \ {Backup(n)},
                                       !.name = Backup(n), !.there = dirs[Live] # None]]
    /\ UNCHANGED <<dirs, lay, tmp, ops, crashes, kept>>

PruneOldDelete(t) ==
    /\ At(t, "old") /\ th[t].there
    /\ \/ RmBegin(t, th[t].name, [th[t] EXCEPT !.pc = "pruning", !.there = FALSE])
       \/ /\ dirs[th[t].name] = None
          /\ th' = [th EXCEPT ![t] = [th[t] EXCEPT !.pc = "names", !.name = Live, !.there = FALSE]]
          /\ UNCHANGED dirs
    /\ UNCHANGED <<lay, tmp, ops, crashes, kept>>

PruneEnd(t) ==
    /\ At(t, "pruning")
    /\ LET r == [th[t] EXCEPT !.pc = "names", !.name = Live, !.left = {}] IN RmEnd(t, th[t].name, r, r)
    /\ UNCHANGED <<lay, tmp, ops, crashes, kept>>

(* The rename fails, and is logged, if the tag has a directory by now. *)
PruneOldRestore(t) ==
    /\ At(t, "old") /\ ~th[t].there
    /\ IF dirs[Live] = None THEN Move(th[t].name, Live) ELSE UNCHANGED dirs
    /\ th' = [th EXCEPT ![t] = [th[t] EXCEPT !.pc = "names", !.name = Live]]
    /\ UNCHANGED <<lay, tmp, ops, crashes, kept>>

(* Regression: only the layers are looked at for residues of an extraction. *)
PruneTmpKeeps(t) ==
    /\ At(t, "names") /\ th[t].seen = {}
    /\ th' = [th EXCEPT ![t] = [th[t] EXCEPT !.pc = "partial", !.todo = {l \in Layers : lay[l] = "broken"}]]
    /\ UNCHANGED <<dirs, lay, tmp, ops, crashes, kept>>

(* Extractions in progress lose files: tar makes its directories again. *)
PruneTmp(t) ==
    /\ At(t, "names") /\ th[t].seen = {}
    /\ \E torn \in SUBSET {n \in Num : tmp[n] # "none" /\ \E w \in Workers : At(w, "publish") /\ th[w].n = n} :
         tmp' = [n \in Num |-> IF n \in torn THEN "holed" ELSE "none"]
    /\ th' = [th EXCEPT ![t] = [th[t] EXCEPT !.pc = "partial", !.todo = {l \in Layers : lay[l] = "broken"}]]
    /\ UNCHANGED <<dirs, lay, ops, crashes, kept>>

PrunePartial(t) ==
    /\ At(t, "partial")
    /\ \E l \in th[t].todo :
         /\ lay' = [lay EXCEPT ![l] = "none"]
         /\ dirs' = Torn(dirs, l)
         /\ th' = [th EXCEPT ![t] = [th[t] EXCEPT !.todo = th[t].todo \ {l}]]
    /\ UNCHANGED <<tmp, ops, crashes, kept>>

(* Startup ends here; a prune request goes on with the layers. *)
PruneBuildDone(t) ==
    /\ At(t, "partial") /\ th[t].todo = {}
    /\ IF t = Main THEN Finish(t)
       ELSE th' = [th EXCEPT ![t] = [th[t] EXCEPT !.pc = "refs", !.seen = {x \in Name : dirs[x] # None}]]
    /\ UNCHANGED <<dirs, lay, tmp, ops, crashes, kept>>

(* referenced_layer_ids: the manifests, read one by one. *)
PruneReadRefs(t) ==
    /\ At(t, "refs")
    /\ \/ \E x \in th[t].seen :
            th' = [th EXCEPT ![t] = [th[t] EXCEPT !.seen = th[t].seen \ {x},
                      !.refs = th[t].refs \cup (IF dirs[x] = None THEN {} ELSE dirs[x].man)]]
       \/ /\ th[t].seen = {}
          /\ th' = [th EXCEPT ![t] = [th[t] EXCEPT !.pc = "unused", !.refs = {},
                      !.todo = {l \in Layers : lay[l] # "none"} \ th[t].refs]]
    /\ UNCHANGED <<dirs, lay, tmp, ops, crashes, kept>>

(* prune_unreferenced_layers: a layer of less than a minute is spared. *)
PruneUnused(t) ==
    /\ At(t, "unused")
    /\ \/ \E l \in th[t].todo :
            \/ /\ lay[l] # "none" /\ Gut(l)
               /\ th' = [th EXCEPT ![t] = [th[t] EXCEPT !.pc = "unused layer", !.layer = l]]
            \/ /\ th' = [th EXCEPT ![t] = [th[t] EXCEPT !.todo = th[t].todo \ {l}]]
               /\ UNCHANGED <<dirs, lay>>
       \/ /\ th[t].todo = {} /\ Finish(t)
          /\ UNCHANGED <<dirs, lay>>
    /\ UNCHANGED <<tmp, ops, crashes, kept>>

PruneUnusedEnd(t) ==
    /\ At(t, "unused layer")
    /\ lay' = [lay EXCEPT ![th[t].layer] = "none"]
    /\ th' = [th EXCEPT ![t] = [th[t] EXCEPT !.pc = "unused", !.layer = None,
                                  !.todo = th[t].todo \ {th[t].layer}]]
    /\ UNCHANGED <<dirs, tmp, ops, crashes, kept>>

-----------------------------------------------------------------------------
(* The daemon is killed and started again; main prunes before it serves.     *)
(* Exempt is a crash while the tag has no directory and a backup is half      *)
(* deleted, which takes two pulls: the prune may put that backup back.        *)
Ruined == dirs[Live] = None /\ \E n \in Num : dirs[Backup(n)] # None /\ dirs[Backup(n)].open # {}

Restart ==
    /\ crashes < MaxCrashes
    /\ crashes' = crashes + 1
    /\ th' = [t \in Thread |-> IF t = Main THEN [Idle EXCEPT !.pc = "prune"] ELSE Idle]
    /\ dirs' = [x \in Name |-> IF dirs[x] = None THEN None ELSE [dirs[x] EXCEPT !.open = {}]]
    /\ kept' = IF Ruined THEN "exempt" ELSE kept
    /\ UNCHANGED <<lay, tmp, ops>>

LayerStep(t) == \/ LayerNext(t) \/ ExtractCheck(t) \/ ExtractClear(t) \/ ExtractStart(t)
                \/ ExtractPublish(t)
ImageStep(t) == SaveManifest(t) \/ MergeBegin(t) \/ MergeEnd(t) \/ WriteRef(t)
PullStep(t)  == \/ PullBegin(t) \/ PullConfig(t) \/ PullSwap(t) \/ PullBackup(t) \/ PullPublish(t)
                \/ PullFail(t) \/ PullRestore(t) \/ PullDrop(t) \/ PullDropEnd(t) \/ PullCleanup(t)
                \/ PullCleanupEnd(t)
LoadStep(t)  == ClearBegin(t) \/ ClearEnd(t) \/ LoadBegin(t) \/ LoadMake(t)
PruneStep(t) == \/ PruneList(t) \/ PruneStage(t) \/ PruneOldLook(t) \/ PruneOldDelete(t)
                \/ PruneEnd(t) \/ PruneOldRestore(t) \/ PruneTmp(t) \/ PrunePartial(t) \/ PruneBuildDone(t)
                \/ PruneReadRefs(t) \/ PruneUnused(t) \/ PruneUnusedEnd(t)

Step(t) == LayerStep(t) \/ ImageStep(t) \/ PullStep(t) \/ LoadStep(t) \/ PruneStep(t)

Next == \/ \E t \in Workers, op \in Ops : Request(t, op)
        \/ \E t \in Thread : Step(t)
        \/ Restart

Spec == Init /\ [][Next]_vars

-----------------------------------------------------------------------------
Tree == {"none", "full", "holed", "broken"}
History == {"none", "published", "exempt"}
Pcs == {"idle", "pull", "load", "rmi", "prune", "config", "layers", "extract", "clear layer",
        "unpack", "publish", "manifest", "merge", "merging", "ref", "swap", "backup", "rename",
        "fail", "restore", "drop", "dropping", "cleanup", "cleaning", "clear", "unlink", "make",
        "names", "old", "pruning", "partial", "refs", "unused", "unused layer"}

Locals == [pc : Pcs, op : Ops \cup {"none"}, n : 0..MaxOps, want : SUBSET Layers,
           todo : SUBSET Layers, layer : Layers \cup {None}, left : SUBSET File,
           seen : SUBSET Name, name : Name, there : BOOLEAN, refs : SUBSET Layers]

(* Types of the directories and threads; a thread between requests holds    *)
(* nothing of the last one.                                                 *)
TypeOK ==
    /\ dirs \in [Name -> Dir \cup {None}]
    /\ lay \in [Layers -> Tree]
    /\ tmp \in [Num -> {"none", "full", "holed"}]
    /\ th \in [Thread -> Locals]
    /\ \A t \in Thread : At(t, "idle") => th[t] = Idle
    /\ ops \in 0..MaxOps /\ crashes \in 0..MaxCrashes /\ kept \in History

(* Pulls and prunes alone, no prune request at work together with a pull:   *)
(* a published tag is never lost to them or to crashes.  Between the two     *)
(* renames of a pull, in its error path and in the prune that takes its      *)
(* backup, an intact directory is under the tag's name or a backup's, unless *)
(* a crash met a half deleted backup while the tag had no directory, or the  *)
(* rename that should put a backup back failed.                              *)
TagNotLost == kept = "published" => \E x \in {Live} \cup {Backup(n) : n \in Num} : Intact(dirs[x])

(* ... and once nobody works on the store it is under its own name. *)
TagInPlace == kept = "published" /\ (\A t \in Thread : At(t, "idle")) => Intact(dirs[Live])

(* When a restarted daemon begins to serve, no stage, no backup, no layer   *)
(* under extraction and no layer that does not pass for one is left.        *)
BootLeavesNoResidue ==
    [][~At(Main, "idle") /\ At(Main, "idle")' =>
         Residue' = {} /\ \A n \in Num : tmp'[n] = "none" /\ \A l \in Layers : lay'[l] # "broken"]_vars

(* An image that inspect, list and run accept has the whole tree of its      *)
(* layers, up to single files a merge could not copy, whatever pull was cut  *)
(* short (_image_dir_complete).                                              *)
VisibleIsWhole == Complete(dirs[Live]) => dirs[Live].root \in {"whole", "lossy"}
==============================================================================
