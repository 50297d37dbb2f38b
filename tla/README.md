# Skydnir: a verification project

Skydnir runs containers on an Android device without root. A Python daemon
answers a subset of the Docker Engine API and keeps images, layers and
containers as plain files; a C program, the direct executor, runs a container's
processes under ptrace; a preloaded library, libcow, gives every container a
private view of an image tree that is cloned with hard links; and a Vulkan driver
inside the container records the application's GPU work and sends it over a
socket to an executor in the app, which has the real driver. This directory holds
TLA+ models of the parts whose correctness depends on interleaving, ordering,
crashes, stale copies and arithmetic at limits, the TLC runs that check them on
small instances, and TLAPS proofs of main properties for all instances.

Short names used below, with line numbers after a colon:

| Name | File |
|---|---|
| `pdockerd` | `src/docker-proot-setup/bin/pdockerd` |
| `direct` | `src/app/src/main/cpp/pdocker_direct_exec.c` |
| `libcow` | `src/docker-proot-setup/src/overlay/libcow.c` |
| `icd` | `src/docker-proot-setup/src/gpu/pdocker_vulkan_icd.c` |
| `exec` | `src/app/src/main/cpp/pdocker_gpu_executor.c` |
| `abi` | `src/docker-proot-setup/src/gpu/pdocker_gpu_abi.h` (the app has the same copy) |

Contents: [1. The system](#1-the-system), [2. Plan](#2-plan),
[3. The modules](#3-the-modules), [4. The runs](#4-the-runs),
[5. Fairness](#5-fairness), [6. Proofs](#6-proofs),
[7. What the models say about the code](#7-what-the-models-say-about-the-code),
[8. Limits](#8-limits).

## 1. The system

### 1.1 Shape

**The daemon** is a threading HTTP server (`pdockerd`:10252-10323): every request
runs in a thread of its own, and requests start further threads (a watcher and a
process tracker per started container, a monitor per health check). State is kept
in files under `PDOCKER_HOME` (`containers/<id>/state.json` and the upper tree,
`images/<tag>/`, `layers/<diff id>/`, `networks/`, `volumes/`, `events.jsonl`, the
build cache), in the daemon's memory (`running_containers`, `exec_sessions`,
`health_monitors`, `active_operations`), and in the process table: launchers are
children of the daemon, their workloads are grandchildren that may outlive them.
There are three locks only (`events_cond`, `active_operations_lock`,
`health_lock`), none of which covers files other than the event log. Everything
else is load, look, save. Android kills the daemon at will and its service starts
it again; `main` prunes what an interrupted request left and then serves.

**The direct executor** is started by the daemon for every container program. It
is one thread that waits for any of up to `MAX_TRACEES` processes and handles
their stops: it rewrites paths to the container's root or to binds, emulates
identities and hard links, validates paths (with a cache that a change of the
file system must close), keeps working directories, and pages large anonymous
mappings. **libcow** is loaded into the processes themselves, so that two of them
race in the file system without a common memory.

**The GPU bridge** is a Vulkan ICD in the application's process and an executor in the
app. The ICD executes nothing while an application records: `vkCmd*` calls are
appended to two lists of the command buffer, `operations` (copies and dispatches the
ICD executes itself at submission) and graphics records, which become one binary
frame with tables that point at each other. The executor checks the frame, walks its
commands once and replays them on the device. Objects that outlive a call (fences,
semaphores, events) have a copy on both sides.

### 1.2 Components, their state, operations and hazards

| Component (lines) | State | Operations | What must hold | Hard part | Here |
|---|---|---|---|---|---|
| Event stream (`pdockerd`:1108-1114, 5087-5231, 9210-9262) | `events.jsonl`, `events_cond`, index per stream | `record_event`, `GET /events` | a stream is its window of the log, in order, once, and does not stall | reading under the lock, writing outside it; torn lines; missed wake-ups | modelled |
| Container lifecycle (`pdockerd`:5488-6866, 8504-8545, 8948-8962) | `state.json`, `running_containers`, process table | start, stop, kill, rm, prune, list, inspect, watcher, tracker | no child is forgotten, a stop leaves nobody, the stored state converges to the truth | whole-file saves without a lock, reused pids, zombies, restarts | mostly |
| Image and layer store (`pdockerd`:2202-2620, 4502-5085, 6897-6934, 7188-7235) | `images/`, `layers/`, their temporary directories | pull, load, rmi, prunes, startup prune | a published tag is never lost, what is visible is whole, residues go at boot | publication in many steps, crash between any two, prunes racing pulls | mostly |
| libcow (`libcow`) | hard links, descriptor paths per process | every call that changes a file | the image is never written, no name shows half a copy, the program's own writes are visible | two processes breaking one link; the descriptor table | modelled |
| Process tracing (`direct`:1677-2543, 4552-5183) | table of tracees, path caches, mutations in flight | waitpid loop, entry and exit of calls, fork, end | the caches are true, nobody stays stopped, the executor returns | stops in any order, kills under the tracer's hands, the full table | mostly |
| Memory pager and telemetry (`direct`:359-632, 1129-1358, 2567-2889, 4878-4900) | region table, backing files, ring file | mmap, fault, evict, load, end | a program reads what it wrote | order of steps, failures, limits | mostly |
| Paths and programs (`direct`:1571-1810, 3119-4448, 5187-5336) | binds, tracked directory, normalized links | rewrite, validate, chdir, link, exec | a path leads where it leads in the container | nested binds, links, `..` | mostly |
| GPU recording and frames (`icd`:672-1358, 3170-6329, 12300-16930, `exec`:17162-25702, `abi`) | command buffers, frames, image layouts | `vkCmd*`, the frame's builder, preflight, replay | the device does what the calls mean, in order | live state read late, indices rebased, versions of the frame, layouts | mostly |
| GPU objects and submission (`icd`:952-1109, 2044-2664, 15130-17217, `exec`:25706-27619) | local copies and registries of fences, semaphores, events | create, destroy, wait, signal, submit, restart | a fence or value is not seen before its work; no wait is answered early | two copies of one object, steps of a submission, reused ids | mostly |
| Operations and build exclusion (`pdockerd`:1117-1216, 1419-1441, 8189-8206, 9360-9447) | `active_operations` | start, exclusive start, update, finish, idle prune | one build per tag; a key is freed in the end | silent builds pruned while they run, early returns that keep the key | planned |
| Build pipeline and cache (`pdockerd`:2257-2305, 2733-3108, 9450-10250) | build tree, layers, cache entries | one action per instruction, snapshot, look-up and store, publish | a cached layer is what the instruction would make; failed builds leave no image | cache keys, whiteouts, layers deleted by a prune | planned |
| Health monitor (`pdockerd`:5641-5793) | `health_monitors`, `State.Health` | start, check, set, end | a running container with a check is checked; status follows the streak | end of a monitor racing a new start; stale saves | planned |
| Exec sessions (`pdockerd`:8792-8930) | `exec_sessions` | create, start, resize, inspect | at most one process per session, `Running` ends | two starts, failed spawn | planned |
| Registry: create, rename, find (`pdockerd`:5233-5484, 5541-5572, 8442-8459) | `state.json` of all containers | create with auto-pull, rename, look-up by prefix | names are unique | check then save without a lock | planned |
| Networks, ports, volumes (`pdockerd`:3110-4380, 8990-9194) | `networks/`, `volumes/`, parts of `state.json` | create, connect, prune, delete, port plan | nothing in use is deleted, claims do not overlap | counts taken before a deletion | planned |
| Archive and copy-on-write views (`pdockerd`:1836-2190, 2530-2571) | lower and upper trees | get and put archive, whiteouts | the merged view is what a union mount would show | whiteouts of directories, order of layers | planned as operators |
| Attach, wait, logs (`pdockerd`:7625-7827, 8547-8640) | log files, streams | tail, multiplex, hijack | output complete and in order, wait ends | polling beside the exit of the process | planned with exec |
| Save, tag, commit, push (`pdockerd`:4753-4934, 8700-8790) | one image directory or a tar | write | as the image store | as the image store | planned |
| Vulkan compute dispatch and older frames (`icd`, `exec`) | driver objects | V4 and V5 commands, SPIR-V rewriting | | tied to a driver | its steps in a submission only |
| Storage accounting, diagnostics, environment (`pdockerd`:237-960, 1218-1417, 7004-7186) | none | read-only reports | | | no |
| Daemon bridge and service (`pdockerd_bridge.py`, `PdockerdService.kt`) | threads of the app | start, watchdog, stop | one daemon per socket | restarts | candidate |
| Documents mediator (`SafDocumentsMediator.kt`) | mirror directory, sidecar | sync both ways | no edit lost | two writers | candidate |
| OpenCL ICD, shim, media executor, app, clients, CLI | driver or views | calls, views | | | no; the list poll is a poller of the lifecycle |

Components meet in these ways: threads of one daemon share the files and the
dictionaries; the daemon and the processes it started share the process table; a
layer is shared by all images and builds; an image tree is shared by its
containers' clones through hard links; the app polls the list routes, which are not
read-only (a listing reconciles and saves `state.json`); and all GPU clients share
the one executor and its registries.

`PROJECT.json` lists the same components, and under `hazards` the places in the
modelled parts where each of these bites, with the properties that cover them.
Section 7.4 lists hazards of the planned parts.

## 2. Plan

Order: the components whose failure the user sees first and tests reach least.

1. `EventStream` with the abstract `EventFeed` -- done, with proofs.
2. `ContainerLifecycle` -- done, with proofs.
3. `ImageStore` -- done, with proofs.
4. `CowOverlay` -- done, with proofs.
5. `DirectTracer`, `DirectPager`, `DirectPaths` -- done, with proofs of the first two.
6. `GpuSync` -- done. `GpuCommands`, `GpuAbi`, `GpuFrame`, `GpuExecutor`, `GpuReplay` -- done, with proofs
   about the first two.
7. `BuildGuard`: active operations and build exclusion. One action per function, time
   in steps of the idle limit. Safety: a key has one running owner while its owner
   reports; the docstring of `start_exclusive_operation` (`pdockerd`:1133-1139) as the claim
   to hold against silent builds. Liveness: a refused build can start in the end.
8. `HealthMonitor`: composed with the state file of `ContainerLifecycle`.
9. `ExecSessions`, then attach and wait on the same process table.
10. `Registry`: create, rename, networks and volumes with their reference counts,
    against an abstract registry with unique names and no dangling references.
11. `BuildPipeline`: instructions as steps over `ImageStore`'s layers, with the cache;
    abstract specification: an image is the fold of its instructions.
12. `Whiteouts` and `PortPlan`: pure operators against reference definitions (union
    of trees; disjoint claims).
13. `Dispatch`: the compute frames as `GpuFrame` treats the graphics frame.

Theorems worth proving next: that the builder's tables are sequences (the premise of `TransitionsAreChained`), then
`FrameIsAccepted`, over the recordings that `GpuReplayProofs` shows to be well formed; the paths of `DirectPaths` with recursive functions for the walk.

## 3. The modules

| Module | What it is |
|---|---|
| `EventFeed` | abstract: a log and subscribers, each handed its window event by event |
| `EventStream` | `record_event` and `_handle_events`; instantiates `EventFeed` |
| `ContainerLifecycle` | one container, its request, watcher and tracker threads, the process table |
| `ImageStore` | one tag, the layers, request threads, the startup prune |
| `CowOverlay` | libcow in several processes over one image and its clones |
| `DirectTracer` | the tracing loop, its table and path caches, and the processes |
| `DirectPager` | the memory pager and the telemetry ring |
| `DirectPaths` | paths, working directory, links, hard links and program starts, against a reference container |
| `GpuCommands` | recording of command buffers in the ICD |
| `GpuAbi` | the binary frame: versions, sizes, kinds of entries |
| `GpuFrame` | the ICD's builder of a frame (extends `GpuCommands`, `GpuAbi`) |
| `GpuExecutor` | the executor's checks of a frame and its replay (extends `GpuFrame`) |
| `GpuReplay` | submission of a recording through all of these, against the meaning of its calls |
| `GpuSync` | fences, semaphores, events and the steps of a submission on both sides |
| `...Proofs` | theorems about the module of that name and their proofs; those about `GpuCommands` are in `GpuReplayProofs`, because `GpuReplay` gives its actions their order |
| `GpuSyncInvariants` | the inductive invariants of `GpuSync` and the notions its proofs speak in, without theorems |
| `MC...` | instances for TLC: definitions for constants, symmetry sets, scenes |

`EventStream`, `ContainerLifecycle` and `ImageStore` run side by side in the daemon and
do not call each other in what is modelled (the lifecycle records events, whose
content does not matter to it; a container's creation reads an image).
`CowOverlay` begins where `ImageStore` ends, with a published tree and its clones.
`DirectTracer`, `DirectPager` and `DirectPaths` are parts of one executor that meet
in a stopped process: the tracer stops it, the other two work while it is stopped.
`GpuCommands` to `GpuReplay` and `GpuSync` are two views of `vkQueueSubmit`: the
former has one submission of arbitrary contents as one step, the latter the
steps of submissions by several threads with contents reduced to their kinds.

Operators marked *Regression* or *Mutant* in a module are what a definition must not be
turned into; no specification uses them.

### 3.1 EventStream

State: `log` is the sequence of lines of `events.jsonl` that parse, `torn` says
that the file ends in a partial line, `rec` the event a thread has stamped and not
written, `conn[c]` the locals of a streaming thread: its window, `index` (how many
events it loaded), `pos` (the next to write), `sent`.

`Stamp`, `AppendEvent` and `AppendFails` are `record_event` (`pdockerd`:5140-5160): the
stamp is taken before the lock, append and `notify_all` are under it, and a
write may stop short. `Connect`, `WriteNext`, `LoopHead`, `Timeout`, `Reload`
and `Disconnect` are `_handle_events` (9210-9262). `Crash` kills the daemon,
possibly in the middle of an append. A glued line (an append after a torn one)
parses as neither, as in `_load_events_unlocked` (5121-5137).

### 3.2 ContainerLifecycle

State: `disk` is `state.json` (status, recorded main and launcher process,
known processes, exit code, AutoRemove) or `NoState`; `proc` the process table;
`tracked` the entry in `running_containers`; `th[t]` the program point and locals of
thread `t`, where requests are `Callers` and `Pollers` and the watcher and tracker of the launcher
born as number `b` are `<<"watch", b>>` and `<<"track", b>>`.

A process is a birth number, which stands for the `(Pid, StartTime)` identity
that the code stores (5838-5850); its pid is separate and reused, so that the
places where the code uses a bare pid reach whoever holds it. A launcher that
exits is a zombie until somebody polls or waits for it. Actions follow the
functions: `Start*` is `start_container` (6515-6715), `Watch*` its watcher,
`Track*` the process tracker (5964-5982), `Inspect*` and `Reconcile*`
`reconcile_container_state` (5575-5638) for the list, inspect and rm routes, `Stop*`
`stop_container` (6718-6833), `Remove*` and `PruneLoad` removal and prune. The split
into actions is at every load and save of `state.json`, every signal, and every
access to `running_containers`: a thread works on the copy in
`th[t].snap` in between. Outside of a stop, a scan of `/proc` and the save of its result are one step.

After `Popen` a start can still raise: its save (6662), its event (6663), or the start of the tracker or
of the watcher thread (`StartSave`, `StartThreads`). Nothing undoes the spawn then; `cut` is a history of the launchers of such
starts, which no thread holds and only `running_containers` names, until the next start or stop.
A save that raises elsewhere ends its thread like an earlier return and is not an alternative of its own.

A stop has five steps behind its first scan: `StopTerm`, `StopKill` and `StopLate` send signals (to what the
scan found, and to what a new scan adds, `Signalled`), `StopList` lists `/proc` for the last time (6788),
`StopVerdict` looks at who of the listed is alive (`survivors`), `StopSave` saves (6830). Processes fork and
exit between all of them. `th[t].old` is a history: who had been born at the last listing.

### 3.3 ImageStore

State: `dirs` maps the names a tag can have under `images/` (its own, the stage
`.pull-*` and the backup `.old-*` of each pull) to a directory or `None`; a
directory is its files: `cfg` and `man` (the layers `config.json` and
`manifest.json` name), `ref`, and the merged `root`. `lay` is the state of each
layer directory: `full`; `holed`, which passes `_layer_exists` but lacks
content; `broken`, which does not pass. `tmp` holds the extractions in progress, `th` the threads, `kept` is
a history variable: "none" (nothing published yet), "published", or "exempt", which is for good: after a
request that is not a pull or a prune, after a prune request beside a pull, after a failed rename back (`PullRestore`),
and after a crash that met a half-deleted backup while the tag had no directory (`Ruined`).

`Pull*` is `pull_image` (4640-4750), `Layer*` and `Extract*` the layer loop and
`_extract_layer_tar` (2379-2432), `SaveManifest`, `Merge*` and `WriteRef` the tail
that pull and load share, `Load*` and `Clear*` `load_images` and
`remove_image`, `Prune*` `prune_build_artifacts` (6897-6934) and
`prune_unreferenced_layers` (7200-7235), `Restart` a kill of the daemon and the
startup prune in `main` (10306-10315). Every `rmtree` is two steps (`RmBegin` and `RmEnd`; for layers `Gut` and its
end), because a deletion takes the files in any
order and other threads see it half done. That goes for stages (4727, 6909), backups (4733, 6920) and the tag itself
(5003). A deletion works on a directory that it has open: `open` says who
deletes a directory and goes with it when it is renamed, `th[t].left` which files are still on the
list; the `rmdir` at the end takes what is under the name then (`Remains`: files written in
between stay, and then the deletion fails).

A merged `root` is `whole`, or `lossy` if the merge skipped single files (2520-2526), or `holed` if a deletion or
another merge took content of it.

### 3.4 CowOverlay

State: `dir[t][f]` is the inode that file `f` of tree `t` (the image or a clone) is a
link to, `ino` the content and length of inodes and whether their metadata was changed,
`fds` the kernel's descriptors, `tab` the library's `fd_paths`, `th` where a process
is in a call. `CallPath` and `CallFd` are the entries of the hooks; `Stat`,
`MakeTemp`, `CopyData`, `Publish` and `CopyUpFails` are the steps of the copy-up
(`libcow`:340-460: link count and size, `mkstemp`, copy, `rename`), and `ActPath`, `ActOpen`, `ActFd`,
`ActSyscall`, `ActRename` the call itself with the table's update. `Dup`, `Dup2`, `Dup2Self`,
`Close`, `Fclose` are the hooks that only keep the table; `Kill` ends a process in
any step, `RemoveImage` takes the image away under its clones.

The size is of the file that `Stat` looked at (354), the bytes of the file that has the name when it is opened again
(382): a file that was published or written longer in between is copied up to the earlier size, and its
content is `prefix` (`Copies`). A rename whose source is missing still copies its destination up
(611-633). `ftruncate` truncates the remembered path whatever the descriptor was opened for.
`dup2(n, n)` frees the entry before it copies it (99-102): the entry then is the old path still, or garbage, which
names no file of the tree (`Stray`).

What a process may do, and whether it tracks descriptors for reading (`PDOCKER_COW_TRACK_READONLY_FDS`, off by
default), is in its `load`, so that one run covers different pairs of processes.

### 3.5 DirectTracer, DirectPager, DirectPaths

`DirectTracer`: `st`, `call`, `kid`, `own`, `code` are the processes (`own` is what a
process knows of itself), `tbl` the tracee table, `inflight`, `gen`, `cache` the
path caches with their generation and the mutations in flight, `held` the stop `waitpid` has
returned, `over` the executor's result. `Enter`, `Fork`, `Exit`, `Kill`, `Kernel` are
processes and kernel; `Wait` and the `Handle*` actions are one turn of the loop
(`direct`:4782-5390), one action per kind of stop, each with `find_tracee` or
`add_tracee`. `HandleVanished` is the case that the process was killed while the
tracer worked on it: the requests fail, and either the stop is forgotten or
the loop is left, by which request it was.

`DirectPager`: `maps`, `mem`, `acc` are the program's mappings, bytes and accessible pages,
`want` what a program without the pager would have, `reg` the region table, `prog`
the program and the fault in progress. `Mmap` is the rewritten call and the
registration at its exit, `MmapDenied` its failure, `Munmap` the call that the pager
passes on, after which the kernel may map there again while the row stays; `Store` and `Fault` are the program, `EvictOne`,
`PageIn`, `FaultFails` the fault
handler step by step. A fault that fails delivers its signal, and the program may go on (a handler): what the
steps before the failure left stays, a victim written out that is still in the table, with or without its access, or a
faulting page that has its access and not its bytes. `Reap` is the end. `ring` and `records` are the telemetry
file and everything written to it; `AppendSample` is
`memory_telemetry_append_bounded_jsonl`.

`DirectPaths`: `Rewrite` is the rewriting of an absolute path (`direct`:1593-1720), `Passed`
and `Valid` the validation, `Chdir` the tracked working directory,
`Normalize` the one-time change of absolute links, `Started`
the loader and interpreter of a started program. The copy that stands for a hard link (3722-3780) is `LinkBegins` (an
existing name that dpkg replaces, `Replaced`, is unlinked first, 3733-3736), `LinkWrites`, `LinkEnds`, or `LinkFails` (what was written is
removed) and `LinkKilled`, with the copy in progress in `copy`. `GuestObject` is the reference: it walks the same
path in a container whose binds are mounts and whose root is a directory.

### 3.6 GpuCommands, GpuAbi, GpuFrame, GpuExecutor, GpuReplay

`GpuCommands` has a command buffer `cb[b]` with its bound state, its tables of snapshots, its
graphics records (each with the number of the next operation) and its
operations; `image` is the layout the ICD believes each part of an image to have,
`truth` (a history) the layout the executed barriers left it in. Each `vkCmd*` family is one operator from a command buffer
to a command buffer; `ExecuteCommands` copies a secondary's tables and moves
every index. `Submittable` is `graphics_mixed_submit_plan`: which operations may stand before, between and
after the records.

`GpuFrame!Build` is `send_recorded_vulkan_graphics_v6_1_frame` up to the send: pipelines with
their states, dynamic states, commands with what they point at, transfers between
draws, then the version that is needed, the cursor, the places of the tables. `Add` finds or appends a row in a bounded table,
`Fail` keeps the first error. `GpuExecutor!WellFormed` is the check of the header and of
every reference, `Preflight` the dry run of the commands, `Replay` the replay: it yields the sequence of what the device is
told, with the state each draw finds, and the layout changes the replay adds.

`GpuReplay` submits: host operations before the first record, the frame, host
operations after the last. `Meaning` folds the application's calls into what they
mean by themselves. `said`, `sent` are histories for that comparison.

### 3.7 GpuSync

State: `obj` is the ICD's copy of every object (id, signaled or value), `generation`
the id counter, `fenceReg`, `semReg`, `eventReg` the executor's registries keyed
by id, `device` frames that a timed-out wait left on the queue, `busy` a
wait without limit that holds the executor, `run[t]` the call a thread is in, with the program `prog` of its steps, the place
`pc` in it and the commands it has executed, `did`; `truth`, `tainted`, `promised` are histories.

One exchange with the executor is one step, because it serves one connection at a
time (`exec`:27201); the steps of `vkQueueSubmit` (validation of local copies, host
operations, dispatches, frames, local completion) are steps of their own, between
which other threads create, wait, signal, reset and destroy. `Restart` empties the
executor's registries, `Crash` is the death of the application, after which a new
process begins its ids again. `tainted` has the objects whose local copy or
entry is not their own because of a behaviour of 7.3: a reused id (4), a value overstated by a
wait for any (9), an event reset on one side (3), a frame that timed out or whose writeback failed (10),
a binary semaphore a failed call had waited for (35). `Destroy` also cuts an object's
id out of frames left on the device, which hold its handle (`Forgotten`).
The properties speak of the other objects.

## 4. The runs

| Run | Instance | Asks | Result |
|---|---|---|---|
| `events_safe` | 1 client, 2 recorders, 2 kinds, 3 events, clock 0..1, any window | `TypeOK`, `StreamExact`, `ImplementsFeed`, `EveryEventDelivered` | hold |
| `lifecycle_safe` | 2 callers, all requests, 2 requests, 2 processes, 1 crash, pids reused; constraint `Small` | `TypeOK`, `NoForgottenChild`, `StopLeavesNobody` | hold |
| `lifecycle_converge` | 1 start, 1 poller, 1 process, AutoRemove on and off, fair | `LiveIsRecorded`, `DeadIsNoticed` | hold |
| `lifecycle_workload` | 1 start, 2 processes | `WorkloadVisible` | violated |
| `images_safe` | 3 workers, 3 requests, 2 layers, 1 crash, in three worlds | `TypeOK`, `TagNotLost`, `TagInPlace`, `ApartIsWhole`, `BootLeavesNoResidue` | hold |
| `images_race` | 2 pulls of one missing layer | `VisibleIsWhole` | violated |
| `cow_isolation` | 2 files of up to 2 bytes, 2 containers, 2 processes, 2 descriptors each, 3 spare inodes, 1 to 3 calls each, in four loads | `SharedIsPristine`, `NeverPartial`, `TableIsTrue`, `WritesAreVisible` | hold |
| `direct_trace` | 3 processes, 2 rows, 2 calls, 1 kill, generation of 1 bit, fair tracer | `CacheIsTrue`, `PendingIsCounted`, `EndsWithLast`, `StoppedGoesOn`, `Returns` | hold |
| `direct_memory` | 2 addresses mapped 3 times, 2 rows, a region of 3 pages, 2 resident, a ring of 3 lines; an image of 20 objects with nested binds, 330 paths | `MemoryIsFaithful`, `RingIsRecent`, `CwdAgrees`, `CopiesAreMade`, `PathsLead`, `ProgramsStart` | hold |
| `gpu_sync` | 2 threads, a fence, 2 timelines, a binary semaphore, an event, 18 submissions in six scenes, 1 restart or crash | `OrderKept`, `FenceMeansDone`, `ValuesAreReached`, `CarriedFenceSignals`, `EntriesAreOwned`, `WaitsHonoured` | hold |
| `gpu_replay` | some three thousand recordings of up to 14 calls, submitted with and without a fence or semaphore | `RecordsShareTables`, `LayoutIsKnown`, `FrameIsAccepted`, `ReplayIsMeant`, `TransitionsChain` | hold |
| `gpu_overlap` | renderings with one dynamic state | `PayloadsAreKept` | violated |

`CHECK_DEADLOCK FALSE` everywhere: requests, processes, calls and crashes are bounded,
and a daemon, a tracer after its end or an executor without requests rests.

What the passing properties show:

* `StreamExact`, `ImplementsFeed`: an index taken under the lock and used
  outside it skips and repeats nothing, with appends, torn lines and reloads in
  between; the stream is the abstract feed. `EveryEventDelivered`: the timed wait makes up for a
  `notify_all` that found the thread writing.
* `NoForgottenChild`: every launcher that is not reaped is in the hands of the request
  that starts it or of its own watcher, whatever the other threads
  save; those whose start raised after `Popen` are in nobody's (`cut`, 7.1). `StopLeavesNobody`: a stop goes on to report
  success only when every process of the container that was born at its last listing of `/proc` is
  dead, recorded or not, also after a restart lost
  `running_containers`, and with reused pids: the lookup by path finds what nothing recorded, and an identity survives
  between listing and verdict. A process forked after that listing is out of the stop's reach and of the property's (7.1).
* `LiveIsRecorded`: a launcher that stays alive and whose start went through is recorded again and again
  although stale saves of other threads drop it. `DeadIsNoticed`: once
  everything is dead, polling brings the stored state to not running for good.
* `TagNotLost`, `TagInPlace`: between the two renames of a pull, in its error
  path, in a prune that takes its backup, in a crash of any of these, a
  published tag has a complete directory under its own or a backup's name, and under
  its own when nobody works on it, although stages and backups are deleted in two steps by several threads and a
  directory may be renamed while it is being deleted; both are claimed until the history is exempt (3.3, 7.1).
  `BootLeavesNoResidue`: the first request after a restart finds no stage,
  backup, temporary or half-deleted layer. `ApartIsWhole`: with pulls that share no
  layer, what `_image_dir_complete` accepts has the whole tree, up to single files a merge skipped.
* `SharedIsPristine`: no call of any process changes the bytes of an inode that the image or
  another clone still has, although copy-ups of two processes of one container
  interleave, fail and are killed, in the default configuration too; its metadata change only where the code
  lets them (`MayTouch`, 7.2). `NeverPartial`: no name ever shows a copy in the making, and a container with one
  process never the first bytes of a file only. `TableIsTrue`: the remembered path of a descriptor is the one it was opened
  with, through close, dup and dup2, for processes that do not do what 7.2 says of `dup2(n, n)` and `fclose`
  (`Tidy`). `WritesAreVisible`: a second copy-up does
  not cut an earlier descriptor of a lone process off its file.
* `CacheIsTrue`: a validation that is used from the cache is what the file system says,
  with a rename of another process between its entry and its exit, and with a
  generation that wraps. `PendingIsCounted`: a process killed inside a
  rename does not close the caches for ever. `StoppedGoesOn`, `Returns`,
  `EndsWithLast`: nobody is left stopped, also with a full table, and the executor
  returns the program's code after the last process.
* `MemoryIsFaithful`: with eviction, reload, failures the program survives and addresses mapped again, in any order, a page the
  program can read has what it wrote, but for managed pages that the row of an earlier mapping covers too (`Doubled`). `RingIsRecent`: the telemetry file is the newest part
  of what was recorded, within its bounds. `PathsLead`, `ProgramsStart`, `CwdAgrees`: a path,
  a program, the working directory lead where they lead in a container, except in
  the ways of 7.2. `CopiesAreMade` (`CopiesAreWhole` of `DirectPaths`): whatever step of a hard
  link's copy fails, no partial file stays and no file is lost or changed but a `status-old` to be replaced; half a copy is
  there only while it is made or when the executor is killed.
* `OrderKept`: a submission's host operations, dispatches and frames happen in recorded
  order although two programs execute them. `FenceMeansDone`, `ValuesAreReached`: neither copy of a
  fence or semaphore says "done" before the work is. `WaitsHonoured`: no work runs before
  what its submission waits for, including work left on the device by a timeout. `CarriedFenceSignals`: a fence that
  travelled with a frame answers. `EntriesAreOwned`: destroyed objects leave the fixed registries.
* `RecordsShareTables`: the records of a command buffer that may be submitted share out each table,
  in order and without a gap, also after secondaries are copied in (buffers with a pass that could not begin
  excepted). `LayoutIsKnown`: the layout the ICD
  believes is the one the executed barriers left. `FrameIsAccepted`: what the builder emits the
  executor accepts, apart from the named `KnownRefusal`s. `ReplayIsMeant`: the
  device does what the calls say, each draw with the state it had at its call (draws of `Rebound` excepted).
  `TransitionsChain`: the layout changes the replay adds begin where the last one over the same part ended.

Bounds and why they are enough to be interesting. Each hazard needs few actors:

* Lifecycle: two threads and a third party that overtakes them, which is two requests and the
  threads they start (a start brings two); two processes give a launcher with a
  workload, two launchers, or a launcher and a foreign process on a reused pid. `Small` keeps the sum and
  not the product of the two hard cases: two clients at once with start, stop and forced removal, or one at a time
  with every request, a crash and foreign processes.
* Images: three pulls are needed for a backup of one pull to be seen by another while a third
  publishes. `MCImageWorlds` runs three worlds in one state space, a behaviour staying in one:
  "safe" (three pulls and prunes of one image), "every" (two requests of any kind at once) and "apart" (pulls without a common layer).
  Behaviours of the first and the last end when they become exempt, because their properties then say nothing; merges skip
  files in the last only, where a property looks at the tree.
  One crash suffices because the daemon keeps nothing in memory that a second crash could lose
  differently, and a crash inside the startup prune is a restart of the same prune.
* libcow: four loads. `Together` has two processes in one container that copy up in every combination; `Apart`
  one with rename, dup2 and fclose beside one of another container; `Default` and `Strict` have descriptors for
  reading that are changed by `fchmod`, `ftruncate`, `syscall` and `dup2(n, n)`, without and with their tracking, so that the
  default configuration is among them. Two files are needed for a rename, and a length of 2 for a file
  that grows between the look and the copy.
* Tracer: two rows and three processes fill the table; a generation of one bit wraps at the second change;
  one kill reaches every handler.
* Pager, telemetry ring and paths share no state, so `MCDirect` lets one of the three move in a behaviour
  (`part`). Of two mappings at most one has more than one page (`OneIsLong`); the third mapping is at an address that one
  of the first two had.
  Two resident of three pages make every load evict; three lines and six bytes make the ring full by
  lines, by bytes and by both.
* GPU submission: six scenes ("ordered", "binary", "faulty", "any", "event", "left"), each with the objects and
  submissions of one hazard and one frame left on the device; every object keeps its id unless the client restarts.
* GPU recordings: seven families (`MCScripts`) that put transfers before, between and after
  renderings, bind states in several orders, copy secondaries twice, run render passes with resolved and with depth-stencil attachments beside barriers and queries,
  give an image several layouts, and fill the tables.

Every mutant of `PROJECT.json` is found at these bounds.

`CowOverlay`, `DirectTracer`, `DirectPager`, `GpuCommands` and `GpuSync` state their types too
(`TypeOK`, `TracerTypeOK`, `PagerTypeOK`); they hold in their runs' instances (those named `TypeOK` are proved) and
document the state, and no run lists them beside the properties above.

Statements in the modules that no run lists because they do *not* hold of the code; each
says what a document promises and is described in section 7:
`EventStream!RecordedIsReplayable`, `ContainerLifecycle!ExitCodeKept`,
`ContainerLifecycle!NoDoubleStart`, `DirectTracer!StateIsInherited`, `GpuSync!SubmittedFenceAnswers`.

## 5. Fairness

`EventStream!LiveSpec` assumes weak fairness of the steps of a streaming thread
and of its timed wait: Python schedules runnable threads, and a wait with a
timeout ends. Nothing is assumed of recorders, clients or crashes.

`ContainerLifecycle!PolledSpec` assumes weak fairness of every thread's next
step, and of the pollers' listing: the app refreshes the container list for
as long as it is open (`MainActivity.kt`), and both liveness properties say "as long as somebody
looks". Processes need not exit and nobody needs to call stop. `LiveIsRecorded`
has the hypothesis that the container is not removed and `DeadIsNoticed` that everything of it is
dead for good.

`DirectTracer!TracerFairness` assumes weak fairness of the tracer's own step: it is one thread in a
loop around `waitpid`, which returns while a process is stopped or there is none. Nothing is assumed
of the traced processes, of the order in which their stops are reported, or of kills.
`StoppedGoesOn` holds with it because there are finitely many stops in the instance: `waitpid(-1)` gives no order among
several stopped processes, so with unboundedly many events one of them could wait for ever.

The other runs check safety only.

## 6. Proofs

All proofs are checked by TLAPS without assumptions beyond the named `ASSUME`
of each module, which only says what the constants are (that sizes and limits are numbers, that `None` and
`NoUntil` differ from proper values, that containers and files are finitely many, that the names of
the objects of `GpuSync` do not overlap, that its registries have a slot and its calls name objects of the right kind,
and that the scripts of `GpuCommands` are sequences of calls with arguments of their kind), and the premises that a theorem states. A theorem speaks of any values of the constants; the
run beside it checked the same formula on its instance first.

| Theorem | Property | Of any number of |
|---|---|---|
| `EventStreamProofs!StreamsExact`, `TypeCorrect` | `StreamExact`, `TypeOK` | clients, recorders, events, crashes |
| `EventStreamProofs!StreamIsFeed` | `ImplementsFeed` | the same |
| `ContainerLifecycleProofs!ChildrenInHand`, `TypeCorrect` | `NoForgottenChild`, `TypeOK` | requests, processes, pids, crashes |
| `ContainerLifecycleProofs!StopIsComplete` | `StopLeavesNobody` | the same |
| `ImageStoreProofs!TypeCorrect` | `TypeOK` | threads, layers, requests, crashes |
| `ImageStoreProofs!PublishedNeverLost` | `TagNotLost` | the same, requests of every kind |
| `ImageStoreProofs!TagStaysInPlace` | `TagInPlace` | the same, requests of every kind |
| `ImageStoreProofs!BootCleansUp` | `BootLeavesNoResidue` | the same, requests of every kind |
| `ImageStoreProofs!AcceptedIsWhole` | (`VisibleIsWhole`, in `images_race`) | the same, requests being pulls of which no two at work share a layer, until exempt |
| `CowOverlayProofs!TableIsKept`, `TypeCorrect` | `TableIsTrue` (`TypeOK` is in no run) | trees, files, lengths, processes, descriptors, loads |
| `CowOverlayProofs!WritesStayVisible` | `WritesAreVisible` | the same |
| `CowOverlayProofs!ImageIsPristine` | `SharedIsPristine` | the same, as long as no rename overtakes a call (`NoRace`) |
| `CowOverlayProofs!NoHalfCopy` | `NeverPartial` | the same, as long as no rename overtakes a call (`NoRace`) |
| `DirectTracerProofs!CachesAreTrue`, `MutationsAreCounted` | `CacheIsTrue`, `PendingIsCounted` | processes, rows, calls, generations |
| `DirectTracerProofs!EndsAfterLast` | `EndsWithLast` | the same, and kills |
| `DirectPagerProofs!MemoryIsKept` | `MemoryIsFaithful` | mappings, rows, pages, limits, failures, calls |
| `DirectPagerProofs!RingStaysRecent` | `RingIsRecent` | records, sizes and bounds |
| `GpuSyncProofs!CoreAlways` | (`TypeOK` and the shape of `run`) | threads, objects, calls, slots, restarts, crashes |
| `GpuSyncProofs!NothingLeaks` | `EntriesAreOwned` | the same |
| `GpuSyncProofs!FencesTellTheTruth`, `CarriedFencesStay` | `FenceMeansDone`, `CarriedFenceSignals` | the same |
| `GpuSyncProofs!CommandsInOrder` | `OrderKept` | the same, and recorded commands |
| `GpuSyncProofs!ValuesAreTrue` | `ValuesAreReached` | the same |
| `GpuSyncProofs!WaitsAreHonoured` | `WaitsHonoured` | the same |
| `GpuReplayProofs!RecordsAreApart` | `RecordsShareTables` | scripts, images, subresources, slots, words, table sizes |
| `GpuReplayProofs!RecordingStaysInside` | (`TypeOK`) | the same |
| `GpuReplayProofs!KnownLayoutsAreTrue` | `LayoutIsKnown` | the same |
| `GpuReplayProofs!ReplayKeepsLayouts` | (`Chained`, of any accepted frame) | images, ranges, commands of a frame |
| `GpuReplayProofs!TransitionsAreChained` | `TransitionsChain` | the same, the tables of built frames being sequences |

* **`EventStreamProofs`.** Invariant: `pos <= index + 1`, `index <= Len(log)`, and `sent` is exactly the selected positions
  below `pos`, ascending. It is kept by a reload because the old index is at least `pos - 1`
  then, and by an append because positions do not move. `StreamIsFeed` is the refinement: what
  a client received is what `EventFeed` says, a prefix of its window, so that the next selected
  event that a thread writes is the one the abstract feed delivers; appends and connections are those of the
  feed, a disconnect and a crash close feeds, and reloads, waits, torn lines and unselected events
  are stutters.
* **`ContainerLifecycleProofs`.** None of the three is inductive alone. The invariant `IInv` adds
  - `Fits`, what each program point relies on: only a caller stands in
    `start_container`; the points that use the loaded state hold one (a stop without a state goes on with its pids only, and a stop that is about
    to save its verdict has a state); the process a start or a watcher is about has been
    born, and past its `wait` it is dead; the rest is below;
  - `ProcTyped`: a dead process has an exit code, which is why the code the watcher
    stores is one;
  - `AllInHand`, with `InCharge`: `NoForgottenChild` itself;
  - in `Fits`, what a stop relies on behind its last listing: until the verdict, every process of the container that had
    been born by then has its pid in `seen` as long as it lives; behind a verdict without survivors, none of them lives. It is
    kept because the process table only ages: a process that is dead stays so, and one alive keeps its pid.

  The process table only ages (`Good`): births, deaths, waits and a restart each
  have a lemma, and a thread that is in charge of no process keeps `IInv` with any step to locals
  that fit (`QuietStep`). Only five actions move a child from hand to hand: `StartSpawn`,
  `StartRegister`, `StartSave`, `StartThreads` and `WatchWait`. `StopIsComplete` needs two more facts: no step of
  another thread makes a thread leave `k_save` (`OthersStay`), and of its own only `StopSave` does (`OnlySaveLeaves`).
* **`ImageStoreProofs`.** The strengthening is
  `Numbered`: a thread outside the program points of a prune is a worker with a
  request number, which is what makes `Stage(th[t].n)` a name of the store.
* **Tags (`ImageStoreProofs`).** `TagNotLost` and `TagInPlace` are
  not inductive: a thread may be about to delete the directory it rests on, or have it open. The
  invariant `TagInv` says of every store that is not exempt (`TagParts`)
  - `Kept`: when the tag has no directory, one of its backups is there and its pull is on the way to put it
    back or to hand it on; during a startup, the startup prune is;
  - `Owned`: outside of a startup, a backup belongs to a pull at work, because a prune deletes none while a pull is
    (`Alone`) and every pull takes its own away;
  - `Opens`: who has a directory open is about to delete just that one (`Deletes`), so that no deletion goes with a directory
    to another name; `Cleaning`: a pull that deletes its backup has all that is left of it on its list;
  - `Refs`: what has the tag's name is intact and nobody deletes it; so is every backup, unless somebody has it open,
    or the startup prune is at work and the tag has its directory;
  - `Staged`: what a pull's stage has according to its program point;
  - `Roles`: pulls have distinct numbers, no thread is in a load or a removal, workers that prune were asked to.

  With every thread idle nobody owns a backup, so the tag has its name. A request that would break `Roles` or `Alone`, and the two events
  that break `Refs` and `Kept`, make the store exempt: that is why the theorems need no premise on `Ops`.
* **The startup prune (`ImageStoreProofs`).** `BootInv` says what the prune has still to do: no request is
  at work, the residues are among the names it listed (or the one backup it holds), a backup it is about to
  rename has a free name to go to, and the broken layers are among those it is about to delete. A restart in the middle
  starts from the list again, so nothing has to be remembered across crashes.
* **Whole images (`ImageStoreProofs`).** `VisibleIsWhole` fails when two pulls extract one layer (`images_race`), so
  the theorem has the premise `[]Apart`: no two requests at work share a layer. `images_safe` checks the same on an
  instance (`ApartIsWhole`, the world "apart"), with requests that fail and crashes. `WholeInv` has `LayersIntact` (a layer is
  absent or whole, a temporary one too), `Sound` (what each pull
  has done: its finished layers are whole, the one it extracts is absent, its stage has an empty, a half merged or a merged tree
  according to its program point) and `TagParts` once more, of trees that are whole or lossy (`Merged`). The premise is used
  where another pull completes a layer: it is none of mine. It is about requests at work
  together; successive pulls may share layers.
* **`CowOverlayProofs`.** The invariant `CowInv` has the types and
  - `NeverPart`: no name shows a copy in the making;
  - `Owned`: a temporary file belongs to one process; no tree shows it and no
    descriptor is open on it, so that nobody else writes it, publishes it or copies from it while it is
    filled;
  - `Whole`: what is about to be published is not partial. It holds after the
    copy because the source has a name and names show no copy in the making;
  - `HasNames`: a process in a copy-up has the file it is about, and a call on names has its names.

  `CopiesStay` treats every step that makes nothing partial and shows nothing but what was
  shown or open before; `MakeTemp`, `CopyData`, `Publish` and the creation of a file remain.
* **The image (`CowOverlayProofs`).** That the image is never written rests on what a process knows when it
  makes the call, so the invariant `PInv` is `CowInv` and `SharedIsPristine` with
  - `CallIsSafe`: from the look at the link count to the call, the name has an inode of one tree
    alone. One link means one tree (`OneLink`, by counting), and a step of another process gives a tree
    only a new inode (`NewInode`) or one it had (`NoNewSharing`);
  - `WritesApart`: a descriptor for writing is on such an inode, which no step shares again;
  - `OpenIsKnown`: an open descriptor that is not for writing was opened for reading, and is in the table if such
    descriptors are tracked, so that what goes past the hooks changes metadata only of processes that `MayTouch` names.

  The one premise is `NoRace`: no process renames onto a name that another process of its container has a call in
  flight on. The code does not exclude it and loses the property then (7.2).
* **The table (`CowOverlayProofs`).** `TInv` is `CowInv` with `Entries`: of a tidy process, the entry of a closed descriptor is gone
  unless it calls `fclose`, and then every descriptor it opens gets an entry. No premise is needed.
* **Half copies (`CowOverlayProofs`).** That a copy has all bytes of the file depends on what others do between the look at its
  size and the copy. `HInv` is `PInv` with
  - `WritesHome`: an inode open for writing is in the tree of its process only;
  - `CopiesWhole`: while a process alone in its container copies up, the file is not longer than it was when it
    looked: a writer to it would be of another container, against `WritesHome`, and a call or a rename of another
    container does not reach this tree;
  - `LoneIsWhole`: the part of `NeverPartial` that follows.
* **Visible writes (`CowOverlayProofs`).** A copy-up is dangerous to whoever has the file open: its
  descriptor stays on the old inode. `WritesAreVisible` says that this does not happen to a process
  alone in its container, and holds because a copy-up replaces only an inode with more than one link.
  The invariant `FInv` is `CowInv` with
  - `OneName`: a tree has an inode under one name only, so that an inode has one link exactly when one
    tree has it (`OneLink`, `OneTree`);
  - `FdFollows`: what is open for writing is on an inode of one tree, the one under the name it
    follows, and that name is not the one a copy-up of its process is replacing;
  - `CallFollows`: what a call is about to open for writing is of its tree alone.

  `FdFollows` speaks of processes that are alone, but the steps of all the others have to keep it:
  `OtherFollows` shows that they change no name and share no inode of this tree.
* **`DirectTracerProofs`.** `IInv` has
  - `TableInv`: a process has one row; the process whose stop is handled is in that stop or
    dead; a process that the kernel works for has a row, which is pending if the
    call is a rename; a pending row belongs to a process whose exit stop or death is yet
    to be reported;
  - `Closed`: while a mutation is in flight no cached result is valid, what is valid is
    true, and `gen` is never below the cache's generation (the wrap empties the caches).

  The kernel may execute a rename at any time after its entry, but only while its row is pending, and
  then the caches are closed: that is why `CacheIsTrue` survives the other processes'
  stops. `Count` counts the pending rows. `EndsWithLast` needs `Entered` as well: as long as no row was
  missing and nobody was killed, a process without a row is a child whose
  parent's fork event is still to come, so an empty table means that all have ended; and
  `VanishedIsKilled`: only a kill ends a process under the tracer's hands.
* **`DirectPagerProofs`.** `PagerInv` speaks of the pages that their own row alone covers (`Single`):
  - `AccessibleIsRight`: what the program can access is right;
  - `RowsAreRight`, page by page (`PageIsKept`): the bytes stay in memory when the access is taken; a page that is
    neither resident nor accessible is right in the backing file, or was never touched and is zero;
  - `OthersAreOpen`: the pager takes no access from a mapping that is not its own, whatever row an earlier mapping left there;
  - `FaultIsMapped`: the page being handled belongs to a managed mapping, and the row covers it.

  Each step of a fault keeps them, so that they hold wherever the fault fails and the program goes on. The theorem has no
  premise; the pages that two rows cover are outside of the property (7.2).
  The telemetry ring needs no strengthening but the types; the work is in `SizeOf`, a fold that adds the lines in an order of
  its own choice. By induction on the number of lines, sums exist (`SumsExist`), any line may come first (`AnyFirst`) and
  equal lines have equal sums (`SameSum`), so that a line adds its size (`SizeOfAppend`). `KeptFits` says that the number of lines
  to keep, which `Kept` chooses, exists.

* **Sequences.** The first part of `GpuSyncProofs` is what the proofs about `GpuSync` need of sequences. `FlattenSeq` is
  defined by recursion; `FlattensExists` and `FlattenAppend` give its recursive equation once,
  and from it follow, by induction on the length, where element `n` of a concatenation comes from
  (`FlattenAt`), that `FlattenSeq` is a homomorphism (`FlattenConcat`, `FlattenMap`), and that
  the members of a finite set of positions have an order (`PlacesInOrder`, `RankExists`). The induction itself
  (`Induction`) is over a set of numbers, which the provers can instantiate, instead of a predicate.
* **`GpuSyncProofs`.**
  - `Core`: the types; a running call stands at a step of its own program (`Running`); at most one call runs, as
    the application must ensure (`OneAtATime`); what it uses is alive (`UsedLive`); ids are counted and
    no two live objects share one (`IdsApart`).
  - `NothingLeaks` is inductive over `Core`: an id that a frame gives an entry (`ResolvedFences`, `ResolvedSems`) belongs
    to an object of the running call, which is alive; a frame left on the device signals entries that exist and makes none.
  - `FencesTellTheTruth` and `CarriedFencesStay` are parts of one invariant, `FenceInv`. A fence can be signaled at three
    places (the frame, the device after a timeout, the end of the call) and read at two. `LeftFences` says that what is
    left on the device names only tainted fences; `OwesFence` that a running call whose fence
    travels with a frame has either signaled it already or still has that frame before it. That
    no work follows the frame with the fence is a fact about `Program` (what `Refused` lets
    through), proved for all calls.
  - `CommandsInOrder`: `DidInv` says that a call at step `m` of a VkSubmitInfo has executed what the first `m - 1` steps stand
    for (`Progress`). The fact about data below it is `BufferDone`: for every recorded buffer that is not refused, the
    host operations before the frame, the commands of the frame and the host operations behind it are
    together `OpsOf(b)`, in order, each once.
* **The values.** `ValuesAreReached` alone is not inductive: semaphores are validated at one step of a
  submission, used at others and raised at the last. The invariant `ValueInv` is `Core` and `DidInv` with
  - `TimelineTrue`, `BinaryTrue`, `EventTrue`: what either side claims has happened. The copy of a
    binary semaphore may lag (`Consumed`): a submit whose work has run has used the signal up and resets the copy at its completion;
  - `LeftSems`: what a submission left on the device will signal only tainted semaphores, so that
    work that runs after a timeout says nothing new of the others;
  - `WaitsMet`: between its validation and its completion a submission keeps what it waits for. No other
    thread takes it away: the application submits from one thread at a time and destroys nothing in use, and a value only grows;
  - `WaiterWaits`: the wait that holds the executor belongs to a thread that waits, or to a dead one.

  Only steps between validation and completion run recorded work (`GrowsWhen`), which gives `WaitsHonoured`. What a
  frame may do to a semaphore is collected in one lemma (`FrameOutcomes`) for all parts.

* **`GpuReplayProofs`.** The loops of the model are folds (`FoldLeft`, `FlattenSeq`). `Step` names their bodies;
  `Goes` says that `h` are the values a loop goes through, and `UnfoldingExists` shows, by induction on the
  length, that there are such values for each of them. From then on a loop is proved as in the code, by what holds
  before and after each round.
  - `Recording`: what is left of the script has calls with arguments of their kind; every buffer is `Formed` (its fields and
    tables, the room of each table, ordered records, ranges inside the tables unless the buffer is to be
    refused anyway); and a buffer that is not to be refused and whose render passes all began is `Tiled`.
    `RecordsShareTables` is not inductive: it looks only at records that read a table, but the
    next record continues where the table ends. `Tiled` therefore has a cut in each table for each record,
    the next one at the table's end. Copying a secondary moves its cuts behind those of
    the primary (`append_secondary_command_buffer`), so that the secondary must be tiled as well; a copy that fails half way leaves the primary
    refused, which `Continues` allows: a buffer may stop being usable and never starts again but
    with vkBeginCommandBuffer.
  - `Layouts`: while an image's cache has not been given up, its ranges are disjoint, each
    subresource in one of them has the layout of it, and any other that of the whole image. The property says the same of single
    subresources; that the ranges are disjoint is what keeps it when a range is replaced.
  - The proof found that `HostBarrier` had been ambiguous for an image without subresources, where the empty range
    is the whole one; as in the code, the range that does not normalize now goes first. The constants `Images`, `Parts`, `Scripts`
    may be any sets, and scripts may hold any calls of the modelled functions, in any order and with any arguments.
  - `ReplayKeepsLayouts` speaks of one frame, and of any the executor accepts, not only those of the builder. Along
    the replay `Tracks` holds: for an image sent with several layouts, what the executor believes of each
    subresource (`Follows`) is what the last change over it left (`LayoutBefore`), and the changes so far chain. Each
    image that a command moves exists: the checks at the entry bound every number in the tables, and the walk before the replay
    lets through only the commands the replay knows (`CommandsAreHandled`). A change the ranges do not
    allow refuses the frame (`Readable`, `Writable`); without the second a change of part of a range would make the executor
    believe the new layout of all of it, which is the property's mutant.
  - `TransitionsAreChained` carries this to the states of `GpuReplay`. Its premise `FramesAreSequences` says that the
    tables of a frame that was built are sequences. The builder only appends to them; that every loop
    of it keeps them so is not proved, and holds in all states of `gpu_replay`.
  - This proof, too, changed the model: the ranges of an image are a set now, because their order decides nothing (ranges
    that overlap with different layouts refuse the frame), and spans are bounded as in `range_add_u32`.

Only model-checked:

* All liveness properties: fairness is out of the prover's reach.
* `DirectPaths.CwdAgrees`, and `CopiesAreMade`, `PathsLead` and `ProgramsStart`, which `MCDirect` states
  over `DirectPaths`: they rest on the walk of a path, which is a `RECURSIVE` operator, and what a recursive definition computes cannot be
  proved for every input.
* `GpuReplay.FrameIsAccepted`, `ReplayIsMeant`: they speak of the whole frame that the
  builder makes of a recording, and of its replay. A proof needs a lemma about each of the builder's operators; many
  select with `SelectSeq`, whose definition is a local recursion that the provers do not open.
* `MCImageWorlds.ApartIsWhole`: `AcceptedIsWhole` proves what it says, `VisibleIsWhole` under the same premise, over `ImageStore`
  itself. `MCImageWorlds` adds only a choice of the requests for TLC.
## 7. What the models say about the code

### 7.1 The daemon

Exhibited by a run (`findings` in `PROJECT.json`):

* `lifecycle_workload`: a launcher that exits before its tracker's first look leaves a
  live workload in a container shown as exited for good, against the docstring at `pdockerd`:5906-5908.
* `images_race`: two pulls that miss the same layer; the later deletes what the earlier
  published and is merging, and the partial image is accepted by `_image_dir_complete`.

Statements of the modules that do not hold (section 4):

* `RecordedIsReplayable`: a line cut short (full disk) swallows the next event, whose
  `record_event` returned (5156); the comment at 1108-1110 promises replay.
* `ExitCodeKept`: a tracker that loaded before the watcher's save puts the older
  state back, and the exit code is lost (5960; `docs/design/DOCKER_COMPAT_SCOPE.md`:108).
* `NoDoubleStart`: two concurrent starts both find nothing alive and both spawn (6519;
  `src/docker-proot-setup/scripts/verify_runtime_contract.py`:269).

Seen in the models and not stated, because nothing promises the opposite:

* the watcher's and the tracker's refresh use a bare pid that may be reaped and
  reused, and then record a foreign process, with its own start time, as one of the
  container (the starts are guarded: `verify_runtime_contract.py`:303);
* a start that raises after the spawn, at its save (6662), its event (6663) or the start of the watcher thread (6714),
  leaves a live launcher that no thread follows (`cut`). Only `running_containers` names it, until the next start or
  stop of the container takes the entry;
* a process that forks after a stop's last listing (6788) is out of that stop's reach: the state says exited
  while it lives. `StopLeavesNobody` speaks of the processes there were at that listing;
* a save after a removal makes the container's directory again (5491);
  a removal that found nothing recorded can delete the files of a live,
  unrecorded workload;
* a prune request during a pull deletes its stage or its temporary
  layer; the pull may then publish an image without `config.json` over a good one, or a stage that is being deleted,
  which `_image_dir_complete` hides; its backup may be deleted when it is the only directory; with three pulls and
  a prune an older image may come back;
* the rename that should put the backup back in a pull's error path may itself fail (4729, `PullRestore`). If the tag has no
  directory then, the finally clause deletes the only one;
* a crash while one pull deletes its backup and another is between its two renames leaves the tag without a
  directory and a half-deleted backup beside a good one (`Ruined`, 4733). The startup prune takes one backup for the tag
  and may take the half-deleted one;
* `prune_unreferenced_layers` works from references read earlier and can delete
  a layer that a pull has just found cached;
* `load_images` and `remove_image` delete the tag's directory in place: after a
  crash a part of it may still pass for an image. A load beside a removal can lose the tag, and a pull
  beside a load can back up the load's unfinished directory, which the startup prune then prefers to
  the complete one. For this and the three items before, `TagNotLost` and `TagInPlace` are claimed until the history is exempt (3.3);
* a merge ignores errors on single files (2521), so a full disk gives a partial image
  and a successful pull; the model calls such a tree `lossy`, and `ApartIsWhole` allows it; and a tag that contains `.old-` or `.pull-` is a residue to the prune.

### 7.2 libcow and the direct executor

* Another process renames a shared file over the path between the copy-up of a call and its
  `open`: the call then writes to the image's inode (`libcow`:620, comment :10). This is the premise `NoRace` of two theorems; `cow_isolation` puts
  `rename` beside processes of other containers only.
* The copy-up copies at most the size of an earlier `stat` (354) from a file it opens by name again (382, 389). With two
  processes in one container, a copy that was published or written longer in between is cut to
  the earlier size and published. `NeverPartial` claims whole files of lone processes only.
* `dup2(n, n)` frees the entry of `n` and then copies the freed string (99-102, 802-808): a later `fchmod` or `ftruncate` of the
  descriptor goes to a garbage path. `fclose` leaves the table's entry (788), and a descriptor that gets the number
  and no entry of its own takes it over.
* In the default configuration descriptors for reading have no entry (97, 265), so that `fchmod` on one changes the
  metadata of the image's inode; `syscall(SYS_fchmod)` does so in every configuration (946). `MayTouch` says which
  processes do this; the bytes of the image do not change.
* `munmap` leaves the row of a managed mapping (`direct`:4913). When the kernel maps at the same address again, two rows cover
  a page, and the program may read bytes of the earlier mapping (`docs/design/APK_MEMORY_PAGER.md`:268). `MemoryIsFaithful` exempts
  such pages (`Doubled`) and no others.
* A fault whose injected system call fails does not give the registers back (they are set at 2826 only when all went well), so that a
  handler that survives the signal runs with the injected ones. Registers are not in the model.
* A child whose first stop is reported before its parent's fork event runs as root in "/" until
  then, and what it changed is overwritten (`docs/test/DIRECT_SYSCALL_COVERAGE.md`:81; `StateIsInherited` does not hold).
* Paths: relative paths and `..` do not enter binds; a relative `chdir` is not validated, and `..` at the root
  leaves the kernel's directory above the root while `guest_cwd` says "/"; `mkdir` and `unlink` of "/" or of a mount
  directory are denied with EXDEV; a program named by an absolute path inside a bind is looked for in the root directory
  (`docs/plan/TODO.md`:1301, 2008); a relative exec makes `/proc/self/exe` relative; absolute links made after the start are not normalized. The properties
  exclude these by `strayed`, `CrossesMount`, `GoesUp` and `marked`.
* A crash between `unlink` and `symlink` of the normalization loses a link. The copy that stands for a hard link
  unlinks dpkg's `status-old` before it begins (3733-3736), which is lost when the copy then fails or the executor is
  killed (`Replaced`); a kill in the copy leaves half of it. A too long AF_UNIX path is passed on as it is.

### 7.3 The GPU bridge

Exhibited by a run: `gpu_overlap`. The builder appends payloads behind the largest header, but when the frame
needs no version later than 6.10 it sets the cursor back to the smaller header and writes tables over them
(`icd`:5812-5817 against the comment at :4247).

Objects and submission:

1. the fence of a submission without a graphics frame is signaled in the ICD only, while waits ask the executor: they time out
   or never end (`docs/design/GPU_COMPAT.md`:79; `SubmittedFenceAnswers` does not hold);
2. a semaphore signaled by a compute-only submission exists in the ICD only, so a later frame that waits for it times out after 30 s;
3. event commands change only the ICD's copy, and `vkGetEventStatus` overwrites it with the executor's;
4. ids are per process and the registries global: two clients, or a client started again, meet in one entry;
5. a wait without limit holds the executor, and with it every client (`exec`:27201);
6. the registries have 128 entries; those of a client that died stay;
7. a frame that has sync entries and no work signals nothing (`exec`:26499-26513);
8. `vkQueueSubmit` attaches the fence to every `VkSubmitInfo`;
9. `vkWaitSemaphores` with WAIT_ANY raises every local value;
10. a writeback that fails after the submission reports an error for work that was done;
11. `vkCmdPipelineBarrier` in a compute command buffer adds a graphics record, after which the dispatch is refused
    (`icd`:15829-15831; `docs/design/VULKAN_BRIDGE_SEQUENCE.md`:156);
12. a copy right after the last record of a render pass is refused.

Recording and frames:

13. `vkCmdPushConstants` adds a graphics record in any command buffer;
14. a dispatch uses the descriptor set's live contents, so dynamic offsets are ignored;
15. the frame of version 5.1 sends no resolved size of an indirect dispatch (`icd`:7717) and drops the base group;
16. `append_secondary` does not look at the secondary's `recording_failed`;
17. a failed `vkCmdEndRenderPass` only marks the buffer unsupported, and a `vkCmdBeginRenderPass` whose transition fails does not even do that (12987);
18. NULL vertex buffers are refused;
19. vertex bindings and push constants are read when the buffer is submitted (`icd`:5348, 5391), so draws before a later
    change get the later values, where `tests/test_gpu_abi_contract.py`:845 and :847 ask for snapshots. `Rebound`
    excludes such recordings from `ReplayIsMeant`;
20. a leading image barrier is executed by the host and sent in the frame as well;
21. a full dispatch table or transfer table drops the operation without an error (13964, 14498; test :4010);
22. overlapping copy regions within one buffer are copied in place (8034-8143);
23. incomplete ranges of layouts, or ranges cut by a view, are refused with EOPNOTSUPP (`exec`:24229-24256);
24. a secondary with push constants replaces the size of the primary's, which can end in ERANGE (`icd`:1345-1348), and
    `vkCmdExecuteCommands` replaces the vertex bindings (1336-1338);
25. a plain draw after `vkCmdBindIndexBuffer` is rejected (`icd`:5715-5725 against `exec`:20338-20339);
26. barriers with stage mask 0 are rejected (`exec`:20174, 20189, 20210);
27. image barriers inside the frame do not move the layout the ICD believes (`icd`:15852-15876);
28. recordings may be larger than a frame;
29. `COPY_QUERY_POOL_RESULTS` has no case in the preflight (`exec`:21039-21468) and is refused, although test :4694 asserts it;
30. push constants or sets bound before a pipeline fail at the replay only (24805, 24990);
31. sets with images bound inside a rendering record a barrier inside the rendering (25065-25074);
32. a barrier on part of an image without ranges sets the layout of the whole image (24245-24247);
33. a secondary with `VK_RENDERING_CONTENTS_SECONDARY` is always refused;
34. a dispatch or copy that waits for a binary semaphore consumes the ICD's copy only: in the executor it stays signaled, and a
    later frame that waits for it does not wait;
35. a submission that fails after it executed some of its work leaves the local copies of the semaphores it waited for as they were;
36. the ICD writes its copy of a fence or event after the reply, without a lock (`icd`:2370, 2511). Only uses that Vulkan
    forbids (a reset beside a status query) can come in between; `FenceStatus` of `GpuSync` is one step for the exchange and that write.

`KnownRefusal` in `GpuReplay` names those of these that make the executor refuse a frame of the instance
(overlap, 25, 26, 29, 23, 30); `FrameIsAccepted` says that there are no others.

### 7.4 Hazards outside the list of PROJECT.json

These are real and belong to parts that are planned, or are described above without a property:
names checked and saved without a lock (`pdockerd`:8448); `wait` that gives up after 15 s (8620); builds that
return without freeing their key, or are pruned while they work silently (9421, 1424); a health monitor that ends
beside a new start, and its stale saves (5738, 5727); two starts of one exec session and a failed spawn (8856, 8831); volumes and networks
deleted by counts taken earlier (9181, 9058); prune requests beside pulls (6909, 7215); directories deleted in place (5003);
errors ignored by the merge (2521); tag names that look like residues (6912); glued event lines (5156);
a finite event stream that ends on its second (9241); descriptor-table entries of renamed paths (`libcow`:467);
the first stop of a child before its parent's fork event (`direct`:5132); the SIGSYS path of an inherited filter (4937); caches that do not see
changes from outside the container (1687); aliased object ids (`icd`:952); transfers dropped without an error (14498).

## 8. Limits

* One container, one tag. Containers meet in ports, names and networks, tags in
  layers; the former are planned, the latter is in the model because successive
  images of one tag share layers as two tags do.
* File contents are abstracted to what the checks of the code tell apart; a
  tree is whole, partial or lacking. Rename and single writes are atomic, a crash
  loses memory and never completed calls (no loss of the page cache).
* `HostConfig.RestartPolicy`, ports, logs and the health monitor do not appear
  in the lifecycle; a start's preflight failure and spawn failure do.
* The clock of the event stream is a counter with a bound; stamps are whole seconds.
* `CowOverlay` has files and no directories. A copy reads its source at once: a write by another process between two
  of its reads would give a mixture, where the model gives the bytes before or after it, up to the earlier size. A stale entry
  (after `fclose`, or a close past the hooks) that the library's own `ftruncate` or `fchmod` meets is
  followed only as far as the processes of a `load` can make it.
* `DirectTracer` has one path and one directory entry for all, and no signals besides kills; `DirectPager` has one
  thread, unmaps whole mappings only and has no `mprotect` or `mremap` of managed mappings (the code passes them all on); `DirectPaths` has one process, also during the copy
  that stands for a hard link, and leaves out /proc, /dev and /sys, socket paths, metadata emulation and the emulated tools.
* In `GpuSync` a wait of a frame times out only while what it waits for is missing: a GPU that is slow with all waits met,
  and a `vkQueueSubmit` of the executor that fails after it has reset the fence (`exec`:26383, 26455), are not modelled.
  `GpuCommands` has no passes with unused colour attachments.
* The GPU modules leave out shaders, formats, extents, memory contents, the driver's own failures inside a replay, the frame versions V4 and
  V5 and the compute dispatch's contents, queries as objects, memory objects and swapchains. A submission is one step in `GpuReplay` and several in
  `GpuSync`; the two are not composed, because the contents of a frame do not decide the order of the steps beyond what `MixedPlan` keeps.
* Not modelled at all: the parts marked planned, candidate and no in 1.2. The build pipeline, the
  registry and the exec sessions are the next ones of the plan. The Android user interface, the OpenCL ICD (every call completes at once),
  the media executor and the command line tools have no interleaving steps of their own.
* The map names 32 % of the lines of the implementation files. What is missing in the large GPU files is mostly
  SPIR-V rewriting, driver object creation, older frame versions and logging.
