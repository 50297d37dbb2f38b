----------------------------- MODULE DirectPager -----------------------------
(***************************************************************************)
(* The managed memory pager of the direct executor.  A large anonymous     *)
(* mmap of the traced program is mapped without access, and entered in a   *)
(* table of regions; every page the program touches faults, and the tracer *)
(* loads it from the region's backing file, evicting another page when the *)
(* region has as many resident pages as it may.  The program is stopped    *)
(* while the tracer works, so the memory is the tracer's alone; what can    *)
(* go wrong is the order of its steps, the ones that fail, and a table      *)
(* that does not follow the program's mappings.                             *)
(*                                                                         *)
(* want is what a program without a pager would find in its memory.        *)
(*                                                                         *)
(* Abstracted: one value stands for the bytes of a page; a page is either   *)
(* accessible or not; the program has one thread.                           *)
(***************************************************************************)
EXTENDS Naturals, FiniteSets, SequencesExt

CONSTANTS Bases,         \* addresses the kernel may map at, far apart
          Slots,         \* rows of the region table (MAX_MANAGED_TRACE_REGIONS)
          Requests,      \* the mmap calls the program may make
          MinRequest,    \* g_managed_memory_pager_min_request, in pages
          MaxRegion,     \* g_managed_memory_pager_max_region, in pages
          ResidentLimit, \* g_managed_memory_pager_resident_pages
          MaxValue,      \* bound on the values a page takes
          MaxMaps,       \* bound on the mmap calls
          MaxLines, MaxBytes, MaxLineBytes, \* bounds of the telemetry ring
          LineSizes,     \* sizes of the telemetry records
          MaxRecords,    \* bound on the records written
          None

MaxLen == MaxRegion + 1
PageNo == 0..(MaxLen - 1)
Value  == 0..MaxValue

ASSUME PagerAssumption ==
    /\ MinRequest \in Nat \ {0} /\ MaxRegion \in Nat \ {0} /\ ResidentLimit \in Nat \ {0}
    /\ Slots \subseteq Nat /\ IsFiniteSet(Slots)
    /\ Requests \subseteq [fixed : BOOLEAN, len : 1..MaxLen, flags : SUBSET {"anonymous", "private"},
                           file : BOOLEAN, prot : SUBSET {"r", "w", "x"}]
    /\ MaxLines \in Nat \ {0} /\ {MaxBytes, MaxLineBytes} \subseteq Nat /\ LineSizes \subseteq Nat

VARIABLES maps,    \* maps[b]: the mapping of the program at b
          mem,     \* mem[b][i]: the bytes of page i of b, as the kernel has them
          want,    \* want[b][i]: the bytes the program stored there, or zero
          acc,     \* acc[b][i]: the program may access the page
          reg,     \* reg[s]: the region table
          prog,    \* the program and, while it is stopped, the fault being handled
          calls,   \* mmap calls made
          ring,    \* the telemetry file: sizes of its lines, oldest first
          records  \* the sizes of all records accepted

pvars == <<maps, mem, want, acc, reg, prog, calls, ring, records>>

Unmapped == [len |-> 0, managed |-> FALSE]
NoRegion == [active |-> FALSE, base |-> None, len |-> 0, limit |-> 0, count |-> 0, hand |-> 0,
             res |-> [i \in PageNo |-> FALSE], ever |-> [i \in PageNo |-> FALSE],
             back |-> [i \in PageNo |-> 0]]
Running  == [pc |-> "run", slot |-> 0, page |-> 0]

PagerInit ==
    /\ maps = [b \in Bases |-> Unmapped]
    /\ mem = [b \in Bases |-> [i \in PageNo |-> 0]] /\ want = mem
    /\ acc = [b \in Bases |-> [i \in PageNo |-> FALSE]]
    /\ reg = [s \in Slots |-> NoRegion]
    /\ prog = Running /\ calls = 0
    /\ ring = <<>> /\ records = <<>>

-----------------------------------------------------------------------------
(* managed_trace_is_candidate_mmap: every reason to leave a call alone. *)
Candidate(r) ==
    /\ ~r.fixed
    /\ r.len >= MinRequest /\ r.len <= MaxRegion
    /\ r.flags = {"anonymous", "private"} /\ ~r.file
    /\ r.prot \cap {"r", "w"} # {} /\ "x" \notin r.prot

MappedAt(b, r) ==
    /\ maps' = [maps EXCEPT ![b] = [len |-> r.len, managed |-> Candidate(r)]]
    /\ mem' = [mem EXCEPT ![b] = [i \in PageNo |-> 0]]
    /\ want' = [want EXCEPT ![b] = [i \in PageNo |-> 0]]
    /\ acc' = [acc EXCEPT ![b] = [i \in PageNo |-> i < r.len /\ ~Candidate(r)]]
    /\ calls' = calls + 1

(* alloc_managed_region_slot: the first row that is not active. *)
FreeSlots == {s \in Slots : ~reg[s].active}
FirstFree == CHOOSE s \in FreeSlots : \A t \in FreeSlots : s <= t

Limit(len) == IF ResidentLimit > len THEN len ELSE ResidentLimit

(* register_managed_mmap_region; it may also fail to open or size the       *)
(* backing file, or to allocate its tables.                                 *)
Registered(b, r) ==
    /\ FreeSlots # {}
    /\ reg' = [reg EXCEPT ![FirstFree] = [NoRegion EXCEPT !.active = TRUE, !.base = b,
                                             !.len = r.len, !.limit = Limit(r.len)]]

(* The kernel maps where nothing is mapped, also where something was before. *)
KernelPicks(b) == calls < MaxMaps /\ maps[b] = Unmapped

(* mmap: the call goes through as it is, or with PROT_NONE and then         *)
(* registers.                                                               *)
Mmap(r, b) ==
    /\ prog.pc = "run" /\ KernelPicks(b)
    /\ MappedAt(b, r)
    /\ IF Candidate(r) THEN Registered(b, r) ELSE UNCHANGED reg
    /\ UNCHANGED <<prog, ring, records>>

(* The registration fails: the mapping is removed again and the program     *)
(* gets ENOMEM (fail closed).                                               *)
MmapDenied(r, b) ==
    /\ prog.pc = "run" /\ KernelPicks(b) /\ Candidate(r)
    /\ calls' = calls + 1
    /\ UNCHANGED <<maps, mem, want, acc, reg, prog, ring, records>>

(* munmap is counted and passed on: the row of the mapping stays active. *)
Munmap(b) ==
    /\ prog.pc = "run" /\ maps[b] # Unmapped
    /\ maps' = [maps EXCEPT ![b] = Unmapped]
    /\ acc' = [acc EXCEPT ![b] = [i \in PageNo |-> FALSE]]
    /\ mem' = [mem EXCEPT ![b] = [i \in PageNo |-> 0]]
    /\ want' = [want EXCEPT ![b] = [i \in PageNo |-> 0]]
    /\ UNCHANGED <<reg, prog, calls, ring, records>>

-----------------------------------------------------------------------------
(* The program stores to a page it may access; otherwise it faults.  Reads  *)
(* of an accessible page are what the invariants look at.                   *)
Store(b, i, v) ==
    /\ prog.pc = "run" /\ i < maps[b].len /\ acc[b][i] /\ v # mem[b][i]
    /\ mem' = [mem EXCEPT ![b][i] = v]
    /\ want' = [want EXCEPT ![b][i] = v]
    /\ UNCHANGED <<maps, acc, reg, prog, calls, ring, records>>

(* find_managed_region_for_addr: the first active row that covers it.       *)
Covers(b, i) == {s \in Slots : reg[s].active /\ reg[s].base = b /\ i < reg[s].len}
Region(b, i) == CHOOSE s \in Covers(b, i) : \A t \in Covers(b, i) : s <= t

Fault(b, i) ==
    /\ prog.pc = "run" /\ i < maps[b].len /\ ~acc[b][i] /\ Covers(b, i) # {}
    /\ prog' = [pc |-> "fault", slot |-> Region(b, i), page |-> i]
    /\ UNCHANGED <<maps, mem, want, acc, reg, calls, ring, records>>

Row    == reg[prog.slot]
At     == Row.base
Full   == Row.count >= Row.limit
(* The clock: the first resident page from the hand on but the faulting one *)
Sweep  == {n \in 0..(2 * Row.len - 1) : LET i == (Row.hand + n) % Row.len
                                        IN i # prog.page /\ Row.res[i]}
FirstHit == CHOOSE n \in Sweep : \A m \in Sweep : n <= m
Victim == (Row.hand + FirstHit) % Row.len

(* The tracer reads the victim with process_vm_readv, which the program's     *)
(* own protection binds.                                                    *)
CanWriteOut == Full /\ Sweep # {} /\ acc[At][Victim]

(* Regression: a page is evicted without having been written out. *)
EvictWithoutWrite ==
    /\ prog.pc = "fault" /\ CanWriteOut
    /\ reg' = [reg EXCEPT ![prog.slot] = [Row EXCEPT
                   !.res[Victim] = FALSE, !.count = @ - 1, !.hand = (Victim + 1) % Row.len]]
    /\ acc' = [acc EXCEPT ![At][Victim] = FALSE]
    /\ UNCHANGED <<maps, mem, want, prog, calls, ring, records>>

(* evict_one_managed_trace_page: read the page, write it out, and take the  *)
(* access away; its bytes stay in the program's memory.                     *)
EvictOne ==
    /\ prog.pc = "fault" /\ CanWriteOut
    /\ reg' = [reg EXCEPT ![prog.slot] = [Row EXCEPT !.back[Victim] = mem[At][Victim],
                   !.res[Victim] = FALSE, !.count = @ - 1, !.hand = (Victim + 1) % Row.len]]
    /\ acc' = [acc EXCEPT ![At][Victim] = FALSE]
    /\ UNCHANGED <<maps, mem, want, prog, calls, ring, records>>

(* handle_managed_memory_fault: give the access back; a page that is not    *)
(* resident is then loaded from the backing file, or zeroed the first time. *)
PageIn ==
    /\ prog.pc = "fault" /\ ~Full
    /\ acc' = [acc EXCEPT ![At][prog.page] = TRUE]
    /\ IF Row.res[prog.page] THEN UNCHANGED <<mem, reg>>
       ELSE /\ mem' = [mem EXCEPT ![At][prog.page] = IF Row.ever[prog.page] THEN Row.back[prog.page] ELSE 0]
            /\ reg' = [reg EXCEPT ![prog.slot] = [Row EXCEPT !.res[prog.page] = TRUE,
                                                     !.ever[prog.page] = TRUE, !.count = @ + 1]]
    /\ prog' = Running
    /\ UNCHANGED <<maps, want, calls, ring, records>>

(* A step of the tracer fails: the signal is delivered, and its handler may  *)
(* let the program go on.  A victim may have been written out by then, and   *)
(* have lost its access while still in the table; or the faulting page may   *)
(* have got its access and not its bytes.                                    *)
FaultFails ==
    /\ prog.pc = "fault" /\ prog' = Running
    /\ \/ UNCHANGED <<acc, reg>>
       \/ /\ CanWriteOut
          /\ reg' = [reg EXCEPT ![prog.slot] = [Row EXCEPT !.back[Victim] = mem[At][Victim],
                                                            !.hand = (Victim + 1) % Row.len]]
          /\ acc' \in {acc, [acc EXCEPT ![At][Victim] = FALSE]}
       \/ /\ Full /\ Sweep # {} /\ UNCHANGED acc
          /\ reg' = [reg EXCEPT ![prog.slot].hand = (Victim + 1) % Row.len]
       \/ ~Full /\ ~Row.res[prog.page] /\ acc' = [acc EXCEPT ![At][prog.page] = TRUE] /\ UNCHANGED reg
    /\ UNCHANGED <<maps, mem, want, calls, ring, records>>

(* remove_tracee frees the regions of a tracee that ended. *)
Reap == /\ prog.pc # "reaped"
        /\ prog' = [prog EXCEPT !.pc = "reaped"]
        /\ reg' = [s \in Slots |-> NoRegion]
        /\ maps' = [b \in Bases |-> Unmapped]
        /\ acc' = [b \in Bases |-> [i \in PageNo |-> FALSE]]
        /\ UNCHANGED <<mem, want, calls, ring, records>>

-----------------------------------------------------------------------------
(* The telemetry ring *)

SizeOf(s) == FoldSeq(LAMBDA x, y : x + y, 0, s)

Fits(s, n)   == Len(s) + 1 <= MaxLines /\ SizeOf(s) + n <= MaxBytes
Suffix(s, k) == SubSeq(s, Len(s) - k + 1, Len(s))

(* Regression: the new line is not counted. *)
KeptWithoutRoom(s, n) == LET k == CHOOSE k \in 0..Len(s) :
                                      /\ k = 0 \/ Fits(Suffix(s, k), 0)
                                      /\ k = Len(s) \/ ~Fits(Suffix(s, k + 1), 0)
                         IN Suffix(s, k)

(* The lines kept: the newest for which there is room beside the new one.   *)
Kept(s, n) == LET k == CHOOSE k \in 0..Len(s) :
                           /\ k = 0 \/ Fits(Suffix(s, k), n)
                           /\ k = Len(s) \/ ~Fits(Suffix(s, k + 1), n)
              IN Suffix(s, k)

(* memory_telemetry_append_bounded_jsonl: the file is written anew beside   *)
(* the old one and renamed over it.  Too long a line is refused.            *)
AppendSample(n) ==
    /\ Len(records) < MaxRecords /\ n <= MaxLineBytes /\ n <= MaxBytes
    /\ ring' = Append(Kept(ring, n), n)
    /\ records' = Append(records, n)
    /\ UNCHANGED <<maps, mem, want, acc, reg, prog, calls>>

-----------------------------------------------------------------------------
PagerNext ==
    \/ \E r \in Requests, b \in Bases : Mmap(r, b) \/ MmapDenied(r, b)
    \/ \E b \in Bases : Munmap(b) \/ \E i \in PageNo : Fault(b, i) \/ \E v \in Value : Store(b, i, v)
    \/ EvictOne \/ PageIn \/ FaultFails \/ Reap
RingNext == \E n \in LineSizes : AppendSample(n)
PagerSpec == PagerInit /\ [][PagerNext \/ RingNext]_pvars

Doubled(b, i) == maps[b].managed /\ \E s, t \in Covers(b, i) : s # t
Resident(s) == {i \in PageNo : reg[s].res[i]}

(* Types of the mappings, the region table and the program; a region counts *)
(* its resident pages.                                                      *)
PagerTypeOK ==
    /\ maps \in [Bases -> [len : 0..MaxLen, managed : BOOLEAN]]
    /\ mem \in [Bases -> [PageNo -> Value]] /\ want \in [Bases -> [PageNo -> Value]]
    /\ acc \in [Bases -> [PageNo -> BOOLEAN]]
    /\ prog \in [pc : {"run", "fault", "reaped"}, slot : Slots \cup {0}, page : PageNo]
    /\ \A s \in Slots : reg[s].count = Cardinality(Resident(s)) /\ reg[s].hand \in PageNo
    /\ calls \in 0..MaxMaps

(* "it must not silently expose stale bytes": a page the program can access *)
(* has the bytes it stored there, however often it was evicted and whatever  *)
(* failed on the way; but for a page that two rows cover, its own and the    *)
(* row that munmap left of an earlier mapping at the address.                *)
MemoryIsFaithful ==
    prog.pc = "run" => \A b \in Bases : \A i \in 0..(maps[b].len - 1) :
        acc[b][i] /\ ~Doubled(b, i) => mem[b][i] = want[b][i]

(* The telemetry file holds the newest records, and no more of them than    *)
(* its bounds allow.                                                        *)
RingIsRecent ==
    /\ IsSuffix(ring, records)
    /\ Len(ring) <= MaxLines /\ SizeOf(ring) <= MaxBytes
    /\ records # <<>> => ring # <<>>

==============================================================================
