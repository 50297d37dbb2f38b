-------------------------- MODULE DirectPagerProofs --------------------------
(***************************************************************************)
(* The memory pager keeps the memory of the program, for any addresses,     *)
(* rows, mmap calls, limits and failures, and wherever the kernel maps, but *)
(* for the pages that two rows of the table cover; and the telemetry ring   *)
(* holds the newest records, for any sizes and bounds.                      *)
(***************************************************************************)
EXTENDS DirectPager, FiniteSetTheorems, WellFoundedInduction, TLAPS

TableRow == [active : BOOLEAN, base : Bases \cup {None}, len : Nat, limit : Int, count : Int,
             hand : Nat, res : [PageNo -> BOOLEAN], ever : [PageNo -> BOOLEAN], back : [PageNo -> Int]]

Types ==
    /\ maps \in [Bases -> [len : 0..MaxLen, managed : BOOLEAN]]
    /\ mem \in [Bases -> [PageNo -> Int]] /\ want \in [Bases -> [PageNo -> Int]]
    /\ acc \in [Bases -> [PageNo -> BOOLEAN]]
    /\ reg \in [Slots -> TableRow]

(* A page of a mapping that no stale row covers beside its own.             *)
Single(b, i) == i < maps[b].len /\ ~Doubled(b, i)

(* A page the program can access is right.                                  *)
AccessibleIsRight == \A b \in Bases, i \in PageNo :
    Single(b, i) /\ acc[b][i] => mem[b][i] = want[b][i]

(* What a row says of page i at b: the bytes stay in memory when the access   *)
(* is taken; a page that is neither resident nor accessible is also right in *)
(* the backing file, or still zero.                                         *)
PageIsKept(row, b, i) ==
    /\ mem[b][i] = want[b][i]
    /\ row.res[i] => row.ever[i]
    /\ ~row.res[i] /\ ~acc[b][i] => want[b][i] = IF row.ever[i] THEN row.back[i] ELSE 0

RowsAreRight == \A s \in Slots, b \in Bases, i \in PageNo :
    maps[b].managed /\ Single(b, i) /\ s \in Covers(b, i) => PageIsKept(reg[s], b, i)

(* The pager takes no access from a mapping that is not its own, whatever    *)
(* row munmap left at the address.                                          *)
OthersAreOpen == \A b \in Bases, i \in PageNo : i < maps[b].len /\ ~maps[b].managed => acc[b][i]

(* The page being handled belongs to a mapping of the pager's, and its row   *)
(* covers it.                                                               *)
FaultIsMapped == prog.pc = "fault" =>
    /\ prog.slot \in Slots /\ prog.page \in PageNo /\ At \in Bases
    /\ maps[At].managed /\ prog.slot \in Covers(At, prog.page) /\ ~acc[At][prog.page]

PagerInv == Types /\ AccessibleIsRight /\ RowsAreRight /\ OthersAreOpen /\ FaultIsMapped

-----------------------------------------------------------------------------
(* The bound on the pages of a mapping. *)
LEMMA MaxLenIsNat == MaxLen \in Nat /\ Unmapped \in [len : 0..MaxLen, managed : BOOLEAN]
BY PagerAssumption DEF MaxLen, Unmapped

(* A set of numbers that is not empty has a least member. *)
LEMMA LeastMember ==
    ASSUME NEW T, T \subseteq Nat, T # {}
    PROVE  \E x \in T : \A y \in T : x <= y
<1> DEFINE R == OpToRel(<, Nat)
<1>1. IsWellFoundedOn(R, Nat)
  BY NatLessThanWellFounded
<1>2. \A x, y \in Nat : x < y => <<x, y>> \in R
  BY DEF OpToRel
<1> HIDE DEF R
<1>3. PICK x \in T : \A y \in T : ~(<<y, x>> \in R)
  BY <1>1, WFMin
<1>4. \A y \in T : ~(y < x)
  BY <1>2, <1>3
<1>. QED BY <1>4

(* The clock stops at a page that is resident.                              *)
LEMMA VictimIsResident ==
    ASSUME Sweep # {}, Row \in TableRow
    PROVE  Row.res[Victim] /\ Victim # prog.page /\ Victim \in Nat /\ Row.len > 0 /\ Victim < Row.len
<1>1. Sweep \subseteq Nat
  BY DEF Sweep
<1>2. FirstHit \in Sweep
  BY <1>1, LeastMember DEF FirstHit
<1>3. Row.len \in Nat /\ Row.hand \in Nat
  BY DEF TableRow
<1>4. Row.len > 0 /\ FirstHit \in Nat
  BY <1>2, <1>3 DEF Sweep
<1>5. Victim \in Nat /\ Victim < Row.len
  BY <1>3, <1>4 DEF Victim
<1>. QED BY <1>2, <1>4, <1>5 DEF Sweep, Victim

(* alloc_managed_region_slot gives a row that is free.                      *)
LEMMA FirstFreeIsFree ==
    ASSUME FreeSlots # {}
    PROVE  FirstFree \in Slots /\ ~reg[FirstFree].active
<1>1. FreeSlots \subseteq Nat
  BY PagerAssumption DEF FreeSlots
<1>2. FirstFree \in FreeSlots
  BY <1>1, LeastMember DEF FirstFree
<1>. QED BY <1>2 DEF FreeSlots

(* find_managed_region_for_addr gives a row for the address.                *)
LEMMA RegionCovers == ASSUME NEW b, NEW i, Covers(b, i) # {} PROVE Region(b, i) \in Covers(b, i)
<1>1. Covers(b, i) \subseteq Nat
  BY PagerAssumption DEF Covers
<1>. QED BY <1>1, LeastMember DEF Region

(* The rows stand for the same pages as before. *)
LEMMA CoversSame ==
    ASSUME \A s \in Slots : /\ reg'[s].active = reg[s].active /\ reg'[s].base = reg[s].base
                            /\ reg'[s].len = reg[s].len
    PROVE  \A b, i : Covers(b, i)' = Covers(b, i)
BY DEF Covers

-----------------------------------------------------------------------------
(* The calls of the program *)

(* The pages at the other addresses are as they were. *)
LEMMA Elsewhere ==
    ASSUME PagerInv, NEW b \in Bases, NEW c \in Bases, c # b, NEW i \in PageNo,
           maps'[c] = maps[c], mem'[c] = mem[c], want'[c] = want[c], acc'[c] = acc[c],
           Covers(c, i)' = Covers(c, i),
           \A s \in Covers(c, i) : reg'[s] = reg[s]
    PROVE  /\ Single(c, i)' /\ acc'[c][i] => mem'[c][i] = want'[c][i]
           /\ i < maps'[c].len /\ ~maps'[c].managed => acc'[c][i]
           /\ \A s \in Slots : maps'[c].managed /\ Single(c, i)' /\ s \in Covers(c, i)' => PageIsKept(reg[s], c, i)'
<1>1. Single(c, i)' = Single(c, i)
  BY DEF Single, Doubled
<1>2. \A s \in Slots : maps[c].managed /\ Single(c, i) /\ s \in Covers(c, i) => PageIsKept(reg[s], c, i)
  BY DEF PagerInv, RowsAreRight
<1>3. \A s \in Slots : maps'[c].managed /\ Single(c, i)' /\ s \in Covers(c, i)' => PageIsKept(reg[s], c, i)'
  BY <1>1, <1>2 DEF PageIsKept
<1>. QED BY <1>1, <1>3 DEF PagerInv, AccessibleIsRight, OthersAreOpen

(* A mapping begins with pages of zeros; one that is taken over has a row of *)
(* its own, that stands alone or beside stale ones.                         *)
LEMMA MmapStep ==
    ASSUME PagerInv, NEW r \in Requests, NEW b \in Bases, Mmap(r, b)
    PROVE  PagerInv'
<1> USE DEF PagerInv
<1>1. prog.pc = "run" /\ prog' = prog
  BY DEF Mmap
<1>2. /\ maps' = [maps EXCEPT ![b] = [len |-> r.len, managed |-> Candidate(r)]]
      /\ mem' = [mem EXCEPT ![b] = [i \in PageNo |-> 0]]
      /\ want' = [want EXCEPT ![b] = [i \in PageNo |-> 0]]
      /\ acc' = [acc EXCEPT ![b] = [i \in PageNo |-> i < r.len /\ ~Candidate(r)]]
  BY DEF Mmap, MappedAt
<1>3. r.len \in Nat /\ r.len \in 0..MaxLen /\ Candidate(r) \in BOOLEAN
  BY PagerAssumption DEF Candidate
<1>4. /\ maps'[b].len = r.len /\ maps'[b].managed = Candidate(r)
      /\ mem'[b] = [i \in PageNo |-> 0] /\ want'[b] = [i \in PageNo |-> 0]
      /\ acc'[b] = [i \in PageNo |-> i < r.len /\ ~Candidate(r)]
      /\ \A c \in Bases : c # b => /\ maps'[c] = maps[c] /\ mem'[c] = mem[c]
                                   /\ want'[c] = want[c] /\ acc'[c] = acc[c]
  BY <1>2 DEF Types
<1>5. FaultIsMapped'
  BY <1>1 DEF FaultIsMapped
<1>6. /\ maps' \in [Bases -> [len : 0..MaxLen, managed : BOOLEAN]]
      /\ mem' \in [Bases -> [PageNo -> Int]] /\ want' \in [Bases -> [PageNo -> Int]]
  BY <1>2, <1>3 DEF Types
<1>7. acc' \in [Bases -> [PageNo -> BOOLEAN]]
  <2>1. [i \in PageNo |-> i < r.len /\ ~Candidate(r)] \in [PageNo -> BOOLEAN]
    OBVIOUS
  <2>. QED BY <1>2, <2>1 DEF Types
<1>8. CASE ~Candidate(r)
  <2>1. reg' = reg
    BY <1>8 DEF Mmap
  <2>2. \A c, i : Covers(c, i)' = Covers(c, i)
    BY <2>1 DEF Covers
  <2>3. \A c \in Bases, i \in PageNo : c # b =>
           /\ Single(c, i)' /\ acc'[c][i] => mem'[c][i] = want'[c][i]
           /\ i < maps'[c].len /\ ~maps'[c].managed => acc'[c][i]
           /\ \A s \in Slots : maps'[c].managed /\ Single(c, i)' /\ s \in Covers(c, i)' => PageIsKept(reg[s], c, i)'
    BY <1>4, <2>1, <2>2, Elsewhere
  <2>4. AccessibleIsRight'
    BY <1>4, <2>3 DEF AccessibleIsRight
  <2>5. RowsAreRight'
    BY <1>4, <1>8, <2>3 DEF RowsAreRight
  <2>6. OthersAreOpen'
    BY <1>4, <1>8, <2>3 DEF OthersAreOpen
  <2>7. Types'
    BY <1>6, <1>7, <2>1 DEF Types
  <2>. QED BY <1>5, <2>4, <2>5, <2>6, <2>7
<1>9. CASE Candidate(r)
  <2> DEFINE f == FirstFree
             x == [NoRegion EXCEPT !.active = TRUE, !.base = b, !.len = r.len, !.limit = Limit(r.len)]
  <2>1. f \in Slots /\ ~reg[f].active /\ reg' = [reg EXCEPT ![f] = x]
    BY <1>9, FirstFreeIsFree DEF Mmap, Registered
  <2>2. Limit(r.len) \in Int
    BY <1>3, PagerAssumption DEF Limit
  <2>3. /\ x \in TableRow /\ x.active /\ x.base = b /\ x.len = r.len
        /\ \A i \in PageNo : ~x.res[i] /\ ~x.ever[i]
    <3>1. NoRegion \in TableRow /\ \A i \in PageNo : ~NoRegion.res[i] /\ ~NoRegion.ever[i]
      BY DEF NoRegion, TableRow
    <3>. QED BY <1>3, <2>2, <3>1 DEF TableRow
  <2> HIDE DEF f, x
  <2>4. /\ reg' \in [Slots -> TableRow] /\ reg'[f] = x
        /\ \A s \in Slots : s # f => reg'[s] = reg[s]
    <3>1. reg \in [Slots -> TableRow]
      BY DEF Types
    <3>. QED BY <2>1, <2>3, <3>1
  <2>5. ASSUME NEW c \in Bases, NEW i \in PageNo, c # b
        PROVE  Covers(c, i)' = Covers(c, i) /\ \A s \in Covers(c, i) : reg'[s] = reg[s]
    <3>1. f \notin Covers(c, i) /\ f \notin Covers(c, i)'
      BY <2>1, <2>3, <2>4, <2>5 DEF Covers
    <3>. QED BY <2>4, <3>1 DEF Covers
  <2>6. \A c \in Bases, i \in PageNo : c # b =>
           /\ Single(c, i)' /\ acc'[c][i] => mem'[c][i] = want'[c][i]
           /\ i < maps'[c].len /\ ~maps'[c].managed => acc'[c][i]
           /\ \A s \in Slots : maps'[c].managed /\ Single(c, i)' /\ s \in Covers(c, i)' => PageIsKept(reg[s], c, i)'
    BY <1>4, <2>5, Elsewhere
  <2>7. AccessibleIsRight'
    BY <1>4, <2>6 DEF AccessibleIsRight
  <2>8. OthersAreOpen'
    BY <1>4, <1>9, <2>6 DEF OthersAreOpen
  <2>9. ASSUME NEW s \in Slots, NEW i \in PageNo, Single(b, i)', s \in Covers(b, i)'
        PROVE  PageIsKept(reg[s], b, i)'
    <3>1. f \in Covers(b, i)'
      BY <1>4, <2>1, <2>3, <2>4, <2>9 DEF Covers, Single
    <3>2. s = f
      BY <1>4, <1>9, <2>9, <3>1 DEF Single, Doubled
    <3>. QED BY <1>4, <2>3, <2>4, <3>2 DEF PageIsKept
  <2>10. RowsAreRight'
    BY <2>6, <2>9 DEF RowsAreRight
  <2>11. Types'
    BY <1>6, <1>7, <2>4 DEF Types
  <2>. QED BY <1>5, <2>7, <2>8, <2>10, <2>11
<1>. QED BY <1>8, <1>9

(* The row that munmap leaves speaks of no mapping of the pager's. *)
LEMMA MunmapStep == ASSUME PagerInv, NEW b \in Bases, Munmap(b) PROVE PagerInv'
<1> USE DEF PagerInv
<1>1. /\ prog.pc = "run" /\ reg' = reg /\ prog' = prog
      /\ maps' = [maps EXCEPT ![b] = Unmapped]
      /\ acc' = [acc EXCEPT ![b] = [i \in PageNo |-> FALSE]]
      /\ mem' = [mem EXCEPT ![b] = [i \in PageNo |-> 0]]
      /\ want' = [want EXCEPT ![b] = [i \in PageNo |-> 0]]
  BY DEF Munmap
<1>2. /\ maps'[b].len = 0 /\ ~maps'[b].managed
      /\ \A c \in Bases : c # b => /\ maps'[c] = maps[c] /\ mem'[c] = mem[c]
                                   /\ want'[c] = want[c] /\ acc'[c] = acc[c]
  BY <1>1 DEF Types, Unmapped
<1>3. Types'
  BY <1>1, MaxLenIsNat DEF Types
<1>4. \A c, i : Covers(c, i)' = Covers(c, i)
  BY <1>1 DEF Covers
<1>5. \A c \in Bases, i \in PageNo : c # b =>
         /\ Single(c, i)' /\ acc'[c][i] => mem'[c][i] = want'[c][i]
         /\ i < maps'[c].len /\ ~maps'[c].managed => acc'[c][i]
         /\ \A s \in Slots : maps'[c].managed /\ Single(c, i)' /\ s \in Covers(c, i)' => PageIsKept(reg[s], c, i)'
  BY <1>1, <1>2, <1>4, Elsewhere
<1>6. \A i \in PageNo : ~(i < maps'[b].len)
  BY <1>2 DEF PageNo
<1>7. AccessibleIsRight' /\ OthersAreOpen' /\ RowsAreRight'
  BY <1>2, <1>5, <1>6 DEF AccessibleIsRight, OthersAreOpen, RowsAreRight, Single
<1>8. FaultIsMapped'
  BY <1>1 DEF FaultIsMapped
<1>. QED BY <1>3, <1>7, <1>8

(* A program stores only where it has access. *)
LEMMA StoreStep ==
    ASSUME PagerInv, NEW b \in Bases, NEW i \in PageNo, NEW v \in Value, Store(b, i, v)
    PROVE  PagerInv'
<1> USE DEF PagerInv
<1>1. /\ prog.pc = "run" /\ acc[b][i] /\ UNCHANGED <<maps, acc, reg, prog>>
      /\ mem' = [mem EXCEPT ![b][i] = v] /\ want' = [want EXCEPT ![b][i] = v]
  BY DEF Store
<1>2. v \in Int
  BY DEF Value
<1>3. /\ mem'[b][i] = v /\ want'[b][i] = v
      /\ \A c \in Bases, j \in PageNo : c # b \/ j # i => mem'[c][j] = mem[c][j] /\ want'[c][j] = want[c][j]
  BY <1>1 DEF Types
<1>4. Types'
  BY <1>1, <1>2 DEF Types
<1>5. \A c, j : Single(c, j)' = Single(c, j) /\ Covers(c, j)' = Covers(c, j)
  BY <1>1 DEF Covers, Doubled, Single
<1>6. AccessibleIsRight'
  BY <1>1, <1>3, <1>5 DEF AccessibleIsRight
<1>7. OthersAreOpen' /\ FaultIsMapped'
  BY <1>1 DEF OthersAreOpen, FaultIsMapped
<1>8. RowsAreRight'
  <2> SUFFICES ASSUME NEW s \in Slots, NEW c \in Bases, NEW j \in PageNo,
                      maps[c].managed, Single(c, j), s \in Covers(c, j)
               PROVE  PageIsKept(reg[s], c, j)'
    BY <1>1, <1>5 DEF RowsAreRight
  <2>1. PageIsKept(reg[s], c, j)
    BY DEF RowsAreRight
  <2>2. CASE c = b /\ j = i
    BY <1>1, <1>3, <2>1, <2>2 DEF PageIsKept
  <2>3. CASE c # b \/ j # i
    BY <1>1, <1>3, <2>1, <2>3 DEF PageIsKept
  <2>. QED BY <2>2, <2>3
<1>. QED BY <1>4, <1>6, <1>7, <1>8

-----------------------------------------------------------------------------
(* The fault *)

(* A step that moves the program only. *)
LEMMA ProgMoves ==
    ASSUME PagerInv, UNCHANGED <<maps, mem, want, acc, reg>>, FaultIsMapped'
    PROVE  PagerInv'
<1> USE DEF PagerInv
<1>1. Types'
  BY DEF Types
<1>2. \A c, j : Single(c, j)' = Single(c, j) /\ Covers(c, j)' = Covers(c, j)
  BY DEF Covers, Doubled, Single
<1>3. AccessibleIsRight' /\ OthersAreOpen'
  BY <1>2 DEF AccessibleIsRight, OthersAreOpen
<1>4. RowsAreRight'
  BY <1>2 DEF RowsAreRight, PageIsKept
<1>. QED BY <1>1, <1>3, <1>4

(* A fault finds a row of its address, its own or a stale one, and only in a *)
(* mapping of the pager's.                                                  *)
LEMMA FaultStep == ASSUME PagerInv, NEW b \in Bases, NEW i \in PageNo, Fault(b, i) PROVE PagerInv'
<1> USE DEF PagerInv
<1>1. /\ i < maps[b].len /\ ~acc[b][i] /\ Covers(b, i) # {} /\ UNCHANGED <<maps, mem, want, acc, reg>>
      /\ prog' = [pc |-> "fault", slot |-> Region(b, i), page |-> i]
  BY DEF Fault
<1>2. maps[b].managed
  BY <1>1 DEF OthersAreOpen
<1>3. /\ Region(b, i) \in Covers(b, i) /\ Region(b, i) \in Slots
      /\ reg[Region(b, i)].base = b
  BY <1>1, RegionCovers DEF Covers
<1>4. At' = b /\ prog'.slot = Region(b, i) /\ prog'.page = i
  BY <1>1, <1>3 DEF At, Row
<1>5. Covers(b, i)' = Covers(b, i)
  BY <1>1 DEF Covers
<1>6. FaultIsMapped'
  BY <1>1, <1>2, <1>3, <1>4, <1>5 DEF FaultIsMapped
<1>. QED BY <1>1, <1>6, ProgMoves

(* The row of a fault.                                                      *)
LEMMA FaultRow ==
    ASSUME PagerInv, prog.pc = "fault"
    PROVE  /\ prog.slot \in Slots /\ prog.page \in PageNo /\ Row = reg[prog.slot]
           /\ Row \in TableRow /\ Row.active /\ Row.base = At
           /\ At \in Bases /\ maps[At].managed /\ prog.page < Row.len /\ ~acc[At][prog.page]
BY DEF PagerInv, FaultIsMapped, Types, Row, At, Covers

(* A page that the row of the fault stands for is as the row says, or two    *)
(* rows stand for it.                                                       *)
LEMMA FaultPage ==
    ASSUME PagerInv, prog.pc = "fault", NEW i \in PageNo, i < Row.len, Single(At, i)
    PROVE  PageIsKept(Row, At, i)
<1>1. prog.slot \in Covers(At, i)
  BY FaultRow DEF Covers
<1>. QED BY <1>1, FaultRow DEF PagerInv, RowsAreRight, Row

(* A step that changes one page at the address of the fault, and what the    *)
(* row of the fault says of it.                                             *)
LEMMA RowStep ==
    ASSUME PagerInv, prog.pc = "fault", prog' = prog \/ prog'.pc # "fault",
           UNCHANGED <<maps, want>>,
           reg' \in [Slots -> TableRow],
           acc' \in [Bases -> [PageNo -> BOOLEAN]], mem' \in [Bases -> [PageNo -> Int]],
           \A s \in Slots : /\ reg'[s].active = reg[s].active /\ reg'[s].base = reg[s].base
                            /\ reg'[s].len = reg[s].len
                            /\ s # prog.slot => reg'[s] = reg[s],
           \A b \in Bases : b # At => acc'[b] = acc[b] /\ mem'[b] = mem[b],
           NEW p \in Nat, p < Row.len,
           \A i \in PageNo : i # p => /\ acc'[At][i] = acc[At][i] /\ mem'[At][i] = mem[At][i]
                                      /\ reg'[prog.slot].res[i] = Row.res[i]
                                      /\ reg'[prog.slot].ever[i] = Row.ever[i]
                                      /\ reg'[prog.slot].back[i] = Row.back[i],
           prog' = prog => ~acc'[At][prog.page],
           p \in PageNo /\ Single(At, p) /\ acc'[At][p] => mem'[At][p] = want[At][p],
           \A s \in Slots, b \in Bases, i \in PageNo :
               s = prog.slot /\ b = At /\ i = p /\ Single(b, i) => PageIsKept(reg[s], b, i)'
    PROVE  PagerInv'
<1> USE DEF PagerInv
<1>1. Types'
  BY DEF Types
<1>2. \A c, j : Covers(c, j)' = Covers(c, j)
  BY CoversSame
<1>3. \A c, j : Single(c, j)' = Single(c, j)
  BY <1>2 DEF Single, Doubled
<1>4. /\ prog.slot \in Slots /\ prog.page \in PageNo /\ At \in Bases /\ Row.base = At /\ Row.active
      /\ maps[At].managed /\ Row = reg[prog.slot]
  BY FaultRow
<1>5. FaultIsMapped'
  <2> SUFFICES ASSUME prog'.pc = "fault" PROVE FaultIsMapped'
    BY DEF FaultIsMapped
  <2>1. prog' = prog /\ At' = At
    BY <1>4 DEF At, Row
  <2>. QED BY <1>2, <2>1 DEF FaultIsMapped
<1>6. AccessibleIsRight'
  <2> SUFFICES ASSUME NEW c \in Bases, NEW j \in PageNo, Single(c, j), acc'[c][j]
               PROVE  mem'[c][j] = want[c][j]
    BY <1>3 DEF AccessibleIsRight
  <2>1. CASE c = At /\ j = p
    BY <2>1
  <2>2. CASE c # At \/ j # p
    BY <2>2 DEF AccessibleIsRight
  <2>. QED BY <2>1, <2>2
<1>7. OthersAreOpen'
  <2> SUFFICES ASSUME NEW c \in Bases, NEW j \in PageNo, j < maps[c].len, ~maps[c].managed
               PROVE  acc'[c][j]
    BY DEF OthersAreOpen
  <2>1. c # At
    BY <1>4
  <2>. QED BY <2>1 DEF OthersAreOpen
<1>8. RowsAreRight'
  <2> SUFFICES ASSUME NEW s \in Slots, NEW c \in Bases, NEW j \in PageNo,
                      maps[c].managed, Single(c, j), s \in Covers(c, j)
               PROVE  PageIsKept(reg[s], c, j)'
    BY <1>2, <1>3 DEF RowsAreRight
  <2>1. PageIsKept(reg[s], c, j)
    BY DEF RowsAreRight
  <2>2. CASE c # At
    <3>1. s # prog.slot
      BY <1>4, <2>2 DEF Covers
    <3>. QED BY <2>1, <2>2, <3>1 DEF PageIsKept
  <2>3. CASE c = At /\ j # p
    <3>1. reg'[s].res[j] = reg[s].res[j] /\ reg'[s].ever[j] = reg[s].ever[j] /\ reg'[s].back[j] = reg[s].back[j]
      BY <1>4, <2>3
    <3>. QED BY <2>1, <2>3, <3>1 DEF PageIsKept
  <2>4. CASE c = At /\ j = p
    <3>1. prog.slot \in Covers(c, j)
      BY <1>4, <2>4 DEF Covers
    <3>2. s = prog.slot
      BY <3>1 DEF Single, Doubled
    <3>. QED BY <2>4, <3>2
  <2>. QED BY <2>2, <2>3, <2>4
<1>. QED BY <1>1, <1>5, <1>6, <1>7, <1>8

(* The evicted page was resident, so that what is written out is right.      *)
LEMMA EvictStep == PagerInv /\ EvictOne => PagerInv'
<1> SUFFICES ASSUME PagerInv, EvictOne PROVE PagerInv'
  OBVIOUS
<1> DEFINE v == Victim
           a == At
           bk == [Row.back EXCEPT ![v] = mem[a][v]]
           rs == [Row.res EXCEPT ![v] = FALSE]
           x == [Row EXCEPT !.back = bk, !.res = rs, !.count = @ - 1, !.hand = (v + 1) % Row.len]
<1>1. /\ prog.pc = "fault" /\ UNCHANGED <<maps, mem, want, prog>>
      /\ acc' = [acc EXCEPT ![a][v] = FALSE] /\ reg' = [reg EXCEPT ![prog.slot] = x]
      /\ Sweep # {}
  BY DEF EvictOne, CanWriteOut
<1>2. /\ Row \in TableRow /\ Row.active /\ Row.base = a /\ a \in Bases /\ maps[a].managed
      /\ prog.slot \in Slots /\ Row = reg[prog.slot] /\ ~acc[a][prog.page] /\ prog.page \in PageNo
  BY <1>1, FaultRow
<1>3. Row.res[v] /\ v \in Nat /\ Row.len > 0 /\ v < Row.len
  BY <1>1, <1>2, VictimIsResident
<1>4. Types
  BY DEF PagerInv
<1>5. v \in PageNo /\ Single(a, v) => PageIsKept(Row, a, v)
  BY <1>1, <1>3, FaultPage
<1> HIDE DEF v, a
<1>6. bk \in [PageNo -> Int] /\ rs \in [PageNo -> BOOLEAN]
  <2>1. mem[a] \in [PageNo -> Int]
    BY <1>2, <1>4 DEF Types
  <2>2. Row.back \in [PageNo -> Int] /\ Row.res \in [PageNo -> BOOLEAN]
    BY <1>2 DEF TableRow
  <2>3. v \in PageNo => mem[a][v] \in Int
    BY <2>1
  <2>. QED BY <2>2, <2>3
<1>7. (v + 1) % Row.len \in Nat /\ Row.count - 1 \in Int
  BY <1>2, <1>3 DEF TableRow
<1>8. \A i \in PageNo : /\ i = v => ~rs[i] /\ bk[i] = mem[a][i]
                        /\ i # v => rs[i] = Row.res[i] /\ bk[i] = Row.back[i]
  BY <1>2 DEF TableRow
<1> HIDE DEF bk, rs
<1>9. /\ x \in TableRow /\ x.active = Row.active /\ x.base = a /\ x.len = Row.len
      /\ x.res = rs /\ x.back = bk /\ x.ever = Row.ever
  BY <1>2, <1>6, <1>7 DEF TableRow
<1> HIDE DEF x
<1>10. /\ reg' \in [Slots -> TableRow] /\ reg'[prog.slot] = x
       /\ \A s \in Slots : s # prog.slot => reg'[s] = reg[s]
  BY <1>1, <1>2, <1>4, <1>9 DEF Types
<1>11. \A s \in Slots : reg'[s].active = reg[s].active /\ reg'[s].base = reg[s].base /\ reg'[s].len = reg[s].len
  BY <1>2, <1>9, <1>10
<1>12. /\ acc' \in [Bases -> [PageNo -> BOOLEAN]] /\ mem' \in [Bases -> [PageNo -> Int]]
       /\ \A b \in Bases : b # a => acc'[b] = acc[b] /\ mem'[b] = mem[b]
       /\ \A i \in PageNo : ~acc'[a][i] \/ (i # v /\ acc'[a][i] = acc[a][i])
       /\ \A i \in PageNo : i # v => acc'[a][i] = acc[a][i] /\ mem'[a][i] = mem[a][i]
  BY <1>1, <1>2, <1>4 DEF Types
<1>13. v \in PageNo => ~acc'[a][v]
  BY <1>12
<1>14. \A s \in Slots, b \in Bases, i \in PageNo :
          s = prog.slot /\ b = a /\ i = v /\ Single(b, i) => PageIsKept(reg[s], b, i)'
  <2> SUFFICES ASSUME v \in PageNo, Single(a, v)
               PROVE  /\ mem'[a][v] = want'[a][v] /\ (x.res[v] => x.ever[v])
                      /\ ~x.res[v] /\ ~acc'[a][v] => want'[a][v] = IF x.ever[v] THEN x.back[v] ELSE 0
    BY <1>10 DEF PageIsKept
  <2>1. Row.ever[v] /\ mem[a][v] = want[a][v]
    BY <1>3, <1>5 DEF PageIsKept
  <2>. QED BY <1>1, <1>8, <1>9, <2>1
<1>15. ~acc'[a][prog.page]
  BY <1>2, <1>12
<1>16. \A i \in PageNo : i # v => /\ reg'[prog.slot].res[i] = Row.res[i] /\ reg'[prog.slot].ever[i] = Row.ever[i]
                                  /\ reg'[prog.slot].back[i] = Row.back[i]
  BY <1>8, <1>9, <1>10
<1>17. v \in PageNo /\ Single(a, v) /\ acc'[a][v] => mem'[a][v] = want[a][v]
  BY <1>13
<1>18. /\ prog.pc = "fault" /\ v \in Nat /\ v < Row.len
       /\ prog' = prog \/ prog'.pc # "fault"
       /\ UNCHANGED <<maps, want>>
       /\ \A i \in PageNo : i # v => acc'[a][i] = acc[a][i] /\ mem'[a][i] = mem[a][i]
  BY <1>1, <1>3, <1>12
<1>19. /\ reg' \in [Slots -> TableRow] /\ acc' \in [Bases -> [PageNo -> BOOLEAN]]
       /\ mem' \in [Bases -> [PageNo -> Int]]
       /\ \A s \in Slots : s # prog.slot => reg'[s] = reg[s]
       /\ \A b \in Bases : b # a => acc'[b] = acc[b] /\ mem'[b] = mem[b]
  BY <1>10, <1>12
<1> USE DEF a
<1> HIDE DEF v
<1>. QED BY <1>11, <1>14, <1>15, <1>16, <1>17, <1>18, <1>19, RowStep

(* The page that is loaded was not resident: the backing file has it, or it  *)
(* is still zero.                                                           *)
LEMMA PageInStep == PagerInv /\ PageIn => PagerInv'
<1> SUFFICES ASSUME PagerInv, PageIn PROVE PagerInv'
  OBVIOUS
<1> DEFINE v == prog.page
           a == At
           y == IF Row.ever[v] THEN Row.back[v] ELSE 0
           rs == [Row.res EXCEPT ![v] = TRUE]
           ev == [Row.ever EXCEPT ![v] = TRUE]
           x == [Row EXCEPT !.res = rs, !.ever = ev, !.count = @ + 1]
<1>1. /\ prog.pc = "fault" /\ UNCHANGED <<maps, want>> /\ prog'.pc # "fault"
      /\ acc' = [acc EXCEPT ![a][v] = TRUE]
      /\ IF Row.res[v] THEN UNCHANGED <<mem, reg>>
         ELSE mem' = [mem EXCEPT ![a][v] = y] /\ reg' = [reg EXCEPT ![prog.slot] = x]
  BY DEF PageIn, Running
<1>2. /\ Row \in TableRow /\ Row.active /\ Row.base = a /\ a \in Bases /\ maps[a].managed
      /\ prog.slot \in Slots /\ Row = reg[prog.slot] /\ v \in PageNo /\ v < Row.len /\ ~acc[a][v]
  BY <1>1, FaultRow
<1>3. Types /\ v \in Nat
  BY <1>2 DEF PagerInv, PageNo
<1>4. Single(a, v) => PageIsKept(Row, a, v)
  BY <1>1, <1>2, FaultPage
<1> HIDE DEF v, a
<1>5. /\ acc' \in [Bases -> [PageNo -> BOOLEAN]]
      /\ \A b \in Bases : b # a => acc'[b] = acc[b]
      /\ \A i \in PageNo : i # v => acc'[a][i] = acc[a][i]
      /\ acc'[a][v]
  BY <1>1, <1>2, <1>3 DEF Types
<1>6. prog' # prog
  BY <1>1
<1>7. CASE Row.res[v]
  <2>1. UNCHANGED <<mem, reg>>
    BY <1>1, <1>7
  <2>2. Single(a, v) => mem[a][v] = want[a][v]
    BY <1>4 DEF PageIsKept
  <2>3. \A s \in Slots, b \in Bases, i \in PageNo :
           s = prog.slot /\ b = a /\ i = v /\ Single(b, i) => PageIsKept(reg[s], b, i)'
    BY <1>1, <1>2, <1>4, <1>7, <2>1, <2>2 DEF PageIsKept
  <2>4. reg' \in [Slots -> TableRow] /\ mem' \in [Bases -> [PageNo -> Int]]
    BY <1>3, <2>1 DEF Types
  <2> USE DEF a
  <2>. QED BY <1>1, <1>2, <1>3, <1>5, <1>6, <2>1, <2>2, <2>3, <2>4, RowStep
<1>8. CASE ~Row.res[v]
  <2>1. mem' = [mem EXCEPT ![a][v] = y] /\ reg' = [reg EXCEPT ![prog.slot] = x]
    BY <1>1, <1>8
  <2>2. y \in Int /\ (Single(a, v) => want[a][v] = y)
    BY <1>2, <1>4, <1>8 DEF PageIsKept, TableRow
  <2>3. /\ rs \in [PageNo -> BOOLEAN] /\ ev \in [PageNo -> BOOLEAN]
        /\ rs[v] /\ ev[v]
        /\ \A i \in PageNo : i # v => rs[i] = Row.res[i] /\ ev[i] = Row.ever[i]
    <3>1. Row.res \in [PageNo -> BOOLEAN] /\ Row.ever \in [PageNo -> BOOLEAN]
      BY <1>2 DEF TableRow
    <3>. QED BY <1>2, <3>1
  <2> HIDE DEF rs, ev, y
  <2>4. /\ x \in TableRow /\ x.active = Row.active /\ x.base = a /\ x.len = Row.len
        /\ x.res = rs /\ x.ever = ev /\ x.back = Row.back
    <3>1. Row.count + 1 \in Int /\ rs \in [PageNo -> BOOLEAN] /\ ev \in [PageNo -> BOOLEAN]
      BY <1>2, <2>3 DEF TableRow
    <3>. QED BY <1>2, <3>1 DEF TableRow
  <2> HIDE DEF x
  <2>5. /\ reg' \in [Slots -> TableRow] /\ reg'[prog.slot] = x
        /\ \A s \in Slots : s # prog.slot => reg'[s] = reg[s]
    BY <1>2, <1>3, <2>1, <2>4 DEF Types
  <2>6. \A s \in Slots : reg'[s].active = reg[s].active /\ reg'[s].base = reg[s].base /\ reg'[s].len = reg[s].len
    BY <1>2, <2>4, <2>5
  <2>7. /\ mem' \in [Bases -> [PageNo -> Int]] /\ mem'[a][v] = y
        /\ \A b \in Bases : b # a => mem'[b] = mem[b]
        /\ \A i \in PageNo : i # v => mem'[a][i] = mem[a][i]
    BY <1>2, <1>3, <2>1, <2>2 DEF Types
  <2>8. \A s \in Slots, b \in Bases, i \in PageNo :
           s = prog.slot /\ b = a /\ i = v /\ Single(b, i) => PageIsKept(reg[s], b, i)'
    BY <1>1, <2>2, <2>3, <2>4, <2>5, <2>7 DEF PageIsKept
  <2>9. \A i \in PageNo : i # v => /\ reg'[prog.slot].res[i] = Row.res[i] /\ reg'[prog.slot].ever[i] = Row.ever[i]
                                   /\ reg'[prog.slot].back[i] = Row.back[i]
    BY <2>3, <2>4, <2>5
  <2>10. v \in PageNo /\ Single(a, v) /\ acc'[a][v] => mem'[a][v] = want[a][v]
    BY <2>2, <2>7
  <2>11. /\ prog.pc = "fault" /\ v \in Nat /\ v < Row.len /\ prog'.pc # "fault" /\ prog' # prog
         /\ UNCHANGED <<maps, want>>
         /\ \A i \in PageNo : i # v => acc'[a][i] = acc[a][i] /\ mem'[a][i] = mem[a][i]
    BY <1>1, <1>2, <1>3, <1>5, <1>6, <2>7
  <2>12. /\ reg' \in [Slots -> TableRow] /\ acc' \in [Bases -> [PageNo -> BOOLEAN]]
         /\ mem' \in [Bases -> [PageNo -> Int]]
         /\ \A s \in Slots : s # prog.slot => reg'[s] = reg[s]
         /\ \A b \in Bases : b # a => acc'[b] = acc[b] /\ mem'[b] = mem[b]
    BY <1>5, <2>5, <2>7
  <2> USE DEF a
  <2> HIDE DEF v
  <2>. QED BY <2>6, <2>8, <2>9, <2>10, <2>11, <2>12, RowStep
<1>. QED BY <1>7, <1>8

(* What a failure leaves is as good: a page that was written out is still    *)
(* resident, and one that got its access without its bytes had them.        *)
LEMMA FailStep == PagerInv /\ FaultFails => PagerInv'
<1> SUFFICES ASSUME PagerInv, FaultFails PROVE PagerInv'
  OBVIOUS
<1> DEFINE v == Victim
           a == At
           bk == [Row.back EXCEPT ![v] = mem[a][v]]
           h == (v + 1) % Row.len
           x == [Row EXCEPT !.back = bk, !.hand = h]
           z == [Row EXCEPT !.hand = h]
<1>1. /\ prog.pc = "fault" /\ prog' = Running /\ UNCHANGED <<maps, mem, want>>
      /\ \/ UNCHANGED <<acc, reg>>
         \/ /\ Sweep # {} /\ reg' = [reg EXCEPT ![prog.slot] = x]
            /\ acc' = acc \/ acc' = [acc EXCEPT ![a][v] = FALSE]
         \/ Sweep # {} /\ acc' = acc /\ reg' = [reg EXCEPT ![prog.slot].hand = h]
         \/ acc' = [acc EXCEPT ![a][prog.page] = TRUE] /\ reg' = reg
  BY DEF FaultFails, CanWriteOut
<1>2. prog' # prog /\ prog'.pc # "fault"
  BY <1>1 DEF Running
<1>3. /\ Row \in TableRow /\ Row.active /\ Row.base = a /\ a \in Bases /\ maps[a].managed
      /\ prog.slot \in Slots /\ Row = reg[prog.slot]
      /\ prog.page \in PageNo /\ prog.page \in Nat /\ prog.page < Row.len
  BY <1>1, FaultRow DEF PageNo
<1>4. Types
  BY DEF PagerInv
<1>5. mem' \in [Bases -> [PageNo -> Int]]
  BY <1>1, <1>4 DEF Types
<1>6. CASE UNCHANGED <<acc, reg>>
  <2>1. FaultIsMapped'
    BY <1>2 DEF FaultIsMapped
  <2>. QED BY <1>1, <1>6, <2>1, ProgMoves
<1>7. CASE acc' = [acc EXCEPT ![a][prog.page] = TRUE] /\ reg' = reg
  <2> DEFINE p == prog.page
  <2>1. Single(a, p) => PageIsKept(Row, a, p)
    BY <1>1, <1>3, FaultPage
  <2> HIDE DEF p, a
  <2>2. /\ acc' \in [Bases -> [PageNo -> BOOLEAN]] /\ acc'[a][p]
        /\ \A b \in Bases : b # a => acc'[b] = acc[b]
        /\ \A i \in PageNo : i # p => acc'[a][i] = acc[a][i]
    BY <1>3, <1>4, <1>7 DEF Types, p
  <2>3. \A s \in Slots, b \in Bases, i \in PageNo :
           s = prog.slot /\ b = a /\ i = p /\ Single(b, i) => PageIsKept(reg[s], b, i)'
    BY <1>1, <1>3, <1>7, <2>1, <2>2 DEF PageIsKept
  <2>4. Single(a, p) => mem[a][p] = want[a][p]
    BY <2>1 DEF PageIsKept
  <2>5. reg' \in [Slots -> TableRow]
    BY <1>4, <1>7 DEF Types
  <2>6. p \in Nat /\ p < Row.len
    BY <1>3 DEF p
  <2> USE DEF a
  <2>. QED BY <1>1, <1>2, <1>3, <1>5, <1>7, <2>2, <2>3, <2>4, <2>5, <2>6, RowStep
<1>8. ASSUME Sweep # {}, NEW w \in TableRow, reg' = [reg EXCEPT ![prog.slot] = w],
             w.active = Row.active, w.base = Row.base, w.len = Row.len, w.res = Row.res, w.ever = Row.ever,
             \A i \in PageNo : i # v => w.back[i] = Row.back[i],
             acc' = acc \/ (acc' = [acc EXCEPT ![a][v] = FALSE])
      PROVE  PagerInv'
  <2>1. Row.res[v] /\ v \in Nat /\ Row.len > 0 /\ v < Row.len
    BY <1>3, <1>8, VictimIsResident
  <2>2. v \in PageNo /\ Single(a, v) => PageIsKept(Row, a, v)
    BY <1>1, <2>1, FaultPage
  <2> HIDE DEF v, a
  <2>3. /\ reg' \in [Slots -> TableRow] /\ reg'[prog.slot] = w
        /\ \A s \in Slots : s # prog.slot => reg'[s] = reg[s]
    BY <1>3, <1>4, <1>8 DEF Types
  <2>4. \A s \in Slots : reg'[s].active = reg[s].active /\ reg'[s].base = reg[s].base /\ reg'[s].len = reg[s].len
    BY <1>3, <1>8, <2>3
  <2>5. /\ acc' \in [Bases -> [PageNo -> BOOLEAN]]
        /\ \A b \in Bases : b # a => acc'[b] = acc[b]
        /\ \A i \in PageNo : i # v => acc'[a][i] = acc[a][i]
    <3>1. acc \in [Bases -> [PageNo -> BOOLEAN]]
      BY <1>4 DEF Types
    <3>2. CASE acc' = acc
      BY <3>1, <3>2
    <3>3. CASE acc' = [acc EXCEPT ![a][v] = FALSE]
      BY <1>3, <3>1, <3>3
    <3>. QED BY <1>8, <3>2, <3>3
  <2>6. \A s \in Slots, b \in Bases, i \in PageNo :
           s = prog.slot /\ b = a /\ i = v /\ Single(b, i) => PageIsKept(reg[s], b, i)'
    BY <1>1, <1>8, <2>1, <2>2, <2>3 DEF PageIsKept
  <2>7. v \in PageNo /\ Single(a, v) => mem[a][v] = want[a][v]
    BY <2>2 DEF PageIsKept
  <2>8. \A i \in PageNo : i # v => /\ reg'[prog.slot].res[i] = Row.res[i] /\ reg'[prog.slot].ever[i] = Row.ever[i]
                                   /\ reg'[prog.slot].back[i] = Row.back[i]
    BY <1>8, <2>3
  <2>9. \A b \in Bases : b # a => mem'[b] = mem[b]
    BY <1>1
  <2> USE DEF a
  <2>. QED BY <1>1, <1>2, <1>5, <2>1, <2>3, <2>4, <2>5, <2>6, <2>7, <2>8, <2>9, RowStep
<1>9. Sweep # {} => h \in Nat
  <2> SUFFICES ASSUME Sweep # {} PROVE h \in Nat
    OBVIOUS
  <2>1. v \in Nat /\ Row.len > 0 /\ Row.len \in Nat
    BY <1>3, VictimIsResident DEF TableRow
  <2> HIDE DEF v
  <2>. QED BY <2>1
<1>10. bk \in [PageNo -> Int] /\ \A i \in PageNo : i # v => bk[i] = Row.back[i]
  <2> HIDE DEF v, a
  <2>1. mem[a] \in [PageNo -> Int] /\ Row.back \in [PageNo -> Int]
    BY <1>3, <1>4 DEF Types, TableRow
  <2>2. v \in PageNo => mem[a][v] \in Int
    BY <2>1
  <2>. QED BY <2>1, <2>2
<1>11. CASE Sweep # {} /\ reg' = [reg EXCEPT ![prog.slot] = x] /\ (acc' = acc \/ acc' = [acc EXCEPT ![a][v] = FALSE])
  <2> HIDE DEF bk, h, v, a
  <2>1. /\ x \in TableRow /\ x.active = Row.active /\ x.base = Row.base /\ x.len = Row.len
        /\ x.res = Row.res /\ x.ever = Row.ever /\ x.back = bk
    BY <1>3, <1>9, <1>10, <1>11 DEF TableRow
  <2> HIDE DEF x
  <2>. QED BY <1>8, <1>10, <1>11, <2>1
<1>12. CASE Sweep # {} /\ acc' = acc /\ reg' = [reg EXCEPT ![prog.slot].hand = h]
  <2> HIDE DEF h, v, a
  <2>1. /\ z \in TableRow /\ z.active = Row.active /\ z.base = Row.base /\ z.len = Row.len
        /\ z.res = Row.res /\ z.ever = Row.ever /\ z.back = Row.back
    BY <1>3, <1>9, <1>12 DEF TableRow
  <2>2. reg' = [reg EXCEPT ![prog.slot] = z]
    BY <1>3, <1>12
  <2> HIDE DEF z
  <2>. QED BY <1>8, <1>12, <2>1, <2>2
<1>. QED BY <1>1, <1>6, <1>7, <1>11, <1>12

(* The end of the program takes its mappings and rows. *)
LEMMA ReapStep == PagerInv /\ Reap => PagerInv'
<1> SUFFICES ASSUME PagerInv, Reap PROVE PagerInv'
  OBVIOUS
<1> USE DEF PagerInv
<1>1. /\ prog' = [prog EXCEPT !.pc = "reaped"] /\ reg' = [s \in Slots |-> NoRegion]
      /\ maps' = [b \in Bases |-> Unmapped] /\ acc' = [b \in Bases |-> [i \in PageNo |-> FALSE]]
      /\ UNCHANGED <<mem, want>>
  BY DEF Reap
<1>2. NoRegion \in TableRow /\ ~NoRegion.active
  BY DEF NoRegion, TableRow
<1>3. Types'
  <2>1. maps' \in [Bases -> [len : 0..MaxLen, managed : BOOLEAN]]
    BY <1>1, MaxLenIsNat
  <2>2. reg' \in [Slots -> TableRow]
    BY <1>1, <1>2
  <2>3. acc' \in [Bases -> [PageNo -> BOOLEAN]]
    BY <1>1
  <2>. QED BY <1>1, <2>1, <2>2, <2>3 DEF Types
<1>4. \A b \in Bases : maps'[b].len = 0 /\ ~maps'[b].managed
  BY <1>1 DEF Unmapped
<1>5. \A b \in Bases, i \in PageNo : ~(i < maps'[b].len)
  BY <1>4 DEF PageNo
<1>6. AccessibleIsRight' /\ RowsAreRight' /\ OthersAreOpen'
  BY <1>4, <1>5 DEF AccessibleIsRight, RowsAreRight, OthersAreOpen, Single
<1>7. prog'.pc # "fault"
  BY <1>1
<1>. QED BY <1>3, <1>6, <1>7 DEF FaultIsMapped

-----------------------------------------------------------------------------
(* The invariant *)

(* No mapping, no row. *)
LEMMA InitInv == PagerInit => PagerInv
<1> SUFFICES ASSUME PagerInit PROVE PagerInv
  OBVIOUS
<1> USE DEF PagerInit
<1>1. NoRegion \in TableRow /\ ~NoRegion.active
  BY DEF NoRegion, TableRow
<1>2. maps \in [Bases -> [len : 0..MaxLen, managed : BOOLEAN]]
  BY MaxLenIsNat
<1>3. Types
  BY <1>1, <1>2 DEF Types
<1>4. \A b \in Bases, i \in PageNo : maps[b].len = 0 /\ ~maps[b].managed /\ ~(i < maps[b].len)
  BY DEF Unmapped, PageNo
<1>5. AccessibleIsRight /\ RowsAreRight /\ OthersAreOpen
  BY <1>4 DEF AccessibleIsRight, RowsAreRight, OthersAreOpen, Single
<1>6. FaultIsMapped
  BY DEF FaultIsMapped, Running
<1>. QED BY <1>3, <1>5, <1>6 DEF PagerInv

(* One lemma per step; the telemetry ring shares nothing with the pager. *)
LEMMA StepInv == PagerInv /\ [PagerNext \/ RingNext]_pvars => PagerInv'
<1> SUFFICES ASSUME PagerInv, [PagerNext \/ RingNext]_pvars PROVE PagerInv'
  OBVIOUS
<1>1. ASSUME NEW r \in Requests, NEW b \in Bases, Mmap(r, b) PROVE PagerInv'
  BY <1>1, MmapStep
<1>2. ASSUME NEW r \in Requests, NEW b \in Bases, MmapDenied(r, b) PROVE PagerInv'
  <2>1. UNCHANGED <<maps, mem, want, acc, reg, prog>> /\ prog.pc = "run"
    BY <1>2 DEF MmapDenied
  <2>2. FaultIsMapped'
    BY <2>1 DEF FaultIsMapped
  <2>. QED BY <2>1, <2>2, ProgMoves
<1>3. ASSUME NEW b \in Bases, Munmap(b) PROVE PagerInv'
  BY <1>3, MunmapStep
<1>4. ASSUME NEW b \in Bases, NEW i \in PageNo, Fault(b, i) PROVE PagerInv'
  BY <1>4, FaultStep
<1>5. ASSUME NEW b \in Bases, NEW i \in PageNo, NEW v \in Value, Store(b, i, v) PROVE PagerInv'
  BY <1>5, StoreStep
<1>6. CASE EvictOne \/ PageIn \/ FaultFails \/ Reap
  BY <1>6, EvictStep, PageInStep, FailStep, ReapStep
<1>7. CASE RingNext \/ UNCHANGED pvars
  <2>1. UNCHANGED <<maps, mem, want, acc, reg, prog>>
    BY <1>7 DEF RingNext, AppendSample, pvars
  <2>2. FaultIsMapped'
    BY <2>1 DEF PagerInv, FaultIsMapped, Row, At, Covers
  <2>. QED BY <2>1, <2>2, ProgMoves
<1>. QED BY <1>1, <1>2, <1>3, <1>4, <1>5, <1>6, <1>7 DEF PagerNext

(* A page that the program can access has the bytes it stored there, or      *)
(* zero, however often evict_one_managed_trace_page and                      *)
(* handle_managed_memory_fault moved it, whatever of their steps failed and  *)
(* wherever the kernel mapped again what was unmapped, but for a page of the *)
(* pager's that also a row covers which munmap left at the address.          *)
THEOREM MemoryIsKept == PagerSpec => []MemoryIsFaithful
<1>1. PagerInv => MemoryIsFaithful
  <2> SUFFICES ASSUME PagerInv, NEW b \in Bases, NEW i \in 0..(maps[b].len - 1), acc[b][i], ~Doubled(b, i)
               PROVE  mem[b][i] = want[b][i]
    BY DEF MemoryIsFaithful
  <2>1. i \in PageNo /\ i < maps[b].len
    BY MaxLenIsNat DEF PagerInv, Types, PageNo
  <2>. QED BY <2>1 DEF PagerInv, AccessibleIsRight, Single
<1>2. PagerInit => PagerInv
  BY InitInv
<1>3. PagerInv /\ [PagerNext \/ RingNext]_pvars => PagerInv'
  BY StepInv
<1>. QED BY <1>1, <1>2, <1>3, PTL DEF PagerSpec

-----------------------------------------------------------------------------
(* The telemetry ring *)

(* A set of numbers with 0 that is closed under successor has them all. *)
LEMMA Induction ==
    ASSUME NEW T \in SUBSET Nat, 0 \in T, \A n \in T : n + 1 \in T
    PROVE  T = Nat
<1> DEFINE U == Nat \ T
<1>1. SUFFICES ASSUME U # {} PROVE FALSE
  OBVIOUS
<1>2. PICK x \in U : \A m \in U : x <= m
  BY <1>1, LeastMember
<1>3. x # 0 /\ x - 1 \in Nat /\ ~(x <= x - 1)
  BY <1>2
<1>4. x - 1 \in T
  BY <1>2, <1>3
<1>. QED BY <1>2, <1>3, <1>4

(* SizeOf adds the sizes of the lines one by one, in an order it chooses:    *)
(* Sums says that g[T] is the sum of the lines at the places T.              *)
Without(T, x) == T \ {x}
NextOf(T) == CHOOSE x \in T : TRUE
Sums(g, s) == g = [T \in SUBSET (DOMAIN s) |-> IF T = {} THEN 0 ELSE s[NextOf(T)] + g[T \ {NextOf(T)}]]

(* A set that is not empty has a member that comes next.                    *)
LEMMA NextIsMember == ASSUME NEW T, T # {} PROVE NextOf(T) \in T
BY DEF NextOf

(* A set without one of its members is smaller by one.                      *)
LEMMA OneLess ==
    ASSUME NEW T, IsFiniteSet(T), NEW x \in T
    PROVE  /\ IsFiniteSet(T \ {x}) /\ Cardinality(T) \in Nat
           /\ Cardinality(T \ {x}) \in Nat /\ Cardinality(T) = Cardinality(T \ {x}) + 1
<1>1. IsFiniteSet(T \ {x}) /\ Cardinality(T \ {x}) = Cardinality(T) - 1
  BY FS_RemoveElement
<1>2. Cardinality(T) \in Nat /\ Cardinality(T \ {x}) \in Nat
  BY <1>1, FS_CardinalityType
<1>. QED BY <1>1, <1>2

(* The places of a sequence are finitely many.                              *)
LEMMA PlacesFinite ==
    ASSUME NEW s \in Seq(Nat), NEW T \in SUBSET (DOMAIN s)
    PROVE  IsFiniteSet(T) /\ Cardinality(T) \in Nat
<1>1. DOMAIN s = 1..Len(s) /\ Len(s) \in Nat
  OBVIOUS
<1>2. IsFiniteSet(DOMAIN s)
  BY <1>1, FS_Interval
<1>3. IsFiniteSet(T)
  BY <1>2, FS_Subset
<1>. QED BY <1>3, FS_CardinalityType

(* Sums exist, and are numbers.                                             *)
LEMMA SumsExist ==
    ASSUME NEW s \in Seq(Nat)
    PROVE  \E g \in [SUBSET (DOMAIN s) -> Nat] : Sums(g, s)
<1> DEFINE D == DOMAIN s
           Few(n) == {T \in SUBSET D : Cardinality(T) <= n}
           Adds(g, n) == \A T \in Few(n) : g[T] = IF T = {} THEN 0 ELSE s[NextOf(T)] + g[T \ {NextOf(T)}]
           N == {n \in Nat : \E g \in [Few(n) -> Nat] : Adds(g, n)}
<1>1. 0 \in N
  <2> DEFINE g == [T \in Few(0) |-> 0]
  <2>1. ASSUME NEW T \in Few(0) PROVE T = {}
    <3>1. Cardinality(T) \in Nat /\ IsFiniteSet(T)
      BY PlacesFinite
    <3>2. Cardinality(T) = 0
      BY <3>1
    <3>. QED BY <3>1, <3>2, FS_EmptySet
  <2>2. g \in [Few(0) -> Nat] /\ Adds(g, 0)
    BY <2>1
  <2>. QED BY <2>2
<1>2. ASSUME NEW n \in N PROVE n + 1 \in N
  <2>1. PICK g \in [Few(n) -> Nat] : Adds(g, n)
    OBVIOUS
  <2>2. ASSUME NEW T \in Few(n + 1), T # {} PROVE T \ {NextOf(T)} \in Few(n) /\ s[NextOf(T)] \in Nat
    <3>1. NextOf(T) \in T /\ IsFiniteSet(T)
      BY <2>2, NextIsMember, PlacesFinite
    <3>2. Cardinality(T) = Cardinality(T \ {NextOf(T)}) + 1 /\ Cardinality(T \ {NextOf(T)}) \in Nat
      BY <3>1, OneLess
    <3>3. Cardinality(T \ {NextOf(T)}) <= n
      BY <3>2
    <3>4. NextOf(T) \in DOMAIN s
      BY <3>1
    <3>. QED BY <3>3, <3>4
  <2> DEFINE h == [T \in Few(n + 1) |-> IF T = {} THEN 0 ELSE s[NextOf(T)] + g[T \ {NextOf(T)}]]
  <2>3. h \in [Few(n + 1) -> Nat]
    <3> HIDE DEF Few
    <3>1. ASSUME NEW T \in Few(n + 1) PROVE (IF T = {} THEN 0 ELSE s[NextOf(T)] + g[T \ {NextOf(T)}]) \in Nat
      <4>1. CASE T = {} 
        BY <4>1
      <4>2. CASE T # {}
        <5>1. T \ {NextOf(T)} \in Few(n) /\ s[NextOf(T)] \in Nat
          BY <2>2, <4>2
        <5>2. g[T \ {NextOf(T)}] \in Nat
          BY <2>1, <5>1
        <5>. QED BY <4>2, <5>1, <5>2
      <4>. QED BY <4>1, <4>2
    <3>. QED BY <3>1
  <2>4. \A T \in Few(n) : T \in Few(n + 1) /\ h[T] = g[T]
    <3>1. \A T \in Few(n) : T \in Few(n + 1)
      BY PlacesFinite
    <3>2. \A T \in Few(n + 1) : h[T] = IF T = {} THEN 0 ELSE s[NextOf(T)] + g[T \ {NextOf(T)}]
      OBVIOUS
    <3> HIDE DEF Few, h
    <3>. QED BY <2>1, <3>1, <3>2
  <2>5. Adds(h, n + 1)
    <3>1. \A T \in Few(n + 1) : h[T] = IF T = {} THEN 0 ELSE s[NextOf(T)] + g[T \ {NextOf(T)}]
      OBVIOUS
    <3> HIDE DEF Few, h
    <3>2. ASSUME NEW T \in Few(n + 1), T # {} PROVE h[T] = s[NextOf(T)] + h[T \ {NextOf(T)}]
      <4>1. h[T] = s[NextOf(T)] + g[T \ {NextOf(T)}]
        BY <3>1, <3>2
      <4>2. h[T \ {NextOf(T)}] = g[T \ {NextOf(T)}]
        BY <2>2, <2>4, <3>2
      <4>. QED BY <4>1, <4>2
    <3>3. ASSUME NEW T \in Few(n + 1) PROVE h[T] = IF T = {} THEN 0 ELSE s[NextOf(T)] + h[T \ {NextOf(T)}]
      <4>1. CASE T = {}
        BY <3>1, <4>1
      <4>2. CASE T # {}
        BY <3>2, <4>2
      <4>. QED BY <4>1, <4>2
    <3>. QED BY <3>3
  <2>6. n + 1 \in Nat
    OBVIOUS
  <2> HIDE DEF Few, Adds, h
  <2>. QED BY <2>3, <2>5, <2>6
<1>3. N = Nat
  <2> HIDE DEF Few, Adds
  <2>. QED BY <1>1, <1>2, Induction
<1>4. Cardinality(D) \in Nat /\ IsFiniteSet(D)
  BY PlacesFinite
<1>5. Few(Cardinality(D)) = SUBSET D
  BY <1>4, FS_Subset
<1>6. PICK g \in [Few(Cardinality(D)) -> Nat] : Adds(g, Cardinality(D))
  <2> HIDE DEF Few, Adds
  <2>. QED BY <1>3, <1>4
<1>7. g \in [SUBSET D -> Nat]
  BY <1>5, <1>6
<1>8. \A T \in SUBSET D : g[T] = IF T = {} THEN 0 ELSE s[NextOf(T)] + g[T \ {NextOf(T)}]
  BY <1>5, <1>6
<1>9. g = [T \in SUBSET D |-> IF T = {} THEN 0 ELSE s[NextOf(T)] + g[T \ {NextOf(T)}]]
  BY <1>7, <1>8
<1>. QED BY <1>7, <1>9 DEF Sums

(* SizeOf is the sum of all lines.                                          *)
LEMMA SizeOfIs ==
    ASSUME NEW s \in Seq(Nat)
    PROVE  \E g : Sums(g, s) /\ SizeOf(s) = g[DOMAIN s]
<1>1. PICK g : Sums(g, s) /\ g = CHOOSE h : Sums(h, s)
  BY SumsExist
<1>2. SizeOf(s) = g[DOMAIN s]
  BY <1>1 DEF SizeOf, FoldSeq, FoldFunction, FoldFunctionOnSet, MapThenFoldSet, Sums, NextOf
<1>. QED BY <1>1, <1>2

(* Any of the lines may come first.                                         *)
LEMMA AnyFirst ==
    ASSUME NEW s \in Seq(Nat), NEW g, Sums(g, s), NEW V \in SUBSET (DOMAIN s)
    PROVE  g[V] \in Nat /\ \A x \in V : g[V] = s[x] + g[Without(V, x)]
<1> DEFINE D == DOMAIN s
           Good(T) == g[T] \in Nat /\ \A x \in T : g[T] = s[x] + g[T \ {x}]
           N == {n \in Nat : \A T \in SUBSET D : Cardinality(T) <= n => Good(T)}
<1>1. \A T \in SUBSET D : g[T] = IF T = {} THEN 0 ELSE s[NextOf(T)] + g[T \ {NextOf(T)}]
  BY DEF Sums
<1>2. g[{}] = 0 /\ Good({})
  <2>1. {} \in SUBSET D
    OBVIOUS
  <2>2. g[{}] = 0
    BY <1>1, <2>1
  <2>. QED BY <2>2
<1>3. \A x \in D : s[x] \in Nat
  OBVIOUS
<1>4. \A T \in SUBSET D : IsFiniteSet(T) /\ Cardinality(T) \in Nat
  BY PlacesFinite
<1>5. 0 \in N
  <2>1. \A T \in SUBSET D : Cardinality(T) <= 0 => T = {}
    BY <1>4, FS_EmptySet
  <2> HIDE DEF Good
  <2>. QED BY <1>2, <2>1
<1>6. ASSUME NEW n \in N PROVE n + 1 \in N
  <2> HIDE DEF Good
  <2>0. n + 1 \in Nat
    OBVIOUS
  <2>1. SUFFICES ASSUME NEW T \in SUBSET D, Cardinality(T) <= n + 1, T # {} PROVE Good(T)
    BY <1>2, <2>0
  <2>2. n \in Nat /\ \A S \in SUBSET D : Cardinality(S) <= n => Good(S)
    OBVIOUS
  <2> USE DEF Good
  <2> DEFINE p == NextOf(T)
  <2>3. T # {}
    <3>1. Cardinality({}) = 0
      BY FS_EmptySet
    <3>. QED BY <2>1, <3>1
  <2>4. p \in T /\ p \in D
    BY <2>1, NextIsMember
  <2>5. ASSUME NEW S \in SUBSET D, Cardinality(S) <= n + 1, NEW x \in S
        PROVE  S \ {x} \in SUBSET D /\ Cardinality(S \ {x}) <= n
    <3>1. Cardinality(S) = Cardinality(S \ {x}) + 1 /\ Cardinality(S \ {x}) \in Nat
      BY <1>4, OneLess
    <3>. QED BY <2>2, <2>5, <3>1
  <2>6. g[T] = s[p] + g[T \ {p}]
    BY <1>1, <2>1
  <2>7. \A x \in T : Good(T \ {x})
    <3> HIDE DEF Good
    <3>. QED BY <2>1, <2>2, <2>5
  <2>8. g[T] \in Nat
    <3>1. s[p] \in Nat
      BY <1>3, <2>4
    <3>2. Good(T \ {p})
      <4> HIDE DEF Good
      <4>. QED BY <2>4, <2>7
    <3>3. g[T \ {p}] \in Nat
      BY <3>2
    <3>. QED BY <2>6, <3>1, <3>3
  <2> HIDE DEF p
  <2>9. ASSUME NEW x \in T PROVE g[T] = s[x] + g[T \ {x}]
    <3>1. CASE x = p
      BY <2>6, <3>1
    <3>2. CASE x # p
      <4>1. x \in T \ {p} /\ p \in T \ {x}
        BY <2>4, <3>2
      <4>2. g[T \ {p}] = s[x] + g[(T \ {p}) \ {x}]
        BY <2>4, <2>7, <4>1
      <4>3. g[T \ {x}] = s[p] + g[(T \ {x}) \ {p}]
        BY <2>7, <4>1
      <4>4. (T \ {p}) \ {x} = (T \ {x}) \ {p}
        OBVIOUS
      <4>5. g[(T \ {p}) \ {x}] \in Nat
        <5>1. Cardinality(T \ {p}) <= n + 1 /\ T \ {p} \in SUBSET D
          <6>1. Cardinality(T \ {p}) <= n /\ Cardinality(T \ {p}) \in Nat
            BY <1>4, <2>1, <2>4, <2>5
          <6>. QED BY <2>2, <6>1
        <5>2. Cardinality((T \ {p}) \ {x}) <= n
          BY <2>5, <4>1, <5>1
        <5>3. Good((T \ {p}) \ {x})
          BY <2>2, <5>2
        <5>. QED BY <5>3
      <4>6. s[x] \in Nat /\ s[p] \in Nat
        BY <1>3, <2>4
      <4> DEFINE v == g[(T \ {p}) \ {x}]
      <4>7. g[T] = s[p] + (s[x] + v) /\ g[T \ {x}] = s[p] + v /\ v \in Nat
        BY <2>6, <4>2, <4>3, <4>4, <4>5
      <4> HIDE DEF v
      <4>. QED BY <4>6, <4>7
    <3>. QED BY <3>1, <3>2
  <2>. QED BY <2>8, <2>9
<1>7. N = Nat
  <2> HIDE DEF Good
  <2>. QED BY <1>5, <1>6, Induction
<1>8. \A T \in SUBSET D : Good(T)
  <2> HIDE DEF Good
  <2> SUFFICES ASSUME NEW T \in SUBSET D PROVE Good(T)
    OBVIOUS
  <2>1. Cardinality(T) \in N /\ Cardinality(T) <= Cardinality(T)
    BY <1>4, <1>7
  <2>. QED BY <2>1
<1>. QED BY <1>8 DEF Without

(* The same lines have the same sum.                                        *)
LEMMA SameSum ==
    ASSUME NEW s \in Seq(Nat), NEW t \in Seq(Nat), NEW f, NEW g, Sums(f, s), Sums(g, t),
           DOMAIN s \subseteq DOMAIN t, \A i \in DOMAIN s : t[i] = s[i]
    PROVE  \A T \in SUBSET (DOMAIN s) : g[T] = f[T]
<1> DEFINE D == DOMAIN s
           N == {n \in Nat : \A T \in SUBSET D : Cardinality(T) = n => g[T] = f[T]}
<1>1. /\ \A T \in SUBSET D : f[T] = IF T = {} THEN 0 ELSE s[NextOf(T)] + f[T \ {NextOf(T)}]
      /\ \A T \in SUBSET D : g[T] = IF T = {} THEN 0 ELSE t[NextOf(T)] + g[T \ {NextOf(T)}]
  BY DEF Sums
<1>2. \A T \in SUBSET D : IsFiniteSet(T) /\ Cardinality(T) \in Nat
  BY PlacesFinite
<1>3. 0 \in N
  <2>1. \A T \in SUBSET D : Cardinality(T) = 0 => T = {}
    BY <1>2, FS_EmptySet
  <2>. QED BY <1>1, <2>1
<1>4. ASSUME NEW n \in N PROVE n + 1 \in N
  <2>1. SUFFICES ASSUME NEW T \in SUBSET D, Cardinality(T) = n + 1 PROVE g[T] = f[T]
    OBVIOUS
  <2>2. T # {}
    <3>1. Cardinality({}) = 0 /\ n \in Nat
      BY FS_EmptySet
    <3>2. n + 1 # 0
      BY <3>1
    <3>. QED BY <2>1, <3>1, <3>2
  <2> DEFINE p == NextOf(T)
  <2>3. p \in T
    BY <2>2, NextIsMember
  <2>4. Cardinality(T \ {p}) = n
    <3>1. Cardinality(T) = Cardinality(T \ {p}) + 1 /\ Cardinality(T \ {p}) \in Nat
      BY <1>2, <2>3, OneLess
    <3>. QED BY <2>1, <3>1
  <2>5. g[T \ {p}] = f[T \ {p}]
    BY <2>4
  <2>6. f[T] = s[p] + f[T \ {p}] /\ g[T] = t[p] + g[T \ {p}]
    BY <1>1, <2>2
  <2>. QED BY <2>3, <2>5, <2>6
<1>5. N = Nat
  BY <1>3, <1>4, Induction
<1>. QED BY <1>2, <1>5

(* One more line adds its size.                                             *)
LEMMA SizeOfAppend ==
    ASSUME NEW s \in Seq(Nat), NEW n \in Nat
    PROVE  SizeOf(s) \in Nat /\ SizeOf(Append(s, n)) = SizeOf(s) + n
<1> DEFINE k == Len(s) + 1
<1>a. Append(s, n) \in Seq(Nat)
  OBVIOUS
<1>1. PICK t \in Seq(Nat) : t = Append(s, n)
  BY <1>a
<1>2. /\ k \in DOMAIN t /\ t[k] = n /\ (DOMAIN t) \ {k} = DOMAIN s
      /\ DOMAIN s \subseteq DOMAIN t /\ \A i \in DOMAIN s : t[i] = s[i]
  <2>1. Len(s) \in Nat /\ DOMAIN s = 1..Len(s) /\ DOMAIN t = 1..k
    BY <1>1
  <2>2. t[k] = n /\ \A i \in DOMAIN s : t[i] = s[i]
    BY <1>1
  <2>. QED BY <2>1, <2>2
<1> HIDE DEF k
<1>3. PICK f : Sums(f, s) /\ SizeOf(s) = f[DOMAIN s]
  BY SizeOfIs
<1>4. PICK g : Sums(g, t) /\ SizeOf(t) = g[DOMAIN t]
  BY SizeOfIs
<1>5. PICK V \in SUBSET (DOMAIN t) : V = DOMAIN t
  OBVIOUS
<1>6. g[DOMAIN t] = t[k] + g[(DOMAIN t) \ {k}]
  <2>1. k \in V
    BY <1>2, <1>5
  <2>2. \A x \in V : g[V] = t[x] + g[Without(V, x)]
    BY <1>4, AnyFirst
  <2>. QED BY <1>5, <2>1, <2>2 DEF Without
<1>7. g[DOMAIN s] = f[DOMAIN s]
  BY <1>2, <1>3, <1>4, SameSum
<1>8. f[DOMAIN s] \in Nat
  BY <1>3, AnyFirst
<1>. QED BY <1>1, <1>2, <1>3, <1>4, <1>6, <1>7, <1>8

(* No lines have no size.                                                   *)
LEMMA SizeOfNone == SizeOf(<<>>) = 0
<1>1. <<>> \in Seq(Nat) /\ DOMAIN <<>> = {}
  OBVIOUS
<1>2. PICK g : Sums(g, <<>>) /\ SizeOf(<<>>) = g[DOMAIN <<>>]
  BY <1>1, SizeOfIs
<1>3. g[{}] = 0
  BY <1>1, <1>2 DEF Sums
<1>. QED BY <1>1, <1>2, <1>3

-----------------------------------------------------------------------------
(* What IsSuffix says of the places of both sequences.                      *)
LEMMA SuffixPlaces ==
    ASSUME NEW s \in Seq(Nat), NEW t \in Seq(Nat)
    PROVE  IsSuffix(s, t) <=> /\ Len(s) <= Len(t)
                              /\ \A i \in 1..Len(s) : s[i] = t[Len(t) - Len(s) + i]
<1> DEFINE rs == Reverse(s)   rt == Reverse(t)   m == Len(s)   d == Len(t) - Len(s)
<1>1. /\ rs \in Seq(Nat) /\ Len(rs) = m /\ \A i \in 1..m : rs[i] = s[m - i + 1]
      /\ rt \in Seq(Nat) /\ Len(rt) = Len(t) /\ \A i \in 1..Len(t) : rt[i] = t[Len(t) - i + 1]
  BY DEF Reverse
<1>2. m \in Nat /\ Len(t) \in Nat
  OBVIOUS
<1> HIDE DEF rs, rt
<1>3. IsSuffix(s, t) <=> m <= Len(t) /\ SubSeq(rs, 1, m) = SubSeq(rt, 1, m)
  BY <1>1 DEF IsSuffix, IsPrefix, rs, rt
<1>4. m <= Len(t) => (SubSeq(rs, 1, m) = SubSeq(rt, 1, m) <=> \A i \in 1..m : rs[i] = rt[i])
  <2> SUFFICES ASSUME m <= Len(t) PROVE SubSeq(rs, 1, m) = SubSeq(rt, 1, m) <=> \A i \in 1..m : rs[i] = rt[i]
    OBVIOUS
  <2>1. SubSeq(rs, 1, m) = [i \in 1..m |-> rs[i]] /\ SubSeq(rt, 1, m) = [i \in 1..m |-> rt[i]]
    BY <1>1, <1>2
  <2>. QED BY <2>1
<1>5. m <= Len(t) => ((\A i \in 1..m : rs[i] = rt[i]) <=> \A i \in 1..m : s[i] = t[d + i])
  <2> SUFFICES ASSUME m <= Len(t) PROVE (\A i \in 1..m : rs[i] = rt[i]) <=> \A i \in 1..m : s[i] = t[d + i]
    OBVIOUS
  <2>1. \A i \in 1..m : /\ m - i + 1 \in 1..m /\ i \in 1..Len(t) /\ m - (m - i + 1) + 1 = i
                        /\ d + (m - i + 1) = Len(t) - i + 1 /\ Len(t) - (m - i + 1) + 1 = d + i
    BY <1>2
  <2>2. \A i \in 1..m : rs[i] = s[m - i + 1] /\ rt[i] = t[d + (m - i + 1)]
    BY <1>1, <2>1
  <2> HIDE DEF m, d
  <2>3. ASSUME \A i \in 1..m : rs[i] = rt[i], NEW j \in 1..m PROVE s[j] = t[d + j]
    <3>1. PICK i \in 1..m : i = m - j + 1 /\ m - i + 1 = j
      BY <2>1
    <3>. QED BY <2>2, <2>3, <3>1
  <2>4. ASSUME \A i \in 1..m : s[i] = t[d + i], NEW j \in 1..m PROVE rs[j] = rt[j]
    <3>1. PICK i \in 1..m : i = m - j + 1
      BY <2>1
    <3>. QED BY <2>2, <2>4, <3>1
  <2>. QED BY <2>3, <2>4
<1>. QED BY <1>3, <1>4, <1>5

(* A suffix of the lines is one of lines kept.                              *)
LEMMA SuffixForm ==
    ASSUME NEW s \in Seq(Nat), NEW k \in 0..Len(s)
    PROVE  /\ Suffix(s, k) \in Seq(Nat) /\ Len(Suffix(s, k)) = k
           /\ \A i \in 1..k : Suffix(s, k)[i] = s[Len(s) - k + i]
<1>1. Len(s) \in Nat /\ Len(s) - k + 1 \in Nat
  OBVIOUS
<1>2. k = 0 \/ (Len(s) - k + 1 \in 1..Len(s) /\ k >= 1)
  BY <1>1
<1>3. CASE k = 0
  BY <1>1, <1>3 DEF Suffix
<1>4. CASE k # 0
  <2>1. Len(s) - k + 1 \in 1..Len(s) /\ k >= 1 /\ Len(s) \in Nat /\ k \in Nat
    BY <1>1, <1>2, <1>4
  <2> DEFINE a == Len(s) - k + 1
  <2>2. SubSeq(s, a, Len(s)) \in Seq(Nat) /\ Len(SubSeq(s, a, Len(s))) = Len(s) - a + 1
    BY <2>1
  <2>3. \A i \in 1..(Len(s) - a + 1) : SubSeq(s, a, Len(s))[i] = s[a + i - 1]
    BY <2>1
  <2>4. Len(s) - a + 1 = k /\ \A i \in 1..k : a + i - 1 = Len(s) - k + i
    BY <2>1
  <2> HIDE DEF a
  <2>5. Suffix(s, k) = SubSeq(s, a, Len(s))
    BY DEF Suffix, a
  <2>. QED BY <2>2, <2>3, <2>4, <2>5
<1>. QED BY <1>3, <1>4

(* Kept is a suffix, and if it is not empty there is room beside it: of the  *)
(* numbers of lines that cannot be one more, the least is such a number.    *)
LEMMA KeptFits ==
    ASSUME NEW s \in Seq(Nat), NEW n \in Nat
    PROVE  \E k \in 0..Len(s) : Kept(s, n) = Suffix(s, k) /\ (k = 0 \/ Fits(Suffix(s, k), n))
<1> DEFINE Ok(k) == (k = 0 \/ Fits(Suffix(s, k), n)) /\ (k = Len(s) \/ ~Fits(Suffix(s, k + 1), n))
           M == {k \in 0..Len(s) : k = Len(s) \/ ~Fits(Suffix(s, k + 1), n)}
<1>1. \E k \in 0..Len(s) : Ok(k)
  <2>1. M \subseteq Nat /\ Len(s) \in M
    OBVIOUS
  <2>2. PICK k \in M : \A j \in M : k <= j
    BY <2>1, LeastMember
  <2>3. k = 0 \/ Fits(Suffix(s, k), n)
    <3>1. CASE k # 0
      <4>1. k \in Nat /\ Len(s) \in Nat /\ k <= Len(s)
        OBVIOUS
      <4>2. k - 1 \in 0..Len(s) /\ k - 1 # Len(s) /\ (k - 1) + 1 = k /\ ~(k <= k - 1)
        BY <3>1, <4>1
      <4>3. k - 1 \notin M
        BY <2>2, <4>2
      <4>. QED BY <4>2, <4>3
    <3>. QED BY <3>1
  <2>. QED BY <2>2, <2>3
<1>2. PICK k \in 0..Len(s) : k = CHOOSE j \in 0..Len(s) : Ok(j)
  BY <1>1
<1>3. Ok(k)
  BY <1>1, <1>2
<1>4. Kept(s, n) = Suffix(s, k)
  BY <1>2 DEF Kept
<1>. QED BY <1>3, <1>4

RingInv == ring \in Seq(Nat) /\ records \in Seq(Nat) /\ RingIsRecent

(* What is kept, with the new line, is recent and fits.                     *)
LEMMA RingStep ==
    ASSUME RingInv, NEW n \in LineSizes, AppendSample(n)
    PROVE  RingInv'
<1>1. /\ ring \in Seq(Nat) /\ records \in Seq(Nat) /\ n \in Nat /\ n <= MaxBytes /\ IsSuffix(ring, records)
      /\ ring' = Append(Kept(ring, n), n) /\ records' = Append(records, n)
      /\ MaxLines \in Nat /\ MaxLines >= 1 /\ MaxBytes \in Nat
  BY PagerAssumption DEF RingInv, RingIsRecent, AppendSample
<1>2. PICK k \in 0..Len(ring) : Kept(ring, n) = Suffix(ring, k) /\ (k = 0 \/ Fits(Suffix(ring, k), n))
  BY <1>1, KeptFits
<1>3. PICK s \in Seq(Nat) : s = Suffix(ring, k) /\ Len(s) = k /\ \A i \in 1..k : s[i] = ring[Len(ring) - k + i]
  BY <1>1, SuffixForm
<1>4. ring' = Append(s, n) /\ ring' \in Seq(Nat) /\ records' \in Seq(Nat) /\ Len(ring') = k + 1 /\ ring' # <<>>
  BY <1>1, <1>2, <1>3
<1>5. SizeOf(ring') = SizeOf(s) + n /\ SizeOf(s) \in Nat
  BY <1>1, <1>4, SizeOfAppend
<1>6. Len(ring') <= MaxLines /\ SizeOf(ring') <= MaxBytes
  <2>1. CASE k = 0
    <3>1. s = <<>>
      BY <1>3, <2>1
    <3>. QED BY <1>1, <1>4, <1>5, <2>1, <3>1, SizeOfNone
  <2>2. CASE Fits(Suffix(ring, k), n)
    BY <1>3, <1>4, <1>5, <2>2 DEF Fits
  <2>. QED BY <1>2, <2>1, <2>2
<1>7. IsSuffix(ring', records')
  <2>1. Len(ring) <= Len(records) /\ \A i \in 1..Len(ring) : ring[i] = records[Len(records) - Len(ring) + i]
    BY <1>1, SuffixPlaces
  <2>2. Len(ring) \in Nat /\ Len(records) \in Nat /\ Len(records') = Len(records) + 1 /\ k \in Nat /\ k <= Len(ring)
    BY <1>1
  <2>3. ASSUME NEW i \in 1..(k + 1) PROVE ring'[i] = records'[Len(records') - Len(ring') + i]
    <3>1. CASE i = k + 1
      BY <1>1, <1>3, <1>4, <2>2, <3>1
    <3>2. CASE i # k + 1
      <4>1. i \in 1..k /\ ring'[i] = s[i]
        BY <1>3, <1>4, <2>2, <3>2
      <4>0. i \in Nat /\ i >= 1 /\ i <= k
        BY <4>1, <2>2
      <4>2. PICK j \in 1..Len(ring) : j = Len(ring) - k + i
        <5>1. Len(ring) - k + i \in 1..Len(ring)
          BY <2>2, <4>0
        <5>. QED BY <5>1
      <4>3. s[i] = ring[j] /\ ring[j] = records[Len(records) - Len(ring) + j]
        BY <1>3, <2>1, <4>1, <4>2
      <4>4. Len(records) - Len(ring) + j = Len(records') - Len(ring') + i
        BY <1>4, <2>2, <4>0, <4>2
      <4>5. Len(records) - Len(ring) + j \in 1..Len(records)
        BY <2>1, <2>2, <4>2
      <4>6. \A m \in 1..Len(records) : records'[m] = records[m]
        BY <1>1
      <4>. QED BY <4>1, <4>3, <4>4, <4>5, <4>6
    <3>. QED BY <3>1, <3>2
  <2>4. PICK r \in Seq(Nat), q \in Seq(Nat) : r = ring' /\ q = records'
    BY <1>4
  <2>5. Len(r) <= Len(q) /\ \A i \in 1..Len(r) : r[i] = q[Len(q) - Len(r) + i]
    <3>1. Len(r) = k + 1 /\ Len(r) <= Len(q)
      BY <1>4, <2>1, <2>2, <2>4
    <3>2. ASSUME NEW i \in 1..Len(r) PROVE r[i] = q[Len(q) - Len(r) + i]
      BY <2>3, <2>4, <3>1, <3>2
    <3>. QED BY <3>1, <3>2
  <2>6. IsSuffix(r, q)
    BY <2>5, SuffixPlaces
  <2>. QED BY <2>4, <2>6
<1>. QED BY <1>4, <1>6, <1>7 DEF RingInv, RingIsRecent

(* However the records come, the telemetry file holds the newest of them,   *)
(* within both of its bounds, and the last one always.                      *)
THEOREM RingStaysRecent == PagerSpec => []RingIsRecent
<1>1. PagerInit => RingInv
  <2> SUFFICES ASSUME PagerInit PROVE RingInv
    OBVIOUS
  <2>1. ring = <<>> /\ records = <<>>
    BY DEF PagerInit
  <2>2. ring \in Seq(Nat) /\ records \in Seq(Nat) /\ Len(ring) = 0 /\ Len(records) = 0
    BY <2>1
  <2>3. Len(ring) <= Len(records) /\ \A i \in 1..Len(ring) : ring[i] = records[Len(records) - Len(ring) + i]
    BY <2>2
  <2>4. IsSuffix(ring, records)
    BY <2>2, <2>3, SuffixPlaces
  <2>. QED BY <2>1, <2>2, <2>4, SizeOfNone, PagerAssumption DEF RingInv, RingIsRecent
<1>2. RingInv /\ [PagerNext \/ RingNext]_pvars => RingInv'
  <2> SUFFICES ASSUME RingInv, [PagerNext \/ RingNext]_pvars PROVE RingInv'
    OBVIOUS
  <2>1. CASE RingNext
    BY <2>1, RingStep DEF RingNext
  <2>2. CASE PagerNext \/ UNCHANGED pvars
    <3>1. ring' = ring /\ records' = records
      BY <2>2 DEF PagerNext, pvars, Mmap, MmapDenied, Munmap, Fault, Store, EvictOne, PageIn, FaultFails, Reap
    <3>. QED BY <3>1 DEF RingInv, RingIsRecent
  <2>. QED BY <2>1, <2>2
<1>3. RingInv => RingIsRecent
  BY DEF RingInv
<1>. QED BY <1>1, <1>2, <1>3, PTL DEF PagerSpec

==============================================================================
