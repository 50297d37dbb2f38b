-------------------------- MODULE DirectTracerProofs --------------------------
(***************************************************************************)
(* The path caches and the mutations in flight of the direct executor, and  *)
(* what it returns, for any number of processes and rows, any bounds and any *)
(* order of stops and kills.                                                *)
(***************************************************************************)
EXTENDS DirectTracer, FiniteSetTheorems, TLAPS

TableRow == [pid : Pids \cup {NoPid}, uid : Identity, cwd : Identity, next : Identity \cup {NoPid},
             in : BOOLEAN, emulated : BOOLEAN, pending : BOOLEAN]

Types ==
    /\ st \in [Pids -> Alive \cup {"absent", "dead", "gone"}]
    /\ call \in [Pids -> Calls \cup {NoCall}]
    /\ kid \in [Pids -> Pids \cup {NoPid}]
    /\ own \in [Pids -> [uid : Identity, cwd : Identity]]
    /\ code \in [Pids -> Codes \cup {0, Signaled}]
    /\ budget \in [calls : Int, kills : Int] /\ budget.kills <= MaxKills
    /\ fs \in {0, 1}
    /\ tbl \in [Rows -> TableRow]
    /\ gen \in Nat \ {0}
    /\ cache \in [gen : Nat, val : {0, 1}]
    /\ full \in BOOLEAN
    /\ held = Nobody \/ held \in [pid : Pids, stop : Stops]

(* A process has one row.                                                   *)
Unique(t) == \A r, s \in Rows : t[r].pid = t[s].pid /\ t[r].pid # NoPid => r = s

(* The process the tracer holds is in the stop it reported, unless killed.   *)
HeldIsStopped == held # Nobody => st[held.pid] \in {held.stop, "dead"}

(* A process that the kernel works for has been entered, and a rename that   *)
(* is on its way is known.                                                  *)
InKernel == \A p \in Pids : st[p] = "kernel" =>
    /\ RowsOf(p) # {}
    /\ call[p] = "rename" => \A r \in RowsOf(p) : tbl[r].pending

(* A mutation in flight belongs to a process that will stop at the end of    *)
(* its call, or whose end will be reported.                                 *)
PendingIsInCall == \A r \in Pending :
    /\ tbl[r].pid \in Pids /\ tbl[r].in
    /\ st[tbl[r].pid] \in {"kernel", "leave", "dead", "gone"}
    /\ tbl[r].pid = held.pid => held.stop \in {"leave", "dead"}

(* A fork to be reported names the child.                                   *)
ForkHasKid == /\ \A p \in Pids : st[p] = "fork" => kid[p] \in Pids
              /\ held.stop = "fork" => kid[held.pid] \in Pids

(* While a mutation is in flight nothing cached is valid, and what is valid  *)
(* is true; the generations only grow, but for the wrap, which empties the   *)
(* caches.                                                                  *)
Closed == /\ cache.gen <= gen
          /\ cache.gen = gen => cache.val = fs
          /\ Pending # {} => cache.gen # gen

(* A process without a row waits for its parent's fork to be reported.       *)
Entered == ~full /\ budget.kills = MaxKills => \A p \in Pids :
    \/ st[p] \in {"absent", "gone"} \/ RowsOf(p) # {}
    \/ /\ st[p] = "birth"
       /\ \E q \in Pids : st[q] = "fork" /\ kid[q] = p /\ RowsOf(q) # {}

(* A process that died under the tracer's hands was killed.                 *)
VanishedIsKilled == Vanished => budget.kills < MaxKills

TableInv == /\ Types /\ Unique(tbl) /\ HeldIsStopped /\ InKernel
            /\ PendingIsInCall /\ ForkHasKid
IInv == TableInv /\ PendingIsCounted /\ Closed

EndInv == Entered /\ VanishedIsKilled /\ st[Root] # "absent"

TracerInv == IInv /\ EndInv /\ EndsWithLast

-----------------------------------------------------------------------------
(* The table *)

RowOf(t, p) == CHOOSE r \in Rows : Added(t, p)[r].pid = p

(* find_tracee or add_tracee: a process gets its own row or a free one, and  *)
(* the other rows are left alone.                                           *)
LEMMA AddedRow ==
    ASSUME NEW t \in [Rows -> TableRow], NEW p \in Pids, Unique(t),
           RowFor(t, p) # {} \/ \E r \in Rows : t[r].pid = NoPid
    PROVE  /\ Added(t, p) \in [Rows -> TableRow]
           /\ RowOf(t, p) \in Rows
           /\ Added(t, p)[RowOf(t, p)].pid = p
           /\ \A s \in Rows : s # RowOf(t, p) => Added(t, p)[s] = t[s] /\ t[s].pid # p
           /\ \/ Added(t, p) = t /\ t[RowOf(t, p)].pid = p
              \/ t[RowOf(t, p)].pid = NoPid /\ Added(t, p)[RowOf(t, p)] = NewRow(p)
           /\ Unique(Added(t, p))
<1> USE TracerAssumption
<1>1. CASE RowFor(t, p) # {}
  <2>1. Added(t, p) = t
    BY <1>1 DEF Added
  <2>2. \E r \in Rows : t[r].pid = p
    BY <1>1 DEF RowFor
  <2>3. RowOf(t, p) \in Rows /\ t[RowOf(t, p)].pid = p
    BY <2>1, <2>2 DEF RowOf
  <2>4. \A s \in Rows : s # RowOf(t, p) => t[s].pid # p
    BY <2>3 DEF Unique
  <2>. QED BY <2>1, <2>3, <2>4
<1>2. CASE RowFor(t, p) = {}
  <2> DEFINE f == CHOOSE r \in Rows : t[r].pid = NoPid
  <2>1. f \in Rows /\ t[f].pid = NoPid
    BY <1>2
  <2>2. Added(t, p) = [t EXCEPT ![f] = NewRow(p)]
    BY <1>2 DEF Added
  <2>3. NewRow(p) \in TableRow /\ NewRow(p).pid = p
    BY DEF NewRow, EmptyRow, TableRow, Identity
  <2>4. \A s \in Rows : t[s].pid # p
    BY <1>2 DEF RowFor
  <2>5. Added(t, p)[f] = NewRow(p) /\ \A s \in Rows : s # f => Added(t, p)[s] = t[s]
    BY <2>1, <2>2
  <2>6. RowOf(t, p) \in Rows /\ Added(t, p)[RowOf(t, p)].pid = p
    BY <2>1, <2>3, <2>5 DEF RowOf
  <2>7. RowOf(t, p) = f
    BY <2>4, <2>5, <2>6
  <2>8. Unique(Added(t, p))
    <3> DEFINE u == Added(t, p)
    <3>1. u[f].pid = p /\ \A s \in Rows : s # f => u[s].pid = t[s].pid
      BY <2>3, <2>5
    <3> HIDE DEF u, f
    <3>2. ASSUME NEW r \in Rows, NEW s \in Rows, u[r].pid = u[s].pid, u[r].pid # NoPid
          PROVE  r = s
      BY <2>1, <2>4, <3>1, <3>2 DEF Unique
    <3>. QED BY <3>2 DEF Unique, u
  <2>. QED BY <2>1, <2>2, <2>3, <2>4, <2>5, <2>7, <2>8
<1>. QED BY <1>1, <1>2

(* Row is the row of the process that is held.                              *)
LEMMA HeldRow ==
    ASSUME Types, Unique(tbl), held # Nobody, HasRoom
    PROVE  /\ This \in Pids /\ This # NoPid
           /\ Row = RowOf(tbl, This) /\ Row \in Rows
           /\ Added(tbl, This) \in [Rows -> TableRow]
           /\ Unique(Added(tbl, This))
           /\ Added(tbl, This)[Row].pid = This
           /\ \A s \in Rows : s # Row => Added(tbl, This)[s] = tbl[s] /\ tbl[s].pid # This
           /\ \/ Added(tbl, This) = tbl /\ tbl[Row].pid = This
              \/ tbl[Row].pid = NoPid /\ Added(tbl, This)[Row] = NewRow(This)
<1>1. This \in Pids /\ This # NoPid
  BY TracerAssumption DEF Types, This
<1>2. RowFor(tbl, This) # {} \/ \E r \in Rows : tbl[r].pid = NoPid
  BY DEF HasRoom, RowsOf, RowFor, FreeRows
<1>3. Row = RowOf(tbl, This)
  BY DEF Row, RowOf
<1>4. tbl \in [Rows -> TableRow]
  BY DEF Types
<1>. QED BY <1>1, <1>2, <1>3, <1>4, AddedRow

(* A mutation of the process that is held ends with its stop only.          *)
LEMMA HeldNotPending ==
    ASSUME TableInv, held # Nobody, HasRoom
    PROVE  tbl[Row].pending => held.stop \in {"leave", "dead"} /\ tbl[Row].pid = This
<1>1. Row \in Rows /\ (tbl[Row].pid = This \/ tbl[Row].pid = NoPid)
  BY HeldRow DEF TableInv
<1>2. tbl[Row].pending => tbl[Row].pid \in Pids
  BY <1>1 DEF TableInv, PendingIsInCall, Pending
<1>. QED BY <1>1, <1>2, TracerAssumption DEF TableInv, PendingIsInCall, Pending, This

(* A step that changes the row and the state of the held process only, and   *)
(* lets it go.                                                              *)
LEMMA RowStep ==
    ASSUME TableInv, held # Nobody, HasRoom,
           NEW x \in TableRow, x.pid = This \/ x.pid = NoPid,
           tbl' = [Added(tbl, This) EXCEPT ![Row] = x],
           NEW s, st' = [st EXCEPT ![This] = s], s # "fork", held' = Nobody,
           s = "kernel" => x.pid = This /\ (call'[This] = "rename" => x.pending),
           x.pending => x.in /\ x.pid = This /\ s \in {"kernel", "leave", "dead", "gone"},
           \A p \in Pids : p # This => call'[p] = call[p] /\ kid'[p] = kid[p]
    PROVE  /\ tbl' \in [Rows -> TableRow]
           /\ (Unique(tbl) /\ HeldIsStopped /\ InKernel /\ PendingIsInCall /\ ForkHasKid)'
<1>1. /\ This \in Pids /\ This # NoPid /\ Row \in Rows
      /\ Added(tbl, This) \in [Rows -> TableRow]
      /\ Unique(Added(tbl, This))
      /\ Added(tbl, This)[Row].pid = This
      /\ \A r \in Rows : r # Row => Added(tbl, This)[r] = tbl[r] /\ tbl[r].pid # This
      /\ tbl[Row].pid = This \/ tbl[Row].pid = NoPid
  BY HeldRow DEF TableInv
<1>2. tbl' \in [Rows -> TableRow]
  BY <1>1
<1>3. tbl'[Row] = x /\ \A r \in Rows : r # Row => tbl'[r] = tbl[r] /\ tbl[r].pid # This
  BY <1>1
<1>4. Unique(tbl)'
  <2>1. Unique(tbl)
    BY DEF TableInv
  <2>. QED BY <1>1, <1>3, <2>1 DEF Unique
<1>5. st \in [Pids -> Alive \cup {"absent", "dead", "gone"}]
  BY DEF TableInv, Types
<1>6. st'[This] = s /\ \A p \in Pids : p # This => st'[p] = st[p]
  BY <1>1, <1>5
<1>7. HeldIsStopped'
  BY DEF HeldIsStopped
<1>8. InKernel'
  <2> SUFFICES ASSUME NEW p \in Pids, st'[p] = "kernel"
               PROVE  /\ \E r \in Rows : tbl'[r].pid = p
                      /\ call'[p] = "rename" => \A r \in Rows : tbl'[r].pid = p => tbl'[r].pending
    BY DEF InKernel, RowsOf
  <2>1. CASE p = This
    BY <2>1, <1>1, <1>3, <1>6
  <2>2. CASE p # This
    <3>1. /\ \E r \in Rows : tbl[r].pid = p
          /\ call[p] = "rename" => \A r \in Rows : tbl[r].pid = p => tbl[r].pending
      BY <2>2, <1>6 DEF TableInv, InKernel, RowsOf
    <3>2. p # NoPid
      BY TracerAssumption
    <3>. QED BY <2>2, <3>1, <3>2, <1>1, <1>3
  <2>. QED BY <2>1, <2>2
<1>9. PendingIsInCall'
  <2> SUFFICES ASSUME NEW r \in Rows, tbl'[r].pending
               PROVE  /\ tbl'[r].pid \in Pids /\ tbl'[r].in
                      /\ st'[tbl'[r].pid] \in {"kernel", "leave", "dead", "gone"}
                      /\ tbl'[r].pid = held'.pid => held'.stop \in {"leave", "dead"}
    BY DEF PendingIsInCall, Pending
  <2>1. tbl'[r].pid \in Pids => tbl'[r].pid # held'.pid
    BY TracerAssumption DEF Nobody
  <2>2. CASE r = Row
    BY <2>2, <2>1, <1>1, <1>3, <1>6
  <2>3. CASE r # Row
    <3>1. tbl[r].pid \in Pids /\ tbl[r].in /\ st[tbl[r].pid] \in {"kernel", "leave", "dead", "gone"}
      BY <2>3, <1>3 DEF TableInv, PendingIsInCall, Pending
    <3>. QED BY <2>1, <2>3, <3>1, <1>3, <1>6
  <2>. QED BY <2>2, <2>3
<1>10. ForkHasKid'
  <2>1. held'.stop # "fork"
    BY DEF Nobody
  <2>2. ASSUME NEW p \in Pids, st'[p] = "fork" PROVE kid'[p] \in Pids
    BY <2>2, <1>6 DEF TableInv, ForkHasKid
  <2>. QED BY <2>1, <2>2 DEF ForkHasKid
<1>. QED BY <1>2, <1>4, <1>7, <1>8, <1>9, <1>10

(* One row changes, and the count of the mutations in flight goes with it.   *)
Flag(b) == IF b THEN 1 ELSE 0

(* The counter follows the number of pending rows when one row changes. *)
LEMMA Count ==
    ASSUME PendingIsCounted, tbl \in [Rows -> TableRow], tbl' \in [Rows -> TableRow],
           NEW r \in Rows,
           \A s \in Rows : s # r => tbl'[s].pending = tbl[s].pending,
           inflight' = inflight + Flag(tbl'[r].pending) - Flag(tbl[r].pending)
    PROVE  PendingIsCounted'
<1>1. IsFiniteSet(Pending)
  BY TracerAssumption, FS_Subset DEF Pending
<1>2. Cardinality(Pending) \in Nat
  BY <1>1, FS_CardinalityType
<1>3. tbl[r].pending \in BOOLEAN /\ tbl'[r].pending \in BOOLEAN
  BY DEF TableRow
<1>4. CASE tbl'[r].pending = tbl[r].pending
  <2>1. Pending' = Pending
    BY <1>4 DEF Pending
  <2>. QED BY <1>2, <1>3, <1>4, <2>1 DEF PendingIsCounted, Flag
<1>5. CASE tbl'[r].pending /\ ~tbl[r].pending
  <2>1. Pending' = Pending \cup {r} /\ r \notin Pending
    BY <1>5 DEF Pending
  <2>2. Cardinality(Pending') = Cardinality(Pending) + 1
    BY <1>1, <2>1, FS_AddElement
  <2>. QED BY <1>2, <1>5, <2>2 DEF PendingIsCounted, Flag
<1>6. CASE ~tbl'[r].pending /\ tbl[r].pending
  <2>1. Pending' = Pending \ {r} /\ r \in Pending
    BY <1>6 DEF Pending
  <2>2. Cardinality(Pending') = Cardinality(Pending) - 1
    BY <1>1, <2>1, FS_RemoveElement
  <2>. QED BY <1>2, <1>6, <2>2 DEF PendingIsCounted, Flag
<1>. QED BY <1>3, <1>4, <1>5, <1>6

(* No row is pending exactly when nothing is in flight.                     *)
LEMMA InFlight ==
    ASSUME PendingIsCounted
    PROVE  inflight \in Nat /\ (inflight > 0 <=> Pending # {})
<1>1. IsFiniteSet(Pending)
  BY TracerAssumption, FS_Subset DEF Pending
<1>. QED BY <1>1, FS_CardinalityType, FS_EmptySet DEF PendingIsCounted

(* The caches that Invalidate leaves are closed, whatever changes with it.   *)
LEMMA InvalidateCloses ==
    ASSUME Types, Closed, Invalidate
    PROVE  gen' \in Nat \ {0} /\ cache' \in [gen : Nat, val : {0, 1}] /\ cache'.gen < gen'
<1>1. gen \in Nat \ {0} /\ cache \in [gen : Nat, val : {0, 1}] /\ cache.gen <= gen
  BY DEF Types, Closed
<1>2. CASE (gen + 1) % Generations = 0
  BY <1>1, <1>2 DEF Invalidate, NextGen
<1>3. CASE (gen + 1) % Generations # 0
  BY <1>1, <1>3 DEF Invalidate, NextGen
<1>. QED BY <1>2, <1>3

(* Validate enters only what is true, and only while nothing is in flight.   *)
LEMMA ValidateIsTrue ==
    ASSUME Types, PendingIsCounted, Closed, Validate, fs' = fs
    PROVE  /\ gen' = gen /\ cache' \in [gen : Nat, val : {0, 1}] /\ cache'.gen <= gen
           /\ cache'.gen = gen => cache'.val = fs
           /\ Pending # {} => cache'.gen # gen
<1>1. inflight \in Nat /\ (inflight > 0 <=> Pending # {})
  BY InFlight
<1>. QED BY <1>1 DEF Types, Closed, Validate

-----------------------------------------------------------------------------
(* The handlers *)

(* The first stop of a child gives it a row and nothing else. *)
LEMMA BirthStep == IInv /\ HandleBirth => IInv'
<1> SUFFICES ASSUME IInv, HandleBirth PROVE IInv'
  OBVIOUS
<1> USE DEF IInv
<1> DEFINE x == Added(tbl, This)[Row]
           s == IF st[This] = "dead" THEN "dead" ELSE "run"
<1>1. held # Nobody /\ HasRoom /\ held.stop = "birth"
  BY DEF HandleBirth, Held, Nobody
<1>2. /\ This \in Pids /\ Row \in Rows /\ Added(tbl, This) \in [Rows -> TableRow] /\ x.pid = This
      /\ \A r \in Rows : r # Row => Added(tbl, This)[r] = tbl[r]
      /\ \/ Added(tbl, This) = tbl
         \/ x = NewRow(This)
  BY <1>1, HeldRow DEF TableInv
<1>3. ~tbl[Row].pending
  BY <1>1, HeldNotPending
<1>4. x \in TableRow /\ ~x.pending
  BY <1>2, <1>3 DEF NewRow, EmptyRow
<1>5. /\ tbl' = [Added(tbl, This) EXCEPT ![Row] = x] /\ st' = [st EXCEPT ![This] = s]
      /\ held' = Nobody /\ call' = call /\ kid' = kid
  BY <1>2 DEF HandleBirth, Continue
<1>6. /\ tbl' \in [Rows -> TableRow]
      /\ (Unique(tbl) /\ HeldIsStopped /\ InKernel /\ PendingIsInCall /\ ForkHasKid)'
  <2> HIDE DEF x
  <2>. QED BY <1>1, <1>2, <1>4, <1>5, RowStep
<1>7. /\ \A r \in Rows : r # Row => tbl'[r].pending = tbl[r].pending
      /\ ~tbl'[Row].pending
  BY <1>2, <1>4 DEF HandleBirth
<1>8. Types'
  BY <1>2, <1>5, <1>6 DEF TableInv, Types, HandleBirth, Continue, Alive
<1>9. PendingIsCounted'
  <2>1. tbl \in [Rows -> TableRow] /\ inflight \in Int
    BY InFlight DEF TableInv, Types
  <2>2. inflight' = inflight + Flag(tbl'[Row].pending) - Flag(tbl[Row].pending)
    BY <1>3, <1>7, <2>1 DEF HandleBirth, Flag
  <2>. QED BY <1>2, <1>6, <1>7, <2>1, <2>2, Count
<1>10. Closed'
  <2>1. Pending' = Pending
    BY <1>3, <1>7 DEF Pending
  <2>. QED BY <2>1 DEF Closed, HandleBirth
<1>. QED BY <1>6, <1>8, <1>9, <1>10 DEF TableInv

(* begin_path_cache_mutation: the caches are closed before the call.         *)
LEMMA EntryStep == IInv /\ HandleEntry => IInv'
<1> SUFFICES ASSUME IInv, HandleEntry PROVE IInv'
  OBVIOUS
<1> USE DEF IInv
<1> DEFINE c == call[This]
           t == Added(tbl, This)
           x == [t[Row] EXCEPT !.uid = IF c = "setuid" THEN 1 ELSE @,
                               !.next = IF c = "chdir" THEN 1 - own[This].cwd ELSE @,
                               !.emulated = Emulated(c),
                               !.pending = c = "rename",
                               !.in = ~Selective \/ Emulated(c) \/ c \in {"rename", "chdir"}]
           s == IF st[This] = "dead" THEN "dead" ELSE "kernel"
<1>1. held # Nobody /\ HasRoom /\ held.stop = "enter"
  BY DEF HandleEntry, Held, Nobody
<1>2. /\ This \in Pids /\ Row \in Rows /\ t \in [Rows -> TableRow] /\ t[Row].pid = This
      /\ \A r \in Rows : r # Row => t[r] = tbl[r]
  BY <1>1, HeldRow DEF TableInv
<1>3. ~tbl[Row].pending
  BY <1>1, HeldNotPending
<1>4. x \in TableRow /\ x.pid = This /\ x.pending = (c = "rename") /\ (c = "rename" => x.in)
  <2>1. own[This].cwd \in {0, 1}
    BY <1>2 DEF TableInv, Types, Identity
  <2>2. (IF c = "chdir" THEN 1 - own[This].cwd ELSE t[Row].next) \in Identity \cup {NoPid}
    BY <1>2, <2>1 DEF TableRow, Identity
  <2>3. (IF c = "setuid" THEN 1 ELSE t[Row].uid) \in Identity
    BY <1>2 DEF TableRow, Identity
  <2>4. Emulated(c) \in BOOLEAN /\ (~Selective \/ Emulated(c) \/ c \in {"rename", "chdir"}) \in BOOLEAN
    BY TracerAssumption DEF Emulated
  <2>5. t[Row] \in TableRow
    BY <1>2
  <2> HIDE DEF c, t
  <2>6. x.pid = t[Row].pid /\ x.pending = (c = "rename") /\ (c = "rename" => x.in)
    BY <2>5 DEF TableRow
  <2>7. x \in TableRow
    BY <2>2, <2>3, <2>4, <2>5 DEF TableRow
  <2>. QED BY <1>2, <2>6, <2>7 DEF t
<1>5. /\ tbl' = [t EXCEPT ![Row] = x] /\ st' = [st EXCEPT ![This] = s]
      /\ held' = Nobody /\ call' = call /\ kid' = kid
  BY <1>2 DEF HandleEntry, Continue
<1>6. /\ tbl' \in [Rows -> TableRow]
      /\ (Unique(tbl) /\ HeldIsStopped /\ InKernel /\ PendingIsInCall /\ ForkHasKid)'
  <2>1. x.pending => x.in /\ x.pid = This /\ s \in {"kernel", "leave", "dead", "gone"}
    BY <1>4
  <2> HIDE DEF x
  <2>. QED BY <1>1, <1>2, <1>4, <1>5, <2>1, RowStep
<1>7. /\ \A r \in Rows : r # Row => tbl'[r] = tbl[r]
      /\ tbl'[Row] = x /\ tbl'[Row].pending = (c = "rename")
  <2> HIDE DEF x, t
  <2>. QED BY <1>2, <1>4, <1>5
<1>8. PendingIsCounted'
  <2>1. tbl \in [Rows -> TableRow] /\ inflight \in Int
    BY InFlight DEF TableInv, Types
  <2>2. inflight' = inflight + Flag(tbl'[Row].pending) - Flag(tbl[Row].pending)
    <3>1. inflight' = IF c = "rename" THEN inflight + 1 ELSE inflight
      BY DEF HandleEntry
    <3>2. Flag(tbl[Row].pending) = 0 /\ Flag(tbl'[Row].pending) = IF c = "rename" THEN 1 ELSE 0
      BY <1>3, <1>7 DEF Flag
    <3>. QED BY <2>1, <3>1, <3>2
  <2>. QED BY <1>2, <1>6, <1>7, <2>1, <2>2, Count
<1>9. /\ gen' \in Nat \ {0} /\ cache' \in [gen : Nat, val : {0, 1}] /\ fs' \in {0, 1}
      /\ Closed'
  <2>1. Types /\ Closed /\ fs \in {0, 1} /\ gen \in Nat \ {0} /\ cache \in [gen : Nat, val : {0, 1}]
    BY DEF TableInv, Types
  <2>2. CASE Mutates(c)
    <3>1. Invalidate /\ fs' \in {0, 1}
      BY <2>1, <2>2 DEF HandleEntry, Mutates
    <3>. QED BY <2>1, <3>1, InvalidateCloses DEF Closed
  <2>3. CASE ~Mutates(c)
    <3>1. c # "rename" /\ fs' = fs
      BY <2>3 DEF HandleEntry, Mutates
    <3>2. Pending' = Pending
      BY <1>3, <1>7, <3>1 DEF Pending
    <3>3. CASE c # "stat"
      <4>1. UNCHANGED <<gen, cache>>
        BY <2>3, <3>3 DEF HandleEntry
      <4>. QED BY <2>1, <3>1, <3>2, <4>1 DEF Closed
    <3>4. CASE c = "stat"
      <4>1. Validate
        BY <2>3, <3>4 DEF HandleEntry, Mutates
      <4>. QED BY <2>1, <3>1, <3>2, <4>1, ValidateIsTrue DEF Closed
    <3>. QED BY <3>3, <3>4
  <2>. QED BY <2>2, <2>3
<1>10. Types'
  <2>1. own' \in [Pids -> [uid : Identity, cwd : Identity]]
    BY DEF HandleEntry, TableInv, Types, Identity
  <2>2. st' \in [Pids -> Alive \cup {"absent", "dead", "gone"}]
    BY <1>5 DEF TableInv, Types, Alive
  <2>. QED BY <1>5, <1>6, <1>9, <2>1, <2>2 DEF TableInv, Types, HandleEntry, Continue
<1>. QED BY <1>6, <1>8, <1>9, <1>10 DEF TableInv

(* The exit stop ends the mutation of its process and no other.              *)
LEMMA LeaveStep == IInv /\ HandleLeave => IInv'
<1> SUFFICES ASSUME IInv, HandleLeave PROVE IInv'
  OBVIOUS
<1> USE DEF IInv
<1> DEFINE t == Added(tbl, This)
           x == [t[Row] EXCEPT !.cwd = IF call[This] = "chdir" /\ t[Row].next # NoPid
                                       THEN t[Row].next ELSE @,
                               !.next = NoPid, !.emulated = FALSE, !.pending = FALSE, !.in = FALSE]
           s == IF st[This] = "dead" THEN "dead" ELSE "run"
<1>1. held # Nobody /\ HasRoom /\ held.stop = "leave"
  BY DEF HandleLeave, Held, Nobody
<1>2. /\ This \in Pids /\ Row \in Rows /\ t \in [Rows -> TableRow] /\ t[Row].pid = This
      /\ \A r \in Rows : r # Row => t[r] = tbl[r]
      /\ t[Row] = tbl[Row] \/ (tbl[Row].pid = NoPid /\ t[Row] = NewRow(This))
  BY <1>1, HeldRow DEF TableInv
<1>3. t[Row].pending = tbl[Row].pending
  <2>1. tbl[Row].pid = NoPid => ~tbl[Row].pending
    BY <1>1, <1>2, HeldNotPending, TracerAssumption
  <2>2. tbl[Row].pending \in BOOLEAN
    BY <1>2 DEF TableInv, Types, TableRow
  <2>. QED BY <1>2, <2>1, <2>2 DEF NewRow, EmptyRow
<1>4. x \in TableRow /\ x.pid = This /\ ~x.pending
  <2>1. (IF call[This] = "chdir" /\ t[Row].next # NoPid THEN t[Row].next ELSE t[Row].cwd) \in Identity
    BY <1>2 DEF TableRow
  <2>2. t[Row] \in TableRow /\ t[Row].pid = This
    BY <1>2
  <2> HIDE DEF t
  <2>. QED BY <2>1, <2>2 DEF TableRow
<1>5. /\ tbl' = [t EXCEPT ![Row] = x] /\ st' = [st EXCEPT ![This] = s]
      /\ held' = Nobody /\ call' = [call EXCEPT ![This] = NoCall] /\ kid' = kid
  BY <1>2 DEF HandleLeave, Continue
<1>6. /\ tbl' \in [Rows -> TableRow]
      /\ (Unique(tbl) /\ HeldIsStopped /\ InKernel /\ PendingIsInCall /\ ForkHasKid)'
  <2>1. \A p \in Pids : p # This => call'[p] = call[p] /\ kid'[p] = kid[p]
    BY <1>2, <1>5 DEF TableInv, Types
  <2> HIDE DEF x
  <2>. QED BY <1>1, <1>2, <1>4, <1>5, <2>1, RowStep
<1>7. /\ \A r \in Rows : r # Row => tbl'[r] = tbl[r]
      /\ ~tbl'[Row].pending
  <2> HIDE DEF x, t
  <2>. QED BY <1>2, <1>4, <1>5
<1>8. PendingIsCounted'
  <2>1. tbl \in [Rows -> TableRow] /\ inflight \in Int /\ tbl[Row].pending \in BOOLEAN
    BY <1>2, InFlight DEF TableInv, Types, TableRow
  <2>2. inflight' = inflight + Flag(tbl'[Row].pending) - Flag(tbl[Row].pending)
    BY <1>3, <1>7, <2>1 DEF HandleLeave, Flag
  <2>. QED BY <1>2, <1>6, <1>7, <2>1, <2>2, Count
<1>9. Closed'
  <2>1. Pending' \subseteq Pending
    BY <1>7 DEF Pending
  <2>. QED BY <2>1 DEF Closed, HandleLeave
<1>10. Types'
  <2>1. st' \in [Pids -> Alive \cup {"absent", "dead", "gone"}]
    BY <1>5 DEF TableInv, Types, Alive
  <2>. QED BY <1>5, <1>6, <2>1 DEF TableInv, Types, HandleLeave, Continue
<1>. QED BY <1>6, <1>8, <1>9, <1>10 DEF TableInv

(* remove_tracee takes the mutation of a process along.                     *)
LEMMA EndStep == IInv /\ HandleEnd => IInv'
<1> SUFFICES ASSUME IInv, HandleEnd PROVE IInv'
  OBVIOUS
<1> USE DEF IInv
<1> DEFINE t == Added(tbl, This)
<1>1. held # Nobody /\ HasRoom /\ held.stop = "dead"
  BY DEF HandleEnd, Held, Nobody
<1>2. /\ This \in Pids /\ Row \in Rows /\ t \in [Rows -> TableRow] /\ t[Row].pid = This
      /\ \A r \in Rows : r # Row => t[r] = tbl[r]
      /\ t[Row] = tbl[Row] \/ (tbl[Row].pid = NoPid /\ t[Row] = NewRow(This))
  BY <1>1, HeldRow DEF TableInv
<1>3. t[Row].pending = tbl[Row].pending
  <2>1. tbl[Row].pid = NoPid => ~tbl[Row].pending
    BY <1>1, <1>2, HeldNotPending, TracerAssumption
  <2>2. tbl[Row].pending \in BOOLEAN
    BY <1>2 DEF TableInv, Types, TableRow
  <2>. QED BY <1>2, <2>1, <2>2 DEF NewRow, EmptyRow
<1>4. EmptyRow \in TableRow /\ EmptyRow.pid = NoPid /\ ~EmptyRow.pending
  BY DEF EmptyRow, TableRow, Identity
<1>5. /\ tbl' = [t EXCEPT ![Row] = EmptyRow] /\ st' = [st EXCEPT ![This] = "gone"]
      /\ held' = Nobody /\ call' = call /\ kid' = kid
  BY DEF HandleEnd
<1>6. /\ tbl' \in [Rows -> TableRow]
      /\ (Unique(tbl) /\ HeldIsStopped /\ InKernel /\ PendingIsInCall /\ ForkHasKid)'
  BY <1>1, <1>2, <1>4, <1>5, RowStep
<1>7. /\ \A r \in Rows : r # Row => tbl'[r] = tbl[r]
      /\ ~tbl'[Row].pending
  BY <1>2, <1>4, <1>5
<1>8. PendingIsCounted'
  <2>1. tbl \in [Rows -> TableRow] /\ inflight \in Int /\ tbl[Row].pending \in BOOLEAN
    BY <1>2, InFlight DEF TableInv, Types, TableRow
  <2>2. inflight' = inflight + Flag(tbl'[Row].pending) - Flag(tbl[Row].pending)
    BY <1>3, <1>7, <2>1 DEF HandleEnd, Flag
  <2>. QED BY <1>2, <1>6, <1>7, <2>1, <2>2, Count
<1>9. Closed'
  <2>1. Pending' \subseteq Pending
    BY <1>7 DEF Pending
  <2>. QED BY <2>1 DEF Closed, HandleEnd
<1>10. Types'
  BY <1>5, <1>6 DEF TableInv, Types, HandleEnd
<1>. QED BY <1>6, <1>8, <1>9, <1>10 DEF TableInv

(* A fork adds rows, or not, and leaves the mutations alone.                *)
LEMMA ForkStep == IInv /\ HandleFork => IInv'
<1> SUFFICES ASSUME IInv, HandleFork PROVE IInv'
  OBVIOUS
<1> USE DEF IInv
<1> DEFINE c == kid[This]
           t == Added(tbl, This)
           room == RowFor(t, c) # {} \/ \E r \in Rows : t[r].pid = NoPid
           u == Added(t, c)
           k == RowOf(t, c)
<1>1. held # Nobody /\ HasRoom /\ held.stop = "fork"
  BY DEF HandleFork, Held, Nobody
<1>2. /\ This \in Pids /\ Row \in Rows /\ t \in [Rows -> TableRow] /\ Unique(t)
      /\ \A r \in Rows : r # Row => t[r] = tbl[r]
      /\ t[Row] = tbl[Row] \/ (tbl[Row].pid = NoPid /\ t[Row] = NewRow(This))
      /\ t[Row].pid = This
  BY <1>1, HeldRow DEF TableInv
<1>3. c \in Pids
  BY <1>1 DEF TableInv, ForkHasKid, This
<1>4. /\ tbl' = IF room THEN [u EXCEPT ![k].uid = t[Row].uid, ![k].cwd = t[Row].cwd] ELSE t
      /\ st' = [st EXCEPT ![This] = IF @ = "dead" THEN @ ELSE "run"]
      /\ held' = Nobody /\ kid' = [kid EXCEPT ![This] = NoPid]
      /\ UNCHANGED <<call, own, fs, inflight, gen, cache, code, budget, over>>
      /\ full' \in BOOLEAN
  BY DEF HandleFork, Continue, RowOf, TableInv, Types
<1>5. room => /\ u \in [Rows -> TableRow] /\ Unique(u) /\ k \in Rows /\ u[k].pid = c
              /\ \A r \in Rows : r # k => u[r] = t[r]
              /\ u[k] = t[k] \/ (t[k].pid = NoPid /\ u[k] = NewRow(c))
  BY <1>2, <1>3, AddedRow
<1>6. \A r \in Rows : tbl[r].pid = NoPid => ~tbl[r].pending
  BY TracerAssumption DEF TableInv, PendingIsInCall, Pending
<1>7. /\ tbl' \in [Rows -> TableRow] /\ Unique(tbl)'
      /\ \A r \in Rows : /\ tbl'[r].pid = tbl[r].pid \/ tbl[r].pid = NoPid
                         /\ tbl'[r].pending = tbl[r].pending
                         /\ tbl[r].pending => tbl'[r].pid = tbl[r].pid /\ tbl'[r].in = tbl[r].in
  <2>1. tbl \in [Rows -> TableRow] /\ \A r \in Rows : tbl[r].pending \in BOOLEAN
    BY DEF TableInv, Types, TableRow
  <2>2. \A r \in Rows : /\ t[r].pid = tbl[r].pid \/ tbl[r].pid = NoPid
                        /\ t[r].pending = tbl[r].pending
                        /\ tbl[r].pending => t[r].pid = tbl[r].pid /\ t[r].in = tbl[r].in
    <3>1. ~NewRow(This).pending
      BY DEF NewRow, EmptyRow
    <3> HIDE DEF t
    <3>2. CASE t[Row] = tbl[Row]
      BY <1>2, <3>2
    <3>3. CASE tbl[Row].pid = NoPid /\ t[Row] = NewRow(This)
      <4>1. tbl[Row].pending = FALSE /\ t[Row].pending = FALSE
        BY <1>2, <1>6, <2>1, <3>1, <3>3 DEF NewRow, EmptyRow
      <4>2. ASSUME NEW r \in Rows
            PROVE  /\ t[r].pid = tbl[r].pid \/ tbl[r].pid = NoPid
                   /\ t[r].pending = tbl[r].pending
                   /\ tbl[r].pending => t[r].pid = tbl[r].pid /\ t[r].in = tbl[r].in
        <5>1. CASE r = Row
          BY <3>3, <4>1, <5>1
        <5>2. CASE r # Row
          BY <1>2, <5>2
        <5>. QED BY <5>1, <5>2
      <4>. QED BY <4>2
    <3>. QED BY <1>2, <3>2, <3>3
  <2>3. CASE ~room
    <3>1. tbl' = t
      BY <1>4, <2>3
    <3>. QED BY <1>2, <2>2, <3>1 DEF Unique
  <2>4. CASE room
    <3> HIDE DEF t, u, k, c, room
    <3>1. tbl' = [u EXCEPT ![k] = [u[k] EXCEPT !.uid = t[Row].uid, !.cwd = t[Row].cwd]]
      BY <1>4, <1>5, <2>4
    <3>2. u[k] \in TableRow /\ t[Row] \in TableRow
      BY <1>2, <1>5, <2>4
    <3>3. /\ [u[k] EXCEPT !.uid = t[Row].uid, !.cwd = t[Row].cwd] \in TableRow
          /\ [u[k] EXCEPT !.uid = t[Row].uid, !.cwd = t[Row].cwd].pid = u[k].pid
          /\ [u[k] EXCEPT !.uid = t[Row].uid, !.cwd = t[Row].cwd].pending = u[k].pending
          /\ [u[k] EXCEPT !.uid = t[Row].uid, !.cwd = t[Row].cwd].in = u[k].in
      BY <3>2 DEF TableRow
    <3>4. tbl' \in [Rows -> TableRow]
      BY <1>5, <2>4, <3>1, <3>3
    <3>5. \A r \in Rows : tbl'[r].pid = u[r].pid /\ tbl'[r].pending = u[r].pending /\ tbl'[r].in = u[r].in
      BY <1>5, <2>4, <3>1, <3>3
    <3>6. ~NewRow(c).pending
      BY DEF NewRow, EmptyRow
    <3>7. \A r \in Rows : t[r].pid = NoPid => tbl[r].pid = NoPid
      BY <2>2
    <3>8. \A r \in Rows : /\ u[r].pid = t[r].pid \/ t[r].pid = NoPid
                          /\ u[r].pending = t[r].pending
                          /\ t[r].pending => u[r].pid = t[r].pid /\ u[r].in = t[r].in
      <4>1. t[k].pid = NoPid => ~t[k].pending
        BY <1>5, <1>6, <2>2, <2>4, <3>7
      <4>2. t[k].pending \in BOOLEAN
        BY <1>2, <1>5, <2>4 DEF TableRow
      <4>3. t[k].pid = NoPid /\ u[k] = NewRow(c) => u[k].pending = FALSE /\ t[k].pending = FALSE
        BY <3>6, <4>1, <4>2 DEF NewRow, EmptyRow
      <4>4. ASSUME NEW r \in Rows
            PROVE  /\ u[r].pid = t[r].pid \/ t[r].pid = NoPid
                   /\ u[r].pending = t[r].pending
                   /\ t[r].pending => u[r].pid = t[r].pid /\ u[r].in = t[r].in
        <5>1. CASE r # k \/ u[k] = t[k]
          BY <1>5, <2>4, <5>1
        <5>2. CASE r = k /\ t[k].pid = NoPid /\ u[k] = NewRow(c)
          BY <4>3, <5>2
        <5>. QED BY <1>5, <2>4, <5>1, <5>2
      <4>. QED BY <4>4
    <3>9. Unique(tbl)'
      BY <1>5, <2>4, <3>5 DEF Unique
    <3>. QED BY <2>2, <3>4, <3>5, <3>7, <3>8, <3>9
  <2>. QED BY <2>3, <2>4
<1>8. Pending' = Pending
  BY <1>7 DEF Pending
<1>9. /\ \A p \in Pids : p # This => st'[p] = st[p] /\ kid'[p] = kid[p]
      /\ st'[This] \in {"run", "dead"} /\ held' = Nobody
      /\ st' \in [Pids -> Alive \cup {"absent", "dead", "gone"}]
      /\ kid' \in [Pids -> Pids \cup {NoPid}]
  BY <1>2, <1>4 DEF TableInv, Types, Alive
<1>10. HeldIsStopped'
  BY <1>9 DEF HeldIsStopped
<1>11. InKernel'
  <2> SUFFICES ASSUME NEW p \in Pids, st'[p] = "kernel"
               PROVE  /\ \E r \in Rows : tbl'[r].pid = p
                      /\ call'[p] = "rename" => \A r \in Rows : tbl'[r].pid = p => tbl'[r].pending
    BY DEF InKernel, RowsOf
  <2>1. PICK q \in Rows : tbl[q].pid = p /\ (call[p] = "rename" => tbl[q].pending)
    BY <1>9 DEF TableInv, InKernel, RowsOf
  <2>2. p # NoPid
    BY TracerAssumption
  <2>3. tbl'[q].pid = p /\ tbl'[q].pending = tbl[q].pending
    BY <1>7, <2>1, <2>2
  <2>4. \A r \in Rows : tbl'[r].pid = p => r = q
    BY <1>7, <2>2, <2>3 DEF Unique
  <2>. QED BY <1>4, <2>1, <2>3, <2>4
<1>12. PendingIsInCall'
  <2> SUFFICES ASSUME NEW r \in Rows, tbl[r].pending, r \in Pending
               PROVE  /\ tbl'[r].pid \in Pids /\ tbl'[r].in
                      /\ st'[tbl'[r].pid] \in {"kernel", "leave", "dead", "gone"}
                      /\ tbl'[r].pid = held'.pid => held'.stop \in {"leave", "dead"}
    BY <1>8 DEF PendingIsInCall, Pending
  <2>1. /\ tbl[r].pid \in Pids /\ tbl[r].in /\ st[tbl[r].pid] \in {"kernel", "leave", "dead", "gone"}
        /\ tbl[r].pid = held.pid => held.stop \in {"leave", "dead"}
    BY DEF TableInv, PendingIsInCall
  <2>2. tbl'[r].pid = tbl[r].pid /\ tbl'[r].in /\ tbl[r].pid # This
    BY <1>1, <1>7, <2>1 DEF This
  <2>3. held'.pid = NoPid
    BY <1>9 DEF Nobody
  <2>4. tbl'[r].pid # held'.pid
    BY <2>1, <2>2, <2>3, TracerAssumption
  <2>5. st'[tbl[r].pid] = st[tbl[r].pid]
    BY <1>9, <2>1, <2>2
  <2>. QED BY <2>1, <2>2, <2>4, <2>5
<1>13. ForkHasKid'
  BY <1>9 DEF TableInv, ForkHasKid, Nobody
<1>14. Types'
  BY <1>4, <1>7, <1>9 DEF TableInv, Types
<1>15. PendingIsCounted' /\ Closed'
  BY <1>4, <1>8 DEF PendingIsCounted, Closed
<1>. QED BY <1>7, <1>10, <1>11, <1>12, <1>13, <1>14, <1>15 DEF TableInv

-----------------------------------------------------------------------------
(* Steps that leave the table alone *)

(* A step that leaves the table, the caches and the held stop alone. *)
LEMMA TableStays ==
    ASSUME IInv, UNCHANGED <<tbl, inflight, gen, cache, fs>>
    PROVE  Unique(tbl)' /\ PendingIsCounted' /\ Closed' /\ Pending' = Pending
<1>1. Pending' = Pending
  BY DEF Pending
<1>. QED BY <1>1 DEF IInv, TableInv, Unique, PendingIsCounted, Closed

(* A process without a row is let go. *)
LEMMA NoRoomStep == IInv /\ HandleNoRoom => IInv'
<1> SUFFICES ASSUME IInv, HandleNoRoom PROVE IInv'
  OBVIOUS
<1> USE DEF IInv, TableInv
<1>1. This \in Pids /\ RowsOf(This) = {}
  BY DEF HandleNoRoom, HasRoom, Types, This
<1>2. Unique(tbl)' /\ PendingIsCounted' /\ Closed' /\ Pending' = Pending
  BY TableStays DEF HandleNoRoom
<1>3. /\ \A p \in Pids : p # This => st'[p] = st[p]
      /\ st'[This] \in {"dead", "gone"} /\ held' = Nobody
      /\ UNCHANGED <<call, kid, own, budget, fs, tbl, inflight, gen, cache, over>>
  BY <1>1 DEF HandleNoRoom, Types
<1>4. Types'
  BY <1>3 DEF HandleNoRoom, Types
<1>5. HeldIsStopped' /\ ForkHasKid'
  BY <1>3 DEF HeldIsStopped, ForkHasKid, Nobody
<1>6. InKernel'
  BY <1>3 DEF InKernel, RowsOf
<1>7. PendingIsInCall'
  BY <1>1, <1>2, <1>3, TracerAssumption DEF PendingIsInCall, Pending, Nobody, RowsOf
<1>. QED BY <1>2, <1>4, <1>5, <1>6, <1>7

(* A process that died under its handler had no more to report than its end. *)
LEMMA VanishedStep == IInv /\ HandleVanished => IInv'
<1> SUFFICES ASSUME IInv, HandleVanished PROVE IInv'
  OBVIOUS
<1> USE DEF IInv, TableInv
<1>1. Unique(tbl)' /\ PendingIsCounted' /\ Closed' /\ Pending' = Pending
  BY TableStays DEF HandleVanished, procs, tracer
<1>2. /\ held' = Nobody /\ UNCHANGED <<call, kid, own, code, budget, fs, tbl, inflight, gen, cache, full>>
      /\ st' = st \/ st' = [p \in Pids |-> "gone"]
  BY DEF HandleVanished, tracer
<1>3. Types'
  BY <1>2 DEF Types
<1>4. HeldIsStopped' /\ ForkHasKid'
  BY <1>2 DEF HeldIsStopped, ForkHasKid, Nobody
<1>5. InKernel'
  BY <1>2 DEF InKernel, RowsOf
<1>6. PendingIsInCall'
  BY <1>1, <1>2, TracerAssumption DEF PendingIsInCall, Nobody
<1>. QED BY <1>1, <1>3, <1>4, <1>5, <1>6

(* waitpid reports a process in the stop it is in. *)
LEMMA WaitStep == ASSUME IInv, NEW p \in Pids, Wait(p) PROVE IInv'
<1> USE DEF IInv, TableInv
<1>1. /\ held' = [pid |-> p, stop |-> st[p]] /\ st[p] \in Stops /\ held'.pid = p /\ held'.stop = st[p]
      /\ UNCHANGED <<st, call, kid, own, code, budget, fs, tbl, inflight, gen, cache, full, over>>
  BY DEF Wait, procs, tracer
<1>2. Unique(tbl)' /\ PendingIsCounted' /\ Closed' /\ Pending' = Pending
  BY <1>1, TableStays
<1>3. Types'
  BY <1>1 DEF Types
<1>4. HeldIsStopped' /\ ForkHasKid' /\ InKernel'
  BY <1>1 DEF HeldIsStopped, ForkHasKid, InKernel, RowsOf
<1>5. PendingIsInCall'
  BY <1>1, <1>2 DEF PendingIsInCall, Stops
<1>. QED BY <1>2, <1>3, <1>4, <1>5

(* The loop ends without processes. *)
LEMMA NoChildStep == IInv /\ NoChild => IInv'
<1> SUFFICES ASSUME IInv, NoChild PROVE IInv'
  OBVIOUS
<1> USE DEF IInv, TableInv
<1>1. UNCHANGED <<st, call, kid, own, code, budget, fs, tbl, inflight, gen, cache, full, held>>
  BY DEF NoChild, procs, tracer
<1>2. Unique(tbl)' /\ PendingIsCounted' /\ Closed' /\ Pending' = Pending
  BY <1>1, TableStays
<1>3. Types' /\ HeldIsStopped' /\ ForkHasKid'
  BY <1>1 DEF Types, HeldIsStopped, ForkHasKid
<1>4. InKernel' /\ PendingIsInCall'
  BY <1>1, <1>2 DEF InKernel, PendingIsInCall, RowsOf
<1>. QED BY <1>2, <1>3, <1>4

(* The kernel makes a change that has been announced, and stops after it.    *)
LEMMA KernelStep == ASSUME IInv, NEW p \in Pids, Kernel(p) PROVE IInv'
<1> USE DEF IInv, TableInv
<1>1. PICK r \in RowsOf(p) : Execute(p, tbl[r].in \/ ~Selective, tbl[r].emulated)
  BY DEF Kernel
<1>2. /\ st[p] = "kernel" /\ UNCHANGED <<kid, code, budget, tbl, inflight, gen, cache, full, held, over>>
  BY DEF Kernel, tracer
<1>3. r \in Rows /\ tbl[r].pid = p /\ tbl[r].in \in BOOLEAN /\ tbl[r].pending \in BOOLEAN
  BY <1>1 DEF RowsOf, Types, TableRow
<1>4. \A q \in Rows : tbl[q].pid = p => q = r
  BY <1>3, TracerAssumption DEF Unique
<1>5. /\ \A q \in Pids : q # p => st'[q] = st[q] /\ call'[q] = call[q]
      /\ st'[p] = IF tbl[r].in \/ ~Selective THEN "leave" ELSE "run"
      /\ st' \in [Pids -> Alive \cup {"absent", "dead", "gone"}] /\ call' \in [Pids -> Calls \cup {NoCall}]
  BY <1>1 DEF Execute, Types, Alive
<1>6. held # Nobody => held.pid # p
  BY <1>2 DEF HeldIsStopped, Types, Stops
<1>7. Pending' = Pending
  BY <1>2 DEF Pending
<1>8. Unique(tbl)' /\ PendingIsCounted'
  BY <1>2, <1>7 DEF Unique, PendingIsCounted
<1>9. Closed'
  <2>1. fs' # fs => tbl[r].pending
    BY <1>1, <1>2, <1>3 DEF Execute, InKernel, RowsOf
  <2>2. fs' # fs => Pending # {}
    BY <1>3, <2>1 DEF Pending
  <2>. QED BY <1>2, <1>7, <2>2 DEF Closed
<1>10. Types'
  <2>1. fs' \in {0, 1}
    BY <1>1 DEF Execute, Types
  <2>2. own' \in [Pids -> [uid : Identity, cwd : Identity]]
    BY <1>1 DEF Execute, Types, Identity
  <2>. QED BY <1>2, <1>5, <2>1, <2>2 DEF Types
<1>11. HeldIsStopped' /\ ForkHasKid'
  BY <1>2, <1>5, <1>6 DEF HeldIsStopped, ForkHasKid, Types, Nobody
<1>12. InKernel'
  BY <1>2, <1>5 DEF InKernel, RowsOf
<1>13. PendingIsInCall'
  <2> SUFFICES ASSUME NEW q \in Pending
               PROVE  /\ tbl[q].pid \in Pids /\ tbl[q].in
                      /\ st'[tbl[q].pid] \in {"kernel", "leave", "dead", "gone"}
                      /\ tbl[q].pid = held.pid => held.stop \in {"leave", "dead"}
    BY <1>2, <1>7 DEF PendingIsInCall
  <2>1. /\ q \in Rows /\ tbl[q].pid \in Pids /\ tbl[q].in
        /\ st[tbl[q].pid] \in {"kernel", "leave", "dead", "gone"}
        /\ tbl[q].pid = held.pid => held.stop \in {"leave", "dead"}
    BY DEF PendingIsInCall, Pending
  <2>2. CASE tbl[q].pid = p
    BY <1>4, <1>5, <2>1, <2>2
  <2>3. CASE tbl[q].pid # p
    BY <1>5, <2>1, <2>3
  <2>. QED BY <2>1, <2>2, <2>3
<1>. QED BY <1>8, <1>9, <1>10, <1>11, <1>12, <1>13
-----------------------------------------------------------------------------
(* Steps of the processes *)

(* Nothing that only moves processes, and no process into the kernel, and    *)
(* none of those in flight but to its end, touches what the tracer knows.   *)
LEMMA ProcessMoves ==
    ASSUME IInv, UNCHANGED <<tbl, inflight, gen, cache, fs, full, held>>,
           Types',
           \A q \in Pids : st'[q] = "kernel" => st[q] = "kernel" /\ call'[q] = call[q],
           \A q \in Pids : /\ st[q] \in {"kernel", "leave", "dead", "gone"} =>
                              st'[q] \in {st[q], "dead"}
                           /\ st[q] \in Stops => st'[q] \in {st[q], "dead"},
           \A q \in Pids : st'[q] = "fork" => kid'[q] \in Pids,
           held.stop = "fork" => kid'[held.pid] = kid[held.pid]
    PROVE  IInv'
<1> USE DEF IInv, TableInv
<1>1. Unique(tbl)' /\ PendingIsCounted' /\ Closed' /\ Pending' = Pending
  BY TableStays
<1>2. HeldIsStopped'
  BY DEF HeldIsStopped, Types, Stops, Alive
<1>3. InKernel'
  BY DEF InKernel, RowsOf
<1>4. ForkHasKid'
  BY DEF ForkHasKid
<1>5. PendingIsInCall'
  <2> SUFFICES ASSUME NEW r \in Pending
               PROVE  /\ tbl[r].pid \in Pids /\ tbl[r].in
                      /\ st'[tbl[r].pid] \in {"kernel", "leave", "dead", "gone"}
                      /\ tbl[r].pid = held.pid => held.stop \in {"leave", "dead"}
    BY <1>1 DEF PendingIsInCall
  <2>. QED BY DEF PendingIsInCall
<1>. QED BY <1>1, <1>2, <1>3, <1>4, <1>5

(* A process enters a call only while it runs, so that nothing of it is pending. *)
LEMMA EnterStep == ASSUME IInv, NEW p \in Pids, NEW c \in Calls, Enter(p, c) PROVE IInv'
<1> USE DEF IInv, TableInv
<1>1. /\ st[p] = "run" /\ st' = [st EXCEPT ![p] = "enter"] /\ call' = [call EXCEPT ![p] = c]
      /\ budget' = [budget EXCEPT !.calls = @ - 1]
      /\ UNCHANGED <<kid, own, code, fs, tbl, inflight, gen, cache, full, held>>
  BY DEF Enter, Running, tracer
<1>2. /\ \A q \in Pids : q # p => st'[q] = st[q] /\ call'[q] = call[q]
      /\ st'[p] = "enter"
  BY <1>1 DEF Types
<1>3. Types'
  BY <1>1 DEF Types, Alive
<1>4. \A q \in Pids : st'[q] = "fork" => kid'[q] \in Pids
  BY <1>1, <1>2 DEF ForkHasKid
<1>. QED BY <1>1, <1>2, <1>3, <1>4, ProcessMoves DEF Stops

(* A child begins with a stop of its own. *)
LEMMA ForksStep == ASSUME IInv, NEW p \in Pids, NEW c \in Pids, Fork(p, c) PROVE IInv'
<1> USE DEF IInv, TableInv
<1>1. /\ st[p] = "run" /\ st[c] = "absent" /\ st' = [st EXCEPT ![p] = "fork", ![c] = "birth"]
      /\ kid' = [kid EXCEPT ![p] = c] /\ own' = [own EXCEPT ![c] = own[p]]
      /\ UNCHANGED <<call, code, budget, fs, tbl, inflight, gen, cache, full, held>>
  BY DEF Fork, Running, tracer
<1>2. /\ \A q \in Pids : q # p => kid'[q] = kid[q] /\ (q # c => st'[q] = st[q])
      /\ st'[p] = "fork" /\ st'[c] = "birth" /\ kid'[p] = c
  BY <1>1 DEF Types
<1>3. Types'
  BY <1>1 DEF Types, Alive
<1>4. \A q \in Pids : st'[q] = "fork" => kid'[q] \in Pids
  BY <1>1, <1>2 DEF ForkHasKid
<1>5. held.stop = "fork" => kid'[held.pid] = kid[held.pid]
  BY <1>1, <1>2 DEF HeldIsStopped, Types, Nobody
<1>. QED BY <1>1, <1>2, <1>3, <1>4, <1>5, ProcessMoves DEF Stops

(* A process that exits was running. *)
LEMMA ExitStep == ASSUME IInv, NEW p \in Pids, Exit(p) PROVE IInv'
<1> USE DEF IInv, TableInv
<1>1. /\ st[p] = "run" /\ st' = [st EXCEPT ![p] = "dead"]
      /\ \E c \in Codes : code' = [code EXCEPT ![p] = c]
      /\ UNCHANGED <<call, kid, own, budget, fs, tbl, inflight, gen, cache, full, held>>
  BY DEF Exit, Running, tracer
<1>2. st'[p] = "dead" /\ \A q \in Pids : q # p => st'[q] = st[q]
  BY <1>1 DEF Types
<1>3. Types'
  BY <1>1 DEF Types
<1>4. \A q \in Pids : st'[q] = "fork" => kid'[q] \in Pids
  BY <1>1, <1>2 DEF ForkHasKid
<1>. QED BY <1>1, <1>2, <1>3, <1>4, ProcessMoves DEF Stops

(* A kill takes a process out of any stop; its pending change ends with its row. *)
LEMMA KillStep == ASSUME IInv, NEW p \in Pids, Kill(p) PROVE IInv'
<1> USE DEF IInv, TableInv
<1>1. /\ st' = [st EXCEPT ![p] = "dead"] /\ code' = [code EXCEPT ![p] = Signaled]
      /\ budget.kills > 0 /\ budget' = [budget EXCEPT !.kills = @ - 1]
      /\ UNCHANGED <<call, kid, own, fs, tbl, inflight, gen, cache, full, held>>
  BY DEF Kill, tracer
<1>2. st'[p] = "dead" /\ \A q \in Pids : q # p => st'[q] = st[q]
  BY <1>1 DEF Types
<1>3. Types'
  <2>1. budget' \in [calls : Int, kills : Int] /\ budget'.kills <= MaxKills
    BY <1>1, TracerAssumption DEF Types
  <2>. QED BY <1>1, <2>1 DEF Types
<1>4. \A q \in Pids : st'[q] = "fork" => kid'[q] \in Pids
  BY <1>1, <1>2 DEF ForkHasKid
<1>. QED BY <1>1, <1>2, <1>3, <1>4, ProcessMoves DEF Stops

-----------------------------------------------------------------------------
(* The invariant *)

(* Only the program is there, and the tracer has its row. *)
LEMMA InitInv == TracerInit => IInv
<1> SUFFICES ASSUME TracerInit PROVE IInv
  OBVIOUS
<1> USE TracerAssumption DEF TracerInit
<1> DEFINE f == CHOOSE r \in Rows : TRUE
<1>1. f \in Rows /\ tbl = [r \in Rows |-> IF r = f THEN NewRow(Root) ELSE EmptyRow]
  OBVIOUS
<1>2. /\ NewRow(Root) \in TableRow /\ NewRow(Root).pid = Root /\ ~NewRow(Root).pending
      /\ EmptyRow \in TableRow /\ EmptyRow.pid = NoPid /\ ~EmptyRow.pending
  BY DEF NewRow, EmptyRow, TableRow, Identity
<1> HIDE DEF f
<1>3. tbl \in [Rows -> TableRow]
  BY <1>1, <1>2
<1>4. Unique(tbl)
  BY <1>1, <1>2 DEF Unique
<1>5. Pending = {}
  BY <1>1, <1>2 DEF Pending
<1>6. Types
  <2>1. budget \in [calls : Int, kills : Int] /\ budget.kills <= MaxKills
    OBVIOUS
  <2>2. own \in [Pids -> [uid : Identity, cwd : Identity]]
    BY DEF Identity
  <2>3. /\ st \in [Pids -> Alive \cup {"absent", "dead", "gone"}]
        /\ call \in [Pids -> Calls \cup {NoCall}] /\ kid \in [Pids -> Pids \cup {NoPid}]
        /\ code \in [Pids -> Codes \cup {0, Signaled}]
    BY DEF Alive
  <2>4. gen \in Nat \ {0} /\ cache \in [gen : Nat, val : {0, 1}]
    OBVIOUS
  <2>. QED BY <1>3, <2>1, <2>2, <2>3, <2>4 DEF Types
<1>7. HeldIsStopped /\ ForkHasKid /\ InKernel
  BY DEF HeldIsStopped, ForkHasKid, InKernel, Nobody
<1>8. PendingIsInCall /\ PendingIsCounted /\ Closed
  BY <1>5, FS_EmptySet DEF PendingIsInCall, PendingIsCounted, Closed
<1>. QED BY <1>4, <1>6, <1>7, <1>8 DEF IInv, TableInv

(* One lemma per handler and per step of a process. *)
LEMMA StepInv == IInv /\ [TracerNext]_tvars => IInv'
<1> SUFFICES ASSUME IInv, [TracerNext]_tvars PROVE IInv'
  OBVIOUS
<1>1. CASE HandleNoRoom
  BY <1>1, NoRoomStep
<1>2. CASE HandleBirth
  BY <1>2, BirthStep
<1>3. CASE HandleFork
  BY <1>3, ForkStep
<1>4. CASE HandleEntry
  BY <1>4, EntryStep
<1>5. CASE HandleLeave
  BY <1>5, LeaveStep
<1>6. CASE HandleEnd
  BY <1>6, EndStep
<1>7. CASE HandleVanished
  BY <1>7, VanishedStep
<1>8. CASE NoChild
  BY <1>8, NoChildStep
<1>9. CASE \E p \in Pids : Wait(p)
  BY <1>9, WaitStep
<1>10. CASE ProcessStep
  BY <1>10, KernelStep, ExitStep, KillStep, EnterStep, ForksStep DEF ProcessStep
<1>11. CASE UNCHANGED tvars
  BY <1>11 DEF tvars, IInv, TableInv, Types, Unique, HeldIsStopped, InKernel, PendingIsInCall,
     ForkHasKid, PendingIsCounted, Closed, Pending, RowsOf
<1>. QED BY <1>1, <1>2, <1>3, <1>4, <1>5, <1>6, <1>7, <1>8, <1>9, <1>10, <1>11
         DEF TracerNext, TracerStep, Handle

(* A path that validate_path_cached finds in the cache is what the file      *)
(* system resolves it to, at every moment of every interleaving: between    *)
(* begin_path_cache_mutation and the end of the call nothing is entered.     *)
THEOREM CachesAreTrue == TracerSpec => []CacheIsTrue
<1>1. IInv => CacheIsTrue
  BY DEF IInv, Closed, CacheIsTrue
<1>. QED BY <1>1, InitInv, StepInv, PTL DEF TracerSpec

(* g_path_cache_mutation_inflight counts the rows with a pending mutation,   *)
(* also when processes are killed in their calls and rows are removed.      *)
THEOREM MutationsAreCounted == TracerSpec => []PendingIsCounted
<1>1. IInv => PendingIsCounted
  BY DEF IInv
<1>. QED BY <1>1, InitInv, StepInv, PTL DEF TracerSpec
-----------------------------------------------------------------------------
(* What the executor returns *)

(* A handler that keeps or removes the row of the held process only.        *)
LEMMA RowsAreKept ==
    ASSUME TableInv, Entered, held # Nobody, HasRoom, held.stop # "fork",
           \A r \in Rows : r # Row => tbl'[r].pid = tbl[r].pid,
           NEW s, st' = [st EXCEPT ![This] = s],
           tbl'[Row].pid = This \/ s = "gone",
           UNCHANGED <<kid, budget, full>>
    PROVE  Entered'
<1>1. /\ This \in Pids /\ Row \in Rows
      /\ \A r \in Rows : r # Row => tbl[r].pid # This
      /\ tbl[Row].pid = This \/ tbl[Row].pid = NoPid
  BY HeldRow DEF TableInv
<1>2. st'[This] = s /\ \A p \in Pids : p # This => st'[p] = st[p]
  BY <1>1 DEF TableInv, Types
<1>3. \A p \in Pids : p # This /\ RowsOf(p) # {} => RowsOf(p)' # {}
  BY <1>1, TracerAssumption DEF RowsOf
<1>4. st[This] # "fork"
  BY DEF TableInv, HeldIsStopped, This
<1> SUFFICES ASSUME ~full, budget.kills = MaxKills, NEW p \in Pids
             PROVE  \/ st'[p] \in {"absent", "gone"} \/ RowsOf(p)' # {}
                    \/ /\ st'[p] = "birth"
                       /\ \E q \in Pids : st'[q] = "fork" /\ kid'[q] = p /\ RowsOf(q)' # {}
  BY DEF Entered
<1>5. CASE p = This
  BY <1>1, <1>2, <1>5 DEF RowsOf
<1>6. CASE p # This
  <2>1. CASE st[p] \in {"absent", "gone"} \/ RowsOf(p) # {}
    BY <1>2, <1>3, <1>6, <2>1
  <2>2. CASE st[p] = "birth" /\ \E q \in Pids : st[q] = "fork" /\ kid[q] = p /\ RowsOf(q) # {}
    BY <1>2, <1>3, <1>4, <1>6, <2>2
  <2>. QED BY <2>1, <2>2 DEF Entered
<1>. QED BY <1>5, <1>6

(* A process that runs is held by nobody.                                   *)
LEMMA RunningIsFree ==
    ASSUME HeldIsStopped, Types, NEW p \in Pids, st[p] \in {"run", "kernel", "absent"}
    PROVE  held # Nobody => held.pid # p
BY DEF HeldIsStopped, Types, Stops

(* The tracer forgets a process it has room for only when that has ended.   *)
LEMMA EnteredStep == IInv /\ Entered /\ VanishedIsKilled /\ TracerNext => Entered'
<1> SUFFICES ASSUME IInv, Entered, VanishedIsKilled, TracerNext PROVE Entered'
  OBVIOUS
<1> USE DEF IInv
<1>1. CASE HandleNoRoom
  BY <1>1 DEF HandleNoRoom, Entered
<1>2. CASE HandleBirth
  <2>1. held # Nobody /\ HasRoom /\ held.stop = "birth"
    BY <1>2 DEF HandleBirth, Held, Nobody
  <2>2. \A r \in Rows : r # Row => tbl'[r].pid = tbl[r].pid
    BY <1>2, <2>1, HeldRow DEF HandleBirth, TableInv
  <2>3. tbl'[Row].pid = This
    BY <1>2, <2>1, HeldRow DEF HandleBirth, TableInv
  <2>4. /\ st' = [st EXCEPT ![This] = IF st[This] = "dead" THEN st[This] ELSE "run"]
        /\ UNCHANGED <<kid, budget, full>>
    BY <1>2 DEF HandleBirth, Continue
  <2>. QED BY <2>1, <2>2, <2>3, <2>4, RowsAreKept
<1>3. CASE HandleFork
  <2> DEFINE c == kid[This]
             t == Added(tbl, This)
             room == RowFor(t, c) # {} \/ \E r \in Rows : t[r].pid = NoPid
             u == Added(t, c)
             k == RowOf(t, c)
  <2>1. held # Nobody /\ HasRoom /\ held.stop = "fork" /\ over = NotOver
    BY <1>3 DEF HandleFork, Held, Nobody
  <2>2. /\ This \in Pids /\ t \in [Rows -> TableRow] /\ Unique(t) /\ Row \in Rows
        /\ t[Row].pid = This
        /\ \A r \in Rows : t[r].pid = tbl[r].pid \/ tbl[r].pid = NoPid
    BY <2>1, HeldRow DEF TableInv
  <2>3. c \in Pids
    BY <2>1 DEF TableInv, ForkHasKid, This
  <2>4. /\ tbl' = IF room THEN [u EXCEPT ![k].uid = t[Row].uid, ![k].cwd = t[Row].cwd] ELSE t
        /\ st' = [st EXCEPT ![This] = IF @ = "dead" THEN @ ELSE "run"]
        /\ kid' = [kid EXCEPT ![This] = NoPid]
        /\ full' = (full \/ ~room) /\ budget' = budget
    BY <1>3 DEF HandleFork, Continue, RowOf
  <2> SUFFICES ASSUME ~full, room, budget.kills = MaxKills, NEW p \in Pids
               PROVE  \/ st'[p] \in {"absent", "gone"} \/ RowsOf(p)' # {}
                      \/ /\ st'[p] = "birth"
                         /\ \E q \in Pids : st'[q] = "fork" /\ kid'[q] = p /\ RowsOf(q)' # {}
    BY <2>4 DEF Entered
  <2>5. /\ u \in [Rows -> TableRow] /\ k \in Rows /\ u[k].pid = c
        /\ \A r \in Rows : r # k => u[r] = t[r]
        /\ u[k] = t[k] \/ t[k].pid = NoPid
    BY <2>2, <2>3, AddedRow
  <2> HIDE DEF c, t, u, k, room
  <2>6. \A r \in Rows : tbl'[r].pid = u[r].pid
    <3>1. tbl' = [u EXCEPT ![k] = [u[k] EXCEPT !.uid = t[Row].uid, !.cwd = t[Row].cwd]]
      BY <2>4, <2>5
    <3>2. u[k] \in TableRow /\ t[Row] \in TableRow
      BY <2>2, <2>5
    <3>3. [u[k] EXCEPT !.uid = t[Row].uid, !.cwd = t[Row].cwd].pid = u[k].pid
      BY <3>2 DEF TableRow
    <3>. QED BY <2>5, <3>1, <3>3
  <2>7. \A r \in Rows : tbl'[r].pid = t[r].pid \/ t[r].pid = NoPid
    BY <2>5, <2>6
  <2>8. /\ \A q \in Pids : q = This => RowsOf(q)' # {}
        /\ \A q \in Pids : q = c => RowsOf(q)' # {}
    <3>1. \E r \in Rows : tbl'[r].pid = c
      BY <2>5, <2>6
    <3>2. tbl'[Row].pid = This
      BY <2>2, <2>7, TracerAssumption
    <3>3. Row \in Rows
      BY <2>2
    <3>. QED BY <3>1, <3>2, <3>3 DEF RowsOf
  <2>9. ASSUME NEW q \in Pids, RowsOf(q) # {} PROVE RowsOf(q)' # {}
    <3>1. PICK r \in Rows : tbl[r].pid = q
      BY <2>9 DEF RowsOf
    <3>2. tbl'[r].pid = q
      BY <2>2, <2>7, <3>1, TracerAssumption
    <3>. QED BY <3>2 DEF RowsOf
  <2>10. \A q \in Pids : q # This => st'[q] = st[q] /\ kid'[q] = kid[q]
    BY <2>2, <2>4 DEF TableInv, Types
  <2>11. CASE p = This
    BY <2>8, <2>11
  <2>12. CASE RowsOf(p) # {}
    BY <2>9, <2>12
  <2>13. CASE p # This /\ st[p] \in {"absent", "gone"}
    BY <2>10, <2>13
  <2>14. CASE p # This /\ st[p] = "birth"
              /\ \E q \in Pids : st[q] = "fork" /\ kid[q] = p /\ RowsOf(q) # {}
    <3>1. PICK q \in Pids : st[q] = "fork" /\ kid[q] = p /\ RowsOf(q) # {}
      BY <2>14
    <3>2. CASE q = This
      BY <2>8, <3>1, <3>2 DEF c
    <3>3. CASE q # This
      BY <2>9, <2>10, <2>14, <3>1, <3>3
    <3>. QED BY <3>2, <3>3
  <2>. QED BY <2>11, <2>12, <2>13, <2>14 DEF Entered
<1>4. CASE HandleEntry
  <2>1. held # Nobody /\ HasRoom /\ held.stop = "enter"
    BY <1>4 DEF HandleEntry, Held, Nobody
  <2> DEFINE t == Added(tbl, This)
  <2>2. /\ \A r \in Rows : r # Row => t[r] = tbl[r]
        /\ t[Row].pid = This /\ Row \in Rows /\ t \in [Rows -> TableRow]
    BY <2>1, HeldRow DEF TableInv
  <2>3. PICK e1, e2, e3, e4, e5 :
          tbl' = [t EXCEPT ![Row].uid = e1, ![Row].next = e2, ![Row].emulated = e3,
                           ![Row].pending = e4, ![Row].in = e5]
    BY <1>4 DEF HandleEntry
  <2>4. tbl'[Row].pid = This /\ \A r \in Rows : r # Row => tbl'[r].pid = tbl[r].pid
    <3> HIDE DEF t
    <3>1. t[Row] \in TableRow
      BY <2>2
    <3>. QED BY <2>2, <2>3, <3>1 DEF TableRow
  <2>5. /\ st' = [st EXCEPT ![This] = IF st[This] = "dead" THEN st[This] ELSE "kernel"]
        /\ UNCHANGED <<kid, budget, full>>
    BY <1>4 DEF HandleEntry, Continue
  <2>. QED BY <2>1, <2>4, <2>5, RowsAreKept
<1>5. CASE HandleLeave
  <2>1. held # Nobody /\ HasRoom /\ held.stop = "leave"
    BY <1>5 DEF HandleLeave, Held, Nobody
  <2> DEFINE t == Added(tbl, This)
  <2>2. /\ \A r \in Rows : r # Row => t[r] = tbl[r]
        /\ t[Row].pid = This /\ Row \in Rows /\ t \in [Rows -> TableRow]
    BY <2>1, HeldRow DEF TableInv
  <2>3. PICK e1, e2 :
          tbl' = [t EXCEPT ![Row].cwd = e1, ![Row].next = e2, ![Row].emulated = FALSE,
                           ![Row].pending = FALSE, ![Row].in = FALSE]
    BY <1>5 DEF HandleLeave
  <2>4. tbl'[Row].pid = This /\ \A r \in Rows : r # Row => tbl'[r].pid = tbl[r].pid
    <3> HIDE DEF t
    <3>1. t[Row] \in TableRow
      BY <2>2
    <3>. QED BY <2>2, <2>3, <3>1 DEF TableRow
  <2>5. /\ st' = [st EXCEPT ![This] = IF st[This] = "dead" THEN st[This] ELSE "run"]
        /\ UNCHANGED <<kid, budget, full>>
    BY <1>5 DEF HandleLeave, Continue
  <2>. QED BY <2>1, <2>4, <2>5, RowsAreKept
<1>6. CASE HandleEnd
  <2>1. held # Nobody /\ HasRoom /\ held.stop = "dead"
    BY <1>6 DEF HandleEnd, Held, Nobody
  <2>2. /\ \A r \in Rows : r # Row => Added(tbl, This)[r] = tbl[r]
        /\ Row \in Rows /\ Added(tbl, This) \in [Rows -> TableRow]
    BY <2>1, HeldRow DEF TableInv
  <2>3. \A r \in Rows : r # Row => tbl'[r].pid = tbl[r].pid
    BY <1>6, <2>2 DEF HandleEnd
  <2>4. st' = [st EXCEPT ![This] = "gone"] /\ UNCHANGED <<kid, budget, full>>
    BY <1>6 DEF HandleEnd
  <2>. QED BY <2>1, <2>3, <2>4, RowsAreKept
<1>7. CASE HandleVanished
  BY <1>7 DEF HandleVanished, VanishedIsKilled, Entered, TableInv, Types
<1>8. CASE NoChild
  BY <1>8 DEF NoChild, procs, tracer, Entered, RowsOf
<1>9. CASE \E p \in Pids : Wait(p)
  BY <1>9 DEF Wait, procs, tracer, Entered, RowsOf
<1>10. CASE ProcessStep
  <2> USE DEF TableInv
  <2>1. ASSUME NEW p \in Pids, Kill(p) PROVE Entered'
    BY <2>1, TracerAssumption DEF Kill, Entered, Types
  <2>2. ASSUME NEW p \in Pids, NEW c \in Pids, Fork(p, c) PROVE Entered'
    <3>1. /\ st[p] = "run" /\ st[c] = "absent" /\ p # c
          /\ \A q \in Pids : q # p /\ q # c => st'[q] = st[q]
          /\ \A q \in Pids : q # p => kid'[q] = kid[q]
          /\ st'[p] = "fork" /\ st'[c] = "birth" /\ kid'[p] = c
          /\ UNCHANGED <<tbl, budget, full>>
      BY <2>2 DEF Fork, Running, Types, tracer
    <3>. QED BY <3>1 DEF Entered, RowsOf
  <2>3. ASSUME NEW p \in Pids, Exit(p) \/ Kernel(p) \/ \E c \in Calls : Enter(p, c)
        PROVE  Entered'
    <3>1. /\ st[p] \in {"run", "kernel"} /\ \A q \in Pids : q # p => st'[q] = st[q]
          /\ UNCHANGED <<kid, tbl, full>> /\ budget'.kills = budget.kills
      BY <2>3 DEF Exit, Kernel, Execute, Enter, Running, Types, tracer
    <3>. QED BY <3>1 DEF Entered, RowsOf
  <2>. QED BY <1>10, <2>1, <2>2, <2>3 DEF ProcessStep
<1>. QED BY <1>1, <1>2, <1>3, <1>4, <1>5, <1>6, <1>7, <1>8, <1>9, <1>10
         DEF TracerNext, TracerStep, Handle

(* Only SIGKILL from outside ends a process that the tracer holds.          *)
LEMMA VanishedIsKilledStep == IInv /\ VanishedIsKilled /\ TracerNext => VanishedIsKilled'
<1> SUFFICES ASSUME IInv, VanishedIsKilled, TracerNext PROVE VanishedIsKilled'
  OBVIOUS
<1> USE DEF IInv, TableInv
<1>1. CASE Handle
  <2>1. held' = Nobody
    BY <1>1 DEF Handle, HandleNoRoom, HandleBirth, HandleFork, HandleEntry, HandleLeave,
       HandleEnd, HandleVanished, Continue
  <2>. QED BY <2>1 DEF VanishedIsKilled, Vanished, Nobody
<1>2. CASE NoChild
  BY <1>2 DEF NoChild, VanishedIsKilled, Vanished
<1>3. ASSUME NEW p \in Pids, Wait(p) PROVE VanishedIsKilled'
  <2>1. held' = [pid |-> p, stop |-> st[p]] /\ st' = st
    BY <1>3 DEF Wait, procs
  <2>. QED BY <2>1 DEF VanishedIsKilled, Vanished, This
<1>4. CASE ProcessStep
  <2>1. ASSUME NEW p \in Pids, Kill(p) PROVE VanishedIsKilled'
    BY <2>1, TracerAssumption DEF Kill, VanishedIsKilled, Types
  <2>2. ASSUME NEW p \in Pids, NEW c \in Pids, Fork(p, c) PROVE VanishedIsKilled'
    <3>1. /\ held # Nobody => held.pid # p /\ held.pid # c
          /\ \A q \in Pids : q # p /\ q # c => st'[q] = st[q]
          /\ UNCHANGED <<held, budget, over>>
      BY <2>2, RunningIsFree DEF Fork, Running, Types
    <3>. QED BY <3>1 DEF VanishedIsKilled, Vanished, This, Types
  <2>3. ASSUME NEW p \in Pids, Exit(p) \/ Kernel(p) \/ \E c \in Calls : Enter(p, c)
        PROVE  VanishedIsKilled'
    <3>1. /\ st[p] \in {"run", "kernel"} /\ \A q \in Pids : q # p => st'[q] = st[q]
          /\ UNCHANGED <<held, over>> /\ budget'.kills = budget.kills
      BY <2>3 DEF Exit, Kernel, Execute, Enter, Running, Types
    <3>2. held # Nobody => held.pid # p
      BY <3>1, RunningIsFree
    <3>. QED BY <3>1, <3>2 DEF VanishedIsKilled, Vanished, This, Types
  <2>. QED BY <1>4, <2>1, <2>2, <2>3 DEF ProcessStep
<1>. QED BY <1>1, <1>2, <1>3, <1>4 DEF TracerNext, TracerStep

(* A process that has begun stays begun.                                    *)
LEMMA RootStep == IInv /\ st[Root] # "absent" /\ TracerNext => st'[Root] # "absent"
<1> SUFFICES ASSUME IInv, st[Root] # "absent", TracerNext PROVE st'[Root] # "absent"
  OBVIOUS
<1>1. st \in [Pids -> Alive \cup {"absent", "dead", "gone"}] /\ Root \in Pids
  BY TracerAssumption DEF IInv, TableInv, Types
<1>2. ASSUME NEW p \in Pids, NEW x, x # "absent", st' = [st EXCEPT ![p] = x]
      PROVE  st'[Root] # "absent"
  BY <1>1, <1>2
<1>4. CASE HandleNoRoom
  BY <1>1, <1>4 DEF HandleNoRoom
<1>5. CASE HandleBirth \/ HandleFork \/ HandleEntry \/ HandleLeave
  BY <1>1, <1>5 DEF HandleBirth, HandleFork, HandleEntry, HandleLeave, Continue
<1>6. CASE HandleEnd \/ HandleVanished
  BY <1>1, <1>6 DEF HandleEnd, HandleVanished
<1>7. CASE NoChild \/ \E p \in Pids : Wait(p)
  BY <1>7 DEF NoChild, Wait, procs
<1>8. ASSUME NEW p \in Pids, NEW c \in Pids, Fork(p, c) PROVE st'[Root] # "absent"
  BY <1>1, <1>8 DEF Fork
<1>9. ASSUME NEW p \in Pids, Kernel(p) \/ Exit(p) \/ Kill(p) \/ \E c \in Calls : Enter(p, c)
      PROVE  st'[Root] # "absent"
  BY <1>2, <1>9 DEF Kernel, Execute, Exit, Kill, Enter
<1>. QED BY <1>4, <1>5, <1>6, <1>7, <1>8, <1>9 DEF TracerNext, TracerStep, ProcessStep, Handle

(* What the three steps that end the loop return.                           *)
LEMMA ReturnStep == IInv /\ EndInv /\ EndsWithLast /\ TracerNext => EndsWithLast'
<1> SUFFICES ASSUME IInv, EndInv, EndsWithLast, TracerNext PROVE EndsWithLast'
  OBVIOUS
<1> USE DEF IInv, TableInv
<1>1. code \in [Pids -> Codes \cup {0, Signaled}]
  BY DEF Types
<1>2. NotOver # Failed /\ \A p \in Pids : code[p] # Failed
  <2>1. NotOver # Failed
    BY TracerAssumption DEF NotOver, Failed, Signaled
  <2>2. \A c \in Codes : c # Failed
    BY TracerAssumption DEF Failed
  <2>. QED BY <1>1, <2>1, <2>2 DEF Failed, Signaled
<1>3. CASE over' = NotOver
  BY <1>2, <1>3 DEF EndsWithLast
<1>4. CASE HandleEnd /\ over' # NotOver
  <2>1. /\ over' = code[Root] /\ code' = code /\ st'[Root] = "gone"
        /\ \A r \in Rows : tbl'[r].pid = NoPid
    BY <1>4 DEF HandleEnd, RootDone
  <2>2. \A p \in Pids : RowsOf(p)' = {}
    BY <2>1, TracerAssumption DEF RowsOf
  <2>3. Entered'
    BY EnteredStep DEF EndInv
  <2>. QED BY <1>2, <2>1, <2>2, <2>3, TracerAssumption DEF EndsWithLast, Entered
<1>5. CASE HandleVanished /\ over' # NotOver
  <2>1. over' = Failed /\ budget' = budget /\ budget.kills < MaxKills
    BY <1>5 DEF HandleVanished, Vanished, EndInv, VanishedIsKilled
  <2>. QED BY <2>1 DEF EndsWithLast
<1>6. CASE NoChild
  <2>1. /\ st' = st /\ code' = code /\ \A p \in Pids : st[p] \in {"absent", "gone"}
        /\ over' = IF st[Root] = "gone" THEN code[Root] ELSE Failed
    BY <1>6 DEF NoChild, procs
  <2>2. st[Root] = "gone"
    BY <2>1, TracerAssumption DEF EndInv
  <2>. QED BY <1>2, <2>1, <2>2, TracerAssumption DEF EndsWithLast
<1>7. over = NotOver
  BY DEF TracerNext, TracerStep, ProcessStep, Handle, HandleNoRoom, HandleBirth, HandleFork,
     HandleEntry, HandleLeave, HandleEnd, HandleVanished, Vanished, Held, NoChild, Wait, Kernel,
     Exit, Kill, Enter, Fork, Running
<1>8. CASE HandleNoRoom \/ HandleBirth \/ HandleFork \/ HandleEntry \/ HandleLeave
  <2>1. over' = over
    BY <1>8 DEF HandleNoRoom, HandleBirth, HandleFork, HandleEntry, HandleLeave, Continue
  <2>. QED BY <1>3, <1>7, <2>1
<1>9. CASE ProcessStep \/ \E p \in Pids : Wait(p)
  <2>1. over' = over
    BY <1>9 DEF ProcessStep, Wait, Kernel, Exit, Kill, Enter, Fork
  <2>. QED BY <1>3, <1>7, <2>1
<1>. QED BY <1>3, <1>4, <1>5, <1>6, <1>8, <1>9 DEF TracerNext, TracerStep, Handle

(* Nothing has been killed and nothing has ended. *)
LEMMA TracerInvHolds == TracerInit => TracerInv
<1> SUFFICES ASSUME TracerInit PROVE TracerInv
  OBVIOUS
<1>1. st[Root] = "birth" /\ \A p \in Pids : p # Root => st[p] = "absent"
  BY TracerAssumption DEF TracerInit
<1>2. RowsOf(Root) # {}
  BY TracerAssumption DEF TracerInit, RowsOf, NewRow, EmptyRow
<1>3. Entered
  BY <1>1, <1>2 DEF Entered
<1>4. VanishedIsKilled
  BY DEF TracerInit, VanishedIsKilled, Vanished
<1>5. EndsWithLast
  BY TracerAssumption DEF TracerInit, EndsWithLast, NotOver, Failed, Signaled
<1>. QED BY <1>1, <1>3, <1>4, <1>5, InitInv DEF TracerInv, EndInv

(* The parts about the end rest on the parts about the table. *)
LEMMA TracerInvStep == TracerInv /\ [TracerNext]_tvars => TracerInv'
<1> SUFFICES ASSUME TracerInv, [TracerNext]_tvars PROVE TracerInv'
  OBVIOUS
<1> USE DEF TracerInv
<1>1. IInv'
  BY StepInv
<1>2. CASE TracerNext
  BY <1>1, <1>2, EnteredStep, VanishedIsKilledStep, RootStep, ReturnStep DEF EndInv
<1>3. CASE UNCHANGED tvars
  BY <1>1, <1>3 DEF tvars, EndInv, Entered, VanishedIsKilled, Vanished, This, RowsOf, EndsWithLast
<1>. QED BY <1>2, <1>3

(* The executor returns the exit code of the program it was asked to run,    *)
(* and not before all of its processes have ended; it fails by itself only   *)
(* over a process killed from outside.                                      *)
THEOREM EndsAfterLast == TracerSpec => []EndsWithLast
<1>1. TracerInv => EndsWithLast
  BY DEF TracerInv
<1>. QED BY <1>1, TracerInvHolds, TracerInvStep, PTL DEF TracerSpec
==============================================================================
