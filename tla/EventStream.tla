----------------------------- MODULE EventStream -----------------------------
(***************************************************************************)
(* pdockerd's event stream: record_event appends one JSON line to          *)
(* events.jsonl under events_cond and wakes the waiting GET /events        *)
(* threads; every such thread (_handle_events) reads the file under the    *)
(* lock, remembers how many events it held, writes the selected ones to    *)
(* its client outside the lock, and waits again with a timeout.            *)
(*                                                                         *)
(* Abstracted: an event is its stamp and its kind (a client's filters      *)
(* select kinds); the clock counts seconds.  The file is the sequence of   *)
(* the lines that parse (log) and whether its last line is torn: a line    *)
(* appended after a torn one is glued to it and neither parses.            *)
(***************************************************************************)
EXTENDS Naturals, Sequences

CONSTANTS Clients,    \* connections that may ask for GET /events
          Recorders,  \* request and watcher threads that call record_event
          Kinds,      \* event kinds, as the filters tell them apart
          Wanted,     \* Wanted[c]: the kinds client c's filters let through
          MaxEvents,  \* bound on the record_event calls of a behaviour
          MaxTime,    \* bound on the clock
          NoUntil     \* the query names no until

ASSUME EventAssumption ==
    /\ Wanted \in [Clients -> SUBSET Kinds]
    /\ MaxEvents \in Nat /\ MaxTime \in Nat
    /\ NoUntil \notin Nat

VARIABLES log,      \* the events of events.jsonl that parse, in file order
          torn,     \* the file ends in a partial line
          clock,    \* time.time(), in seconds
          rec,      \* rec[r]: the event r has stamped and not yet appended
          calls,    \* record_event calls begun
          returned, \* record_event calls that returned
          conn      \* conn[c]: the state of c's _handle_events thread

vars == <<log, torn, clock, rec, calls, returned, conn>>

Time    == 0..MaxTime
Event   == [kind : Kinds, time : Time]
Windows == [since : Time, until : Time \cup {NoUntil}]
NoEvent == [kind |-> "none", time |-> 0]

(* selected(): the event passes since, until and the filters. *)
Selected(c, ev, w) ==
    /\ ev.time >= w.since
    /\ w.until = NoUntil \/ ev.time <= w.until
    /\ ev.kind \in Wanted[c]

Init ==
    /\ log = <<>> /\ torn = FALSE
    /\ clock = 0
    /\ rec = [r \in Recorders |-> NoEvent]
    /\ calls = 0 /\ returned = 0
    /\ conn = [c \in Clients |->
                 [pc |-> "closed", since |-> 0, until |-> NoUntil,
                  index |-> 0, pos |-> 1, sent |-> <<>>]]

Tick == /\ clock < MaxTime
        /\ clock' = clock + 1
        /\ UNCHANGED <<log, torn, rec, calls, returned, conn>>

NotifyAll == [c \in Clients |->
                IF conn[c].pc = "waiting" THEN [conn[c] EXCEPT !.pc = "woken"]
                                          ELSE conn[c]]

-----------------------------------------------------------------------------
(* Regressions the properties below must catch, one operator each: the file *)
(* opened for writing instead of appending, a wait with no timeout, and the *)
(* three ways to get the bookkeeping of the index wrong.                    *)

TimeoutNever(c) == FALSE /\ conn' = conn

ReloadWith(c, pos, index) ==
    /\ conn[c].pc = "woken"
    /\ LET k == conn[c] IN
       conn' = [conn EXCEPT ![c] = [k EXCEPT !.pc = "sending", !.pos = pos, !.index = index]]
    /\ UNCHANGED <<log, torn, clock, rec, calls, returned>>

ReloadKeepsIndex(c)        == ReloadWith(c, 1, Len(log))
ReloadFromIndexMinusOne(c) == ReloadWith(c, conn[c].index, Len(log))
ReloadSkipsOne(c)          == ReloadWith(c, conn[c].index + 2, Len(log))

-----------------------------------------------------------------------------
(* record_event *)

(* The stamp is taken before the lock. *)
Stamp(r, k) ==
    /\ rec[r] = NoEvent
    /\ calls < MaxEvents
    /\ calls' = calls + 1
    /\ rec' = [rec EXCEPT ![r] = [kind |-> k, time |-> clock]]
    /\ UNCHANGED <<log, torn, clock, returned, conn>>

(* Under events_cond: append the line, then notify_all. *)
AppendEvent(r) ==
    /\ rec[r] # NoEvent
    /\ log' = IF torn THEN log ELSE Append(log, rec[r])
    /\ torn' = FALSE
    /\ rec' = [rec EXCEPT ![r] = NoEvent]
    /\ returned' = returned + 1
    /\ conn' = NotifyAll
    /\ UNCHANGED <<clock, calls>>

(* The write stops short (no space left): record_event raises. *)
AppendFails(r) ==
    /\ rec[r] # NoEvent
    /\ torn' = TRUE
    /\ rec' = [rec EXCEPT ![r] = NoEvent]
    /\ UNCHANGED <<log, clock, calls, returned, conn>>

-----------------------------------------------------------------------------
(* _handle_events *)

(* Accept a request and load the backlog under the lock. *)
Connect(c, w) ==
    /\ conn[c].pc = "closed"
    /\ conn' = [conn EXCEPT ![c] =
                  [pc |-> "sending", since |-> w.since, until |-> w.until,
                   index |-> Len(log), pos |-> 1, sent |-> <<>>]]
    /\ UNCHANGED <<log, torn, clock, rec, calls, returned>>

Window(c) == [since |-> conn[c].since, until |-> conn[c].until]

(* One turn of the loop over selected(events, index), outside the lock. *)
WriteNext(c) ==
    /\ conn[c].pc = "sending"
    /\ conn[c].pos <= conn[c].index
    /\ LET k == conn[c] IN
       conn' = [conn EXCEPT ![c] =
                  [k EXCEPT !.pos = k.pos + 1,
                            !.sent = IF Selected(c, log[k.pos], Window(c))
                                     THEN Append(k.sent, k.pos) ELSE k.sent]]
    /\ UNCHANGED <<log, torn, clock, rec, calls, returned>>

(* Everything loaded is written: wait again, or end a stream whose until *)
(* has passed.                                                           *)
LoopHead(c) ==
    /\ conn[c].pc = "sending"
    /\ conn[c].pos > conn[c].index
    /\ conn' = [conn EXCEPT ![c].pc =
                  IF conn[c].until # NoUntil /\ clock > conn[c].until
                  THEN "closed" ELSE "waiting"]
    /\ UNCHANGED <<log, torn, clock, rec, calls, returned>>

(* events_cond.wait(timeout=...) gives up waiting. *)
Timeout(c) ==
    /\ conn[c].pc = "waiting"
    /\ conn' = [conn EXCEPT ![c].pc = "woken"]
    /\ UNCHANGED <<log, torn, clock, rec, calls, returned>>

(* wait() has the lock again: reload, select from the old index, advance it. *)
Reload(c) ==
    /\ conn[c].pc = "woken"
    /\ conn' = [conn EXCEPT ![c] =
                  [@ EXCEPT !.pc = "sending",
                            !.pos = conn[c].index + 1, !.index = Len(log)]]
    /\ UNCHANGED <<log, torn, clock, rec, calls, returned>>

(* A write hits a closed socket. *)
Disconnect(c) ==
    /\ conn[c].pc = "sending"
    /\ conn' = [conn EXCEPT ![c].pc = "closed"]
    /\ UNCHANGED <<log, torn, clock, rec, calls, returned>>

(* The daemon is killed; an append it was making may be cut short. *)
Crash ==
    /\ torn' \in {torn, torn \/ \E r \in Recorders : rec[r] # NoEvent}
    /\ rec' = [r \in Recorders |-> NoEvent]
    /\ conn' = [c \in Clients |-> [conn[c] EXCEPT !.pc = "closed"]]
    /\ UNCHANGED <<log, clock, calls, returned>>

-----------------------------------------------------------------------------
Next == \/ Tick
        \/ \E r \in Recorders, k \in Kinds : Stamp(r, k)
        \/ \E r \in Recorders : AppendEvent(r)
        \/ \E r \in Recorders : AppendFails(r)
        \/ \E c \in Clients, w \in Windows : Connect(c, w)
        \/ \E c \in Clients : WriteNext(c)
        \/ \E c \in Clients : LoopHead(c)
        \/ \E c \in Clients : Timeout(c)
        \/ \E c \in Clients : Reload(c)
        \/ \E c \in Clients : Disconnect(c)
        \/ Crash

Spec == Init /\ [][Next]_vars

(* The scheduler runs a thread that can run, and a timed wait ends. *)
Fairness == \A c \in Clients :
               WF_vars(WriteNext(c)) /\ WF_vars(LoopHead(c))
               /\ WF_vars(Timeout(c)) /\ WF_vars(Reload(c))

LiveSpec == Spec /\ Fairness

-----------------------------------------------------------------------------
Conn == [pc : {"closed", "sending", "waiting", "woken"}, since : Time,
         until : Time \cup {NoUntil}, index : Nat, pos : Nat \ {0},
         sent : Seq(Nat)]

(* Types of the file, the recorders and the connections. *)
TypeOK ==
    /\ log \in Seq(Event) /\ torn \in BOOLEAN /\ clock \in Time
    /\ rec \in [Recorders -> Event \cup {NoEvent}]
    /\ calls \in Nat /\ returned \in Nat
    /\ conn \in [Clients -> Conn]

(* What a client has been sent is, in file order and once each, every       *)
(* event of its window up to the point its thread has reached: reading the  *)
(* file under the lock and writing outside it skips and repeats nothing.    *)
StreamExact ==
    \A c \in Clients :
       LET s == conn[c].sent IN
       /\ \A i \in 1..Len(s), j \in 1..Len(s) : i < j => s[i] < s[j]
       /\ {s[i] : i \in 1..Len(s)} =
            {p \in 1..(conn[c].pos - 1) :
               p <= Len(log) /\ Selected(c, log[p], Window(c))}

(* An open-ended stream does not stall: every event of its window is        *)
(* written to the client, unless the connection ends.                       *)
Sent(c, p) == \E i \in 1..Len(conn[c].sent) : conn[c].sent[i] = p

EveryEventDelivered ==
    \A c \in Clients, p \in 1..MaxEvents :
       (/\ conn[c].pc # "closed"
        /\ p <= Len(log)
        /\ Selected(c, log[p], Window(c)))
         ~> (Sent(c, p) \/ conn[c].pc = "closed" )

(* "Events are kept on disk so reconnecting clients can replay recent state *)
(* transitions": an event record_event returned for can be read back.       *)
RecordedIsReplayable == returned = Len(log)

(* The stream is the feed it promises to be. *)
Feed == INSTANCE EventFeed
          WITH feed <- log,
               window <- [c \in Clients |-> <<c, Window(c)>>],
               open <- [c \in Clients |-> conn[c].pc # "closed"],
               got <- [c \in Clients |-> conn[c].sent],
               Events <- Event,
               Windows <- Clients \X Windows,
               InWindow <- LAMBDA ev, w : Selected(w[1], ev, w[2])

ImplementsFeed == Feed!Spec
==============================================================================
