-------------------------- MODULE EventStreamProofs --------------------------
(***************************************************************************)
(* Type correctness of EventStream and exactness of its streams, for any   *)
(* number of clients and recorders and any bounds.                         *)
(***************************************************************************)
EXTENDS EventStream, TLAPS

(* The loaded part of the file is in the file, a thread never reads past   *)
(* what it loaded, and it only waits once all of that is written.          *)
Progress ==
    \A c \in Clients :
       /\ conn[c].index <= Len(log)
       /\ conn[c].pos <= conn[c].index + 1
       /\ conn[c].pc \in {"waiting", "woken"} => conn[c].pos = conn[c].index + 1

(* TypeOK gives the types of what Progress and StreamExact relate.         *)
IInv == TypeOK /\ Progress /\ StreamExact

(* Types are preserved by every step: the file, the recorders and the      *)
(* connections of pdockerd's event stream keep their shape.                *)
LEMMA TypeStep == TypeOK /\ [Next]_vars => TypeOK'
<1> SUFFICES ASSUME TypeOK, [Next]_vars PROVE TypeOK'
  OBVIOUS
<1> USE DEF TypeOK
<1>1. CASE Tick
  BY <1>1, EventAssumption DEF Tick, Time
<1>2. ASSUME NEW r \in Recorders, NEW k \in Kinds, Stamp(r, k) PROVE TypeOK'
  <2>1. [kind |-> k, time |-> clock] \in Event
    BY DEF Event
  <2>. QED BY <1>2, <2>1 DEF Stamp
<1>3. ASSUME NEW r \in Recorders, AppendEvent(r) PROVE TypeOK'
  <2>1. rec[r] \in Event
    BY <1>3 DEF AppendEvent
  <2>2. log' \in Seq(Event)
    BY <1>3, <2>1 DEF AppendEvent
  <2>3. conn' \in [Clients -> Conn]
    <3>1. \A c \in Clients : [conn[c] EXCEPT !.pc = "woken"] \in Conn
      BY DEF Conn
    <3>. QED BY <1>3, <3>1 DEF AppendEvent, NotifyAll
  <2>4. rec' \in [Recorders -> Event \cup {NoEvent}] /\ returned' \in Nat
    BY <1>3 DEF AppendEvent
  <2>. QED BY <1>3, <2>2, <2>3, <2>4 DEF AppendEvent
<1>4. ASSUME NEW r \in Recorders, AppendFails(r) PROVE TypeOK'
  BY <1>4 DEF AppendFails
<1>5. ASSUME NEW c \in Clients, NEW w \in Windows, Connect(c, w) PROVE TypeOK'
  <2>1. [pc |-> "sending", since |-> w.since, until |-> w.until,
         index |-> Len(log), pos |-> 1, sent |-> <<>>] \in Conn
    BY DEF Conn, Windows
  <2>2. conn' \in [Clients -> Conn]
    BY <1>5, <2>1 DEF Connect
  <2>3. UNCHANGED <<log, torn, clock, rec, calls, returned>>
    BY <1>5 DEF Connect
  <2>. QED BY <2>2, <2>3
<1>6. ASSUME NEW c \in Clients, WriteNext(c) PROVE TypeOK'
  <2>1. conn[c].pos + 1 \in Nat \ {0} /\ Append(conn[c].sent, conn[c].pos) \in Seq(Nat)
    BY DEF Conn
  <2>2. conn' \in [Clients -> Conn]
    <3> DEFINE rest == IF Selected(c, log[conn[c].pos], Window(c))
                       THEN Append(conn[c].sent, conn[c].pos) ELSE conn[c].sent
    <3>1. [conn[c] EXCEPT !.pos = conn[c].pos + 1, !.sent = rest] \in Conn
      BY <2>1 DEF Conn
    <3>. QED BY <1>6, <3>1 DEF WriteNext
  <2>3. UNCHANGED <<log, torn, clock, rec, calls, returned>>
    BY <1>6 DEF WriteNext
  <2>. QED BY <2>2, <2>3
<1>7. ASSUME NEW c \in Clients, LoopHead(c) PROVE TypeOK'
  <2>1. \A x \in {"closed", "waiting", "woken"} : [conn[c] EXCEPT !.pc = x] \in Conn
    BY DEF Conn
  <2>2. conn' \in [Clients -> Conn]
    BY <1>7, <2>1 DEF LoopHead
  <2>3. UNCHANGED <<log, torn, clock, rec, calls, returned>>
    BY <1>7 DEF LoopHead
  <2>. QED BY <2>2, <2>3
<1>8. ASSUME NEW c \in Clients, Timeout(c) PROVE TypeOK'
  <2>1. \A x \in {"closed", "waiting", "woken"} : [conn[c] EXCEPT !.pc = x] \in Conn
    BY DEF Conn
  <2>2. conn' \in [Clients -> Conn]
    BY <1>8, <2>1 DEF Timeout
  <2>3. UNCHANGED <<log, torn, clock, rec, calls, returned>>
    BY <1>8 DEF Timeout
  <2>. QED BY <2>2, <2>3
<1>9. ASSUME NEW c \in Clients, Reload(c) PROVE TypeOK'
  <2>1. conn[c].index + 1 \in Nat \ {0} /\ Len(log) \in Nat
    BY DEF Conn
  <2>2. conn' \in [Clients -> Conn]
    <3>1. [conn[c] EXCEPT !.pc = "sending", !.pos = conn[c].index + 1, !.index = Len(log)] \in Conn
      BY <2>1 DEF Conn
    <3>. QED BY <1>9, <3>1 DEF Reload
  <2>3. UNCHANGED <<log, torn, clock, rec, calls, returned>>
    BY <1>9 DEF Reload
  <2>. QED BY <2>2, <2>3
<1>10. ASSUME NEW c \in Clients, Disconnect(c) PROVE TypeOK'
  <2>1. \A x \in {"closed", "waiting", "woken"} : [conn[c] EXCEPT !.pc = x] \in Conn
    BY DEF Conn
  <2>2. conn' \in [Clients -> Conn]
    BY <1>10, <2>1 DEF Disconnect
  <2>3. UNCHANGED <<log, torn, clock, rec, calls, returned>>
    BY <1>10 DEF Disconnect
  <2>. QED BY <2>2, <2>3
<1>11. CASE Crash
  <2>1. \A c \in Clients : [conn[c] EXCEPT !.pc = "closed"] \in Conn
    BY DEF Conn
  <2>2. conn' \in [Clients -> Conn]
    BY <1>11, <2>1 DEF Crash
  <2>3. rec' \in [Recorders -> Event \cup {NoEvent}] /\ torn' \in BOOLEAN
    BY <1>11 DEF Crash
  <2>4. UNCHANGED <<log, clock, calls, returned>>
    BY <1>11 DEF Crash
  <2>. QED BY <2>2, <2>3, <2>4
<1>12. CASE UNCHANGED vars
  BY <1>12 DEF vars
<1>. QED BY <1>1, <1>2, <1>3, <1>4, <1>5, <1>6, <1>7, <1>8, <1>9, <1>10, <1>11, <1>12 DEF Next

(* The daemon starts in a well-typed state. *)
LEMMA InitType == Init => TypeOK
<1> SUFFICES ASSUME Init PROVE TypeOK
  OBVIOUS
<1>1. 0 \in Time /\ <<>> \in Seq(Event) /\ <<>> \in Seq(Nat)
  BY EventAssumption DEF Time
<1>2. conn \in [Clients -> Conn]
  BY <1>1 DEF Init, Conn
<1>. QED BY <1>1, <1>2 DEF Init, TypeOK

(* Every reachable state of the event stream is well typed. *)
THEOREM TypeCorrect == Spec => []TypeOK
<1>. QED BY InitType, TypeStep, PTL DEF Spec

(* What StreamExact says of one connection. *)
Exact(c) ==
    /\ \A i, j \in 1..Len(conn[c].sent) :
          i < j => conn[c].sent[i] < conn[c].sent[j]
    /\ {conn[c].sent[i] : i \in 1..Len(conn[c].sent)} =
         {p \in 1..(conn[c].pos - 1) :
            p <= Len(log) /\ Selected(c, log[p], Window(c))}

(* A step that leaves a connection's stream and window alone, and only     *)
(* appends to the file, keeps the stream exact.                            *)
LEMMA KeepsStream ==
    ASSUME NEW c \in Clients, IInv, log' \in Seq(Event),
           Len(log) <= Len(log'), \A p \in 1..Len(log) : log'[p] = log[p],
           conn'[c].sent = conn[c].sent, conn'[c].pos = conn[c].pos,
           conn'[c].since = conn[c].since, conn'[c].until = conn[c].until
    PROVE  Exact(c)'
<1>1. /\ conn[c].pos \in Nat /\ conn[c].index \in Nat
      /\ Len(log) \in Nat /\ Len(log') \in Nat
      /\ conn[c].pos <= conn[c].index + 1 /\ conn[c].index <= Len(log)
  BY DEF IInv, Progress, TypeOK, Conn
<1>2. Window(c)' = Window(c)
  BY DEF Window
<1>3. \A p \in 1..(conn[c].pos - 1) :
         p <= Len(log) /\ p <= Len(log') /\ log'[p] = log[p]
  BY <1>1
<1>4. {p \in 1..(conn[c].pos - 1) :
          p <= Len(log') /\ Selected(c, log'[p], Window(c)')}
       = {p \in 1..(conn[c].pos - 1) :
            p <= Len(log) /\ Selected(c, log[p], Window(c))}
  BY <1>2, <1>3
<1>. QED BY <1>4 DEF IInv, StreamExact, Exact

(* One more event written keeps the stream exact. *)
LEMMA WriteKeepsStream ==
    ASSUME NEW c \in Clients, IInv, WriteNext(c)
    PROVE  Exact(c)'
<1> DEFINE s == conn[c].sent
           p == conn[c].pos
           taken == {q \in 1..(p - 1) : q <= Len(log) /\ Selected(c, log[q], Window(c))}
<1>1. /\ p \in Nat \ {0} /\ s \in Seq(Nat) /\ Len(log) \in Nat
      /\ conn[c].index \in Nat /\ p <= Len(log)
  BY DEF IInv, Progress, TypeOK, Conn, WriteNext
<1>2. /\ conn'[c].pos = p + 1
      /\ Window(c)' = Window(c)
      /\ log' = log
      /\ conn'[c].sent = IF Selected(c, log[p], Window(c)) THEN Append(s, p) ELSE s
  <2>1. /\ conn \in [Clients -> Conn] /\ log' = log
        /\ conn' = [conn EXCEPT ![c] =
                      [conn[c] EXCEPT !.pos = p + 1,
                         !.sent = IF Selected(c, log[p], Window(c)) THEN Append(s, p) ELSE s]]
    BY DEF IInv, TypeOK, WriteNext
  <2>2. conn'[c] = [conn[c] EXCEPT !.pos = p + 1,
                      !.sent = IF Selected(c, log[p], Window(c)) THEN Append(s, p) ELSE s]
    BY <2>1
  <2>. QED BY <2>1, <2>2 DEF Conn, Window
<1>3. /\ \A i, j \in 1..Len(s) : i < j => s[i] < s[j]
      /\ {s[i] : i \in 1..Len(s)} = taken
  BY DEF IInv, StreamExact
<1>4. \A i \in 1..Len(s) : s[i] < p
  <2>1. ASSUME NEW i \in 1..Len(s) PROVE s[i] \in taken
    BY <1>3
  <2>. QED BY <1>1, <2>1
<1>5. CASE Selected(c, log[p], Window(c))
  <2>1. conn'[c].sent = Append(s, p) /\ Len(Append(s, p)) = Len(s) + 1
    BY <1>1, <1>2, <1>5
  <2>2. \A i \in 1..Len(Append(s, p)) : Append(s, p)[i] = IF i = Len(s) + 1 THEN p ELSE s[i]
    BY <1>1, <2>1
  <2>3. \A i, j \in 1..Len(Append(s, p)) : i < j => Append(s, p)[i] < Append(s, p)[j]
    BY <1>1, <1>3, <1>4, <2>1, <2>2
  <2>4. {Append(s, p)[i] : i \in 1..Len(Append(s, p))} = {s[i] : i \in 1..Len(s)} \cup {p}
    <3>1. Len(s) \in Nat
      BY <1>1
    <3>2. 1..Len(Append(s, p)) = 1..Len(s) \cup {Len(s) + 1}
      BY <3>1, <2>1
    <3>3. \A i \in 1..Len(s) : Append(s, p)[i] = s[i]
      BY <3>1, <2>1, <2>2
    <3>4. Append(s, p)[Len(s) + 1] = p
      BY <3>1, <2>1, <2>2
    <3>. QED BY <3>2, <3>3, <3>4
  <2>5. {q \in 1..(p + 1 - 1) : q <= Len(log) /\ Selected(c, log[q], Window(c))} = taken \cup {p}
    BY <1>1, <1>5
  <2>6. {q \in 1..(conn'[c].pos - 1) : q <= Len(log') /\ Selected(c, log'[q], Window(c)')}
         = {q \in 1..(p + 1 - 1) : q <= Len(log) /\ Selected(c, log[q], Window(c))}
    <3>1. conn'[c].pos - 1 = p + 1 - 1
      BY <1>1, <1>2
    <3>3. log' = log
      BY <1>2
    <3>4. Window(c)' = Window(c)
      BY <1>2
    <3>2. \A q \in 1..(p + 1 - 1) : (q <= Len(log') /\ Selected(c, log'[q], Window(c)'))
                                     <=> (q <= Len(log) /\ Selected(c, log[q], Window(c)))
      BY <3>3, <3>4
    <3>. QED BY <3>1, <3>2
  <2>7. {conn'[c].sent[i] : i \in 1..Len(conn'[c].sent)} = taken \cup {p}
    BY <1>3, <2>1, <2>4
  <2>. QED BY <2>1, <2>3, <2>5, <2>6, <2>7 DEF Exact
<1>6. CASE ~Selected(c, log[p], Window(c))
  <2>1. {q \in 1..(p + 1 - 1) : q <= Len(log) /\ Selected(c, log[q], Window(c))} = taken
    BY <1>1, <1>6
  <2>2. conn'[c].sent = s
    BY <1>2, <1>6
  <2>3. {q \in 1..(conn'[c].pos - 1) : q <= Len(log') /\ Selected(c, log'[q], Window(c)')}
         = {q \in 1..(p + 1 - 1) : q <= Len(log) /\ Selected(c, log[q], Window(c))}
    <3>1. conn'[c].pos - 1 = p + 1 - 1
      BY <1>1, <1>2
    <3>3. log' = log
      BY <1>2
    <3>4. Window(c)' = Window(c)
      BY <1>2
    <3>2. \A q \in 1..(p + 1 - 1) : (q <= Len(log') /\ Selected(c, log'[q], Window(c)'))
                                     <=> (q <= Len(log) /\ Selected(c, log[q], Window(c)))
      BY <3>3, <3>4
    <3>. QED BY <3>1, <3>2
  <2>4. {conn'[c].sent[i] : i \in 1..Len(conn'[c].sent)} = taken
    BY <1>3, <2>2
  <2>. QED BY <1>3, <2>1, <2>2, <2>3, <2>4 DEF Exact
<1>. QED BY <1>5, <1>6

(* The strengthened invariant is preserved by every step. *)
LEMMA InvStep == IInv /\ [Next]_vars => IInv'
<1> SUFFICES ASSUME IInv, [Next]_vars PROVE IInv'
  OBVIOUS
<1>0. TypeOK /\ TypeOK'
  BY TypeStep DEF IInv
<1>1. SUFFICES Progress' /\ \A c \in Clients : Exact(c)'
  BY <1>0 DEF IInv, StreamExact, Exact
<1>a. log \in Seq(Event) /\ log' \in Seq(Event) /\ Len(log) \in Nat /\ Len(log') \in Nat
  BY <1>0 DEF TypeOK
<1>b. \A c \in Clients : conn[c] \in Conn /\ conn[c].pos \in Nat /\ conn[c].index \in Nat
  BY <1>0 DEF TypeOK, Conn
<1>2. ASSUME UNCHANGED <<log, conn>> PROVE Progress' /\ \A c \in Clients : Exact(c)'
  BY <1>2 DEF IInv, Progress, StreamExact, Exact, Window
<1>3. ASSUME NEW r \in Recorders, AppendEvent(r) PROVE Progress' /\ \A c \in Clients : Exact(c)'
  <2>1. Len(log) <= Len(log') /\ \A p \in 1..Len(log) : log'[p] = log[p]
    BY <1>3, <1>a DEF AppendEvent, TypeOK
  <2>2. \A c \in Clients : /\ conn'[c].sent = conn[c].sent /\ conn'[c].pos = conn[c].pos
                           /\ conn'[c].since = conn[c].since /\ conn'[c].until = conn[c].until
                           /\ conn'[c].index = conn[c].index
                           /\ conn'[c].pc \in {"waiting", "woken"} => conn[c].pc \in {"waiting", "woken"}
    BY <1>3, <1>b DEF AppendEvent, NotifyAll, Conn
  <2>3. Progress'
    BY <2>1, <2>2, <1>a, <1>b DEF IInv, Progress
  <2>. QED BY <2>1, <2>2, <2>3, <1>a, KeepsStream
<1>4. ASSUME NEW c \in Clients, NEW w \in Windows, Connect(c, w)
      PROVE  Progress' /\ \A d \in Clients : Exact(d)'
  <2>1. /\ log' = log /\ conn'[c].pos = 1 /\ conn'[c].index = Len(log)
        /\ conn'[c].sent = <<>> /\ conn'[c].pc = "sending"
        /\ \A d \in Clients \ {c} : conn'[d] = conn[d]
    BY <1>4, <1>0 DEF Connect, TypeOK
  <2>2. Progress'
    BY <2>1, <1>a DEF IInv, Progress
  <2>3. Exact(c)'
    BY <2>1 DEF Exact
  <2>4. ASSUME NEW d \in Clients \ {c} PROVE Exact(d)'
    BY <2>1, <1>a, KeepsStream
  <2>. QED BY <2>2, <2>3, <2>4
<1>5. ASSUME NEW c \in Clients, WriteNext(c) PROVE Progress' /\ \A d \in Clients : Exact(d)'
  <2>1. /\ log' = log /\ conn'[c].index = conn[c].index /\ conn'[c].pos = conn[c].pos + 1
        /\ conn[c].pos <= conn[c].index /\ conn'[c].pc = "sending"
        /\ \A d \in Clients \ {c} : conn'[d] = conn[d]
    BY <1>5, <1>0, <1>b DEF WriteNext, TypeOK, Conn
  <2>2. Progress'
    BY <2>1, <1>a, <1>b DEF IInv, Progress
  <2>3. Exact(c)'
    BY <1>5, WriteKeepsStream
  <2>4. ASSUME NEW d \in Clients \ {c} PROVE Exact(d)'
    BY <2>1, <1>a, KeepsStream
  <2>. QED BY <2>2, <2>3, <2>4
<1>6. ASSUME NEW c \in Clients, LoopHead(c) \/ Timeout(c) \/ Disconnect(c)
      PROVE  Progress' /\ \A d \in Clients : Exact(d)'
  <2>1. log' = log
    BY <1>6 DEF LoopHead, Timeout, Disconnect
  <2>2. /\ conn'[c].sent = conn[c].sent /\ conn'[c].pos = conn[c].pos
        /\ conn'[c].since = conn[c].since /\ conn'[c].until = conn[c].until
        /\ conn'[c].index = conn[c].index
    BY <1>6, <1>0, <1>b DEF LoopHead, Timeout, Disconnect, TypeOK, Conn
  <2>3. \A d \in Clients \ {c} : conn'[d] = conn[d]
    BY <1>6, <1>0 DEF LoopHead, Timeout, Disconnect, TypeOK
  <2>4. conn'[c].pc \in {"waiting", "woken"} => conn[c].pos = conn[c].index + 1
    BY <1>6, <1>0, <1>b DEF LoopHead, Timeout, Disconnect, TypeOK, Conn, IInv, Progress
  <2>5. Progress'
    BY <2>1, <2>2, <2>3, <2>4, <1>a, <1>b DEF IInv, Progress
  <2>6. ASSUME NEW d \in Clients PROVE Exact(d)'
    BY <2>1, <2>2, <2>3, <1>a, KeepsStream
  <2>. QED BY <2>5, <2>6
<1>7. ASSUME NEW c \in Clients, Reload(c) PROVE Progress' /\ \A d \in Clients : Exact(d)'
  <2>1. /\ log' = log /\ conn'[c].index = Len(log) /\ conn'[c].pos = conn[c].index + 1
        /\ conn'[c].pc = "sending" /\ conn[c].pc = "woken"
        /\ conn'[c].sent = conn[c].sent
        /\ conn'[c].since = conn[c].since /\ conn'[c].until = conn[c].until
        /\ \A d \in Clients \ {c} : conn'[d] = conn[d]
    BY <1>7, <1>0, <1>b DEF Reload, TypeOK, Conn
  <2>2. conn[c].pos = conn[c].index + 1 /\ conn[c].index <= Len(log)
    BY <2>1 DEF IInv, Progress
  <2>3. Progress'
    BY <2>1, <2>2, <1>a, <1>b DEF IInv, Progress
  <2>4. ASSUME NEW d \in Clients PROVE Exact(d)'
    BY <2>1, <2>2, <1>a, <1>b, KeepsStream
  <2>. QED BY <2>3, <2>4
<1>8. ASSUME Crash PROVE Progress' /\ \A c \in Clients : Exact(c)'
  <2>1. log' = log
    BY <1>8 DEF Crash
  <2>2. \A c \in Clients : /\ conn'[c].sent = conn[c].sent /\ conn'[c].pos = conn[c].pos
                           /\ conn'[c].since = conn[c].since /\ conn'[c].until = conn[c].until
                           /\ conn'[c].index = conn[c].index /\ conn'[c].pc = "closed"
    BY <1>8, <1>b DEF Crash, Conn
  <2>3. Progress'
    BY <2>1, <2>2, <1>a, <1>b DEF IInv, Progress
  <2>. QED BY <2>1, <2>2, <2>3, <1>a, KeepsStream
<1>. QED BY <1>2, <1>3, <1>4, <1>5, <1>6, <1>7, <1>8
         DEF Next, vars, Tick, Stamp, AppendFails

(* What every client of GET /events has been sent is exactly the events of *)
(* its window up to the point its thread has reached, in order and once.   *)
THEOREM StreamsExact == Spec => []StreamExact
<1>1. Init => IInv
  <2> SUFFICES ASSUME Init PROVE Progress /\ StreamExact
    BY InitType DEF IInv
  <2>. QED BY DEF Init, Progress, StreamExact
<1>2. IInv => StreamExact
  BY DEF IInv
<1>. QED BY <1>1, <1>2, InvStep, PTL DEF Spec

-----------------------------------------------------------------------------
(* The refinement *)

(* A step that keeps the file, the windows, the streams and who is connected *)
(* is not seen by the feed.                                                 *)
LEMMA Unseen ==
    ASSUME log' = log,
           \A c \in Clients : /\ conn'[c].sent = conn[c].sent
                              /\ conn'[c].since = conn[c].since /\ conn'[c].until = conn[c].until
                              /\ conn'[c].pc = "closed" <=> conn[c].pc = "closed"
    PROVE  UNCHANGED Feed!fvars
BY DEF Feed!fvars, Window

(* A fresh daemon is an empty feed. *)
LEMMA InitFeed == Init => Feed!Init
<1> SUFFICES ASSUME Init PROVE Feed!Init
  OBVIOUS
<1>1. [since |-> 0, until |-> NoUntil] \in Windows
  BY EventAssumption DEF Windows, Time
<1>2. \A c \in Clients : <<c, Window(c)>> \in Clients \X Windows
  BY <1>1 DEF Init, Window
<1>. QED BY <1>2 DEF Feed!Init, Init

(* The event that is written next is the next one of the window: everything *)
(* selected before it has been sent, and nothing after.                      *)
LEMMA WriteDelivers ==
    ASSUME IInv, NEW c \in Clients, WriteNext(c), Selected(c, log[conn[c].pos], Window(c))
    PROVE  Feed!Deliver(c)
<1> DEFINE s == conn[c].sent
           p == conn[c].pos
           reached == IF s = <<>> THEN 0 ELSE s[Len(s)]
<1>1. /\ p \in Nat \ {0} /\ s \in Seq(Nat) /\ Len(log) \in Nat /\ p <= Len(log)
      /\ conn[c].pc = "sending" /\ conn \in [Clients -> Conn]
  BY DEF IInv, Progress, TypeOK, Conn, WriteNext
<1>2. /\ \A i, j \in 1..Len(s) : i < j => s[i] < s[j]
      /\ {s[i] : i \in 1..Len(s)} =
           {q \in 1..(p - 1) : q <= Len(log) /\ Selected(c, log[q], Window(c))}
  BY DEF IInv, StreamExact
<1>3. /\ reached \in Nat /\ reached < p
      /\ \A i \in 1..Len(s) : s[i] <= reached
  <2>1. CASE s = <<>>
    BY <1>1, <2>1
  <2>2. CASE s # <<>>
    <3>1. Len(s) \in 1..Len(s) /\ reached = s[Len(s)]
      BY <1>1, <2>2
    <3>2. s[Len(s)] \in 1..(p - 1)
      BY <1>2, <3>1
    <3>3. \A i \in 1..Len(s) : s[i] \in Nat /\ (i = Len(s) \/ s[i] < s[Len(s)])
      BY <1>1, <1>2, <3>1
    <3>. QED BY <1>1, <3>1, <3>2, <3>3
  <2>. QED BY <2>1, <2>2
<1>4. p \in (reached + 1)..Len(log)
  BY <1>1, <1>3
<1>5. ASSUME NEW q \in (reached + 1)..(p - 1), Selected(c, log[q], Window(c)) PROVE FALSE
  <2>1. q \in 1..(p - 1) /\ q <= Len(log) /\ q > reached
    BY <1>1, <1>3
  <2>2. PICK i \in 1..Len(s) : s[i] = q
    BY <1>2, <1>5, <2>1
  <2>. QED BY <1>1, <1>3, <2>1, <2>2
<1>6. /\ conn'[c].sent = Append(s, p) /\ \A d \in Clients : d # c => conn'[d] = conn[d]
      /\ conn'[c].since = conn[c].since /\ conn'[c].until = conn[c].until /\ conn'[c].pc = conn[c].pc
      /\ log' = log
  <2>1. conn' = [conn EXCEPT ![c] = [conn[c] EXCEPT !.pos = p + 1, !.sent = Append(s, p)]]
    BY DEF WriteNext
  <2>2. conn'[c] = [conn[c] EXCEPT !.pos = p + 1, !.sent = Append(s, p)]
    BY <1>1, <2>1
  <2>. QED BY <1>1, <2>1, <2>2 DEF WriteNext, Conn
<1> HIDE DEF s, p, reached
<1>7. [d \in Clients |-> conn'[d].sent] = [[d \in Clients |-> conn[d].sent] EXCEPT ![c] = Append(s, p)]
  BY <1>6
<1>8. /\ [d \in Clients |-> <<d, Window(d)'>>] = [d \in Clients |-> <<d, Window(d)>>]
      /\ [d \in Clients |-> conn'[d].pc # "closed"] = [d \in Clients |-> conn[d].pc # "closed"]
  <2>1. \A d \in Clients : Window(d)' = Window(d) /\ conn'[d].pc = conn[d].pc
    BY <1>6 DEF Window
  <2>. QED BY <2>1
<1>. QED BY <1>1, <1>4, <1>5, <1>6, <1>7, <1>8 DEF Feed!Deliver, Feed!Reached, s, p, reached

(* Connections that end, one or all, are ended in the feed. *)
LEMMA Ends ==
    ASSUME NEW S \in SUBSET Clients, S # {}, log' = log,
           \A c \in Clients : /\ conn'[c].sent = conn[c].sent
                              /\ conn'[c].since = conn[c].since /\ conn'[c].until = conn[c].until
                              /\ conn'[c].pc # "closed" <=> conn[c].pc # "closed" /\ c \notin S
    PROVE  Feed!Next
<1>1. Feed!Close(S)
  BY DEF Feed!Close, Window
<1>. QED BY <1>1 DEF Feed!Next

(* Every step of the daemon is a step of the feed or is not seen there. *)
LEMMA StepFeed == IInv /\ [Next]_vars => [Feed!Next]_(Feed!fvars)
<1> SUFFICES ASSUME IInv, [Next]_vars PROVE Feed!Next \/ UNCHANGED Feed!fvars
  OBVIOUS
<1>a. conn \in [Clients -> Conn] /\ log \in Seq(Event) /\ rec \in [Recorders -> Event \cup {NoEvent}]
  BY DEF IInv, TypeOK
<1>1. ASSUME UNCHANGED <<log, conn>> PROVE UNCHANGED Feed!fvars
  BY <1>1, Unseen
<1>2. ASSUME NEW r \in Recorders, AppendEvent(r) PROVE Feed!Next \/ UNCHANGED Feed!fvars
  <2>1. \A c \in Clients : /\ conn'[c].sent = conn[c].sent
                           /\ conn'[c].since = conn[c].since /\ conn'[c].until = conn[c].until
                           /\ conn'[c].pc = "closed" <=> conn[c].pc = "closed"
    BY <1>2, <1>a DEF AppendEvent, NotifyAll, Conn
  <2>2. CASE torn
    BY <1>2, <2>1, <2>2, Unseen DEF AppendEvent
  <2>3. CASE ~torn
    <3>1. log' = Append(log, rec[r]) /\ rec[r] \in Event
      BY <1>2, <1>a, <2>3 DEF AppendEvent
    <3>2. /\ [c \in Clients |-> conn'[c].sent] = [c \in Clients |-> conn[c].sent]
          /\ [c \in Clients |-> <<c, Window(c)'>>] = [c \in Clients |-> <<c, Window(c)>>]
          /\ [c \in Clients |-> conn'[c].pc # "closed"] = [c \in Clients |-> conn[c].pc # "closed"]
      BY <2>1 DEF Window
    <3>3. Feed!Publish(rec[r])
      BY <3>1, <3>2 DEF Feed!Publish
    <3>. QED BY <3>1, <3>3 DEF Feed!Next
  <2>. QED BY <2>2, <2>3
<1>3. ASSUME NEW c \in Clients, NEW w \in Windows, Connect(c, w) PROVE Feed!Next
  <2>1. /\ conn[c].pc = "closed" /\ conn'[c].pc = "sending" /\ conn'[c].sent = <<>>
        /\ conn'[c].since = w.since /\ conn'[c].until = w.until /\ log' = log
        /\ \A d \in Clients : d # c => conn'[d] = conn[d]
    BY <1>3, <1>a DEF Connect
  <2>2. Window(c)' = w /\ \A d \in Clients : d # c => Window(d)' = Window(d)
    BY <2>1 DEF Window, Windows
  <2>3. /\ [d \in Clients |-> conn'[d].sent] = [[d \in Clients |-> conn[d].sent] EXCEPT ![c] = <<>>]
        /\ [d \in Clients |-> <<d, Window(d)'>>] = [[d \in Clients |-> <<d, Window(d)>>] EXCEPT ![c] = <<c, w>>]
        /\ [d \in Clients |-> conn'[d].pc # "closed"]
             = [[d \in Clients |-> conn[d].pc # "closed"] EXCEPT ![c] = TRUE]
    BY <2>1, <2>2
  <2>4. Feed!Open(c, <<c, w>>)
    BY <2>1, <2>3 DEF Feed!Open
  <2>. QED BY <2>4 DEF Feed!Next
<1>4. ASSUME NEW c \in Clients, WriteNext(c) PROVE Feed!Next \/ UNCHANGED Feed!fvars
  <2>1. CASE Selected(c, log[conn[c].pos], Window(c))
    BY <1>4, <2>1, WriteDelivers DEF Feed!Next
  <2>2. CASE ~Selected(c, log[conn[c].pos], Window(c))
    <3>1. conn' = [conn EXCEPT ![c] = [conn[c] EXCEPT !.pos = conn[c].pos + 1, !.sent = conn[c].sent]]
      BY <1>4, <2>2 DEF WriteNext
    <3>2. conn'[c] = [conn[c] EXCEPT !.pos = conn[c].pos + 1, !.sent = conn[c].sent]
          /\ \A d \in Clients : d # c => conn'[d] = conn[d]
      BY <1>a, <3>1
    <3>3. /\ conn'[c].sent = conn[c].sent /\ conn'[c].pc = conn[c].pc
          /\ conn'[c].since = conn[c].since /\ conn'[c].until = conn[c].until
      BY <1>a, <3>2 DEF Conn
    <3>. QED BY <1>4, <3>2, <3>3, Unseen DEF WriteNext
  <2>. QED BY <2>1, <2>2
<1>5. ASSUME NEW c \in Clients, LoopHead(c) \/ Timeout(c) \/ Disconnect(c)
      PROVE  Feed!Next \/ UNCHANGED Feed!fvars
  <2>1. /\ log' = log /\ conn[c].pc # "closed"
        /\ \E x \in {"closed", "waiting", "woken"} : conn' = [conn EXCEPT ![c].pc = x]
    BY <1>5 DEF LoopHead, Timeout, Disconnect
  <2>2. \A d \in Clients : /\ conn'[d].sent = conn[d].sent
                           /\ conn'[d].since = conn[d].since /\ conn'[d].until = conn[d].until
                           /\ d # c => conn'[d].pc = conn[d].pc
    BY <2>1, <1>a DEF Conn
  <2>3. CASE conn'[c].pc = "closed"
    <3>1. \A d \in Clients : conn'[d].pc # "closed" <=> conn[d].pc # "closed" /\ d \notin {c}
      BY <2>2, <2>3
    <3>. QED BY <2>1, <2>2, <3>1, Ends
  <2>4. CASE conn'[c].pc # "closed"
    <3>1. \A d \in Clients : conn'[d].pc = "closed" <=> conn[d].pc = "closed"
      BY <2>1, <2>2, <2>4
    <3>. QED BY <2>1, <2>2, <3>1, Unseen
  <2>. QED BY <2>3, <2>4
<1>6. ASSUME NEW c \in Clients, Reload(c) PROVE UNCHANGED Feed!fvars
  <2>1. /\ log' = log /\ conn[c].pc = "woken" /\ conn'[c].pc = "sending"
        /\ conn'[c].sent = conn[c].sent
        /\ conn'[c].since = conn[c].since /\ conn'[c].until = conn[c].until
        /\ \A d \in Clients : d # c => conn'[d] = conn[d]
    BY <1>6, <1>a DEF Reload, Conn
  <2>. QED BY <2>1, Unseen
<1>7. ASSUME Crash PROVE Feed!Next \/ UNCHANGED Feed!fvars
  <2>1. /\ log' = log
        /\ \A c \in Clients : /\ conn'[c].sent = conn[c].sent
                              /\ conn'[c].since = conn[c].since /\ conn'[c].until = conn[c].until
                              /\ conn'[c].pc = "closed"
    BY <1>7, <1>a DEF Crash, Conn
  <2>2. CASE Clients = {}
    BY <2>1, <2>2, Unseen
  <2>3. CASE Clients # {}
    <3>1. \A c \in Clients : conn'[c].pc # "closed" <=> conn[c].pc # "closed" /\ c \notin Clients
      BY <2>1
    <3>. QED BY <2>1, <2>3, <3>1, Ends
  <2>. QED BY <2>2, <2>3
<1>. QED BY <1>1, <1>2, <1>3, <1>4, <1>5, <1>6, <1>7
         DEF Next, vars, Tick, Stamp, AppendFails

(* _handle_events is the subscription it promises: every behaviour of the    *)
(* daemon, with its torn lines, reloads, timeouts and crashes, is one of the *)
(* feed.                                                                    *)
THEOREM StreamIsFeed == Spec => ImplementsFeed
<1>1. Init => IInv
  <2> SUFFICES ASSUME Init PROVE Progress /\ StreamExact
    BY InitType DEF IInv
  <2>. QED BY DEF Init, Progress, StreamExact
<1>. QED BY <1>1, InvStep, InitFeed, StepFeed, PTL DEF Spec, ImplementsFeed, Feed!Spec

==============================================================================
