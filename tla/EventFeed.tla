------------------------------ MODULE EventFeed ------------------------------
(***************************************************************************)
(* What GET /events promises: an append-only feed of container, image,     *)
(* network and volume events, and any number of subscribers.  A subscriber *)
(* opens a window on the feed (since, until, filters) and is handed the    *)
(* events of that window one by one, in feed order, without skipping or    *)
(* repeating one, for as long as its connection lasts.                     *)
(***************************************************************************)
EXTENDS Naturals, Sequences

CONSTANTS Clients,      \* the subscribers
          Events,       \* what an event can be
          Windows,      \* the windows a subscriber may open
          InWindow(_, _) \* whether an event belongs to a window

VARIABLES feed,   \* the events published so far
          window, \* window[c]: the window of c's last connection
          open,   \* open[c]: whether c is connected
          got     \* got[c]: positions of feed handed to c, in order

fvars == <<feed, window, open, got>>

Init == /\ feed = <<>>
        /\ window \in [Clients -> Windows]
        /\ open = [c \in Clients |-> FALSE]
        /\ got = [c \in Clients |-> <<>>]

Publish(e) == /\ feed' = Append(feed, e)
              /\ UNCHANGED <<window, open, got>>

Open(c, w) == /\ ~open[c]
              /\ open' = [open EXCEPT ![c] = TRUE]
              /\ window' = [window EXCEPT ![c] = w]
              /\ got' = [got EXCEPT ![c] = <<>>]
              /\ UNCHANGED feed

Reached(c) == IF got[c] = <<>> THEN 0 ELSE got[c][Len(got[c])]

(* The next event of the window, and no other, may be handed to c. *)
Deliver(c) ==
    /\ open[c]
    /\ \E p \in (Reached(c) + 1)..Len(feed) :
         /\ InWindow(feed[p], window[c])
         /\ \A q \in (Reached(c) + 1)..(p - 1) : ~InWindow(feed[q], window[c])
         /\ got' = [got EXCEPT ![c] = Append(@, p)]
    /\ UNCHANGED <<feed, window, open>>

(* Connections end one at a time, or all together when the daemon dies. *)
Close(S) == /\ S # {}
            /\ open' = [c \in Clients |-> open[c] /\ c \notin S]
            /\ UNCHANGED <<feed, window, got>>

Next == \/ \E e \in Events : Publish(e)
        \/ \E c \in Clients, w \in Windows : Open(c, w)
        \/ \E c \in Clients : Deliver(c)
        \/ \E S \in SUBSET Clients : Close(S)

Spec == Init /\ [][Next]_fvars
==============================================================================
