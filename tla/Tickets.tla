------------------------------ MODULE Tickets ------------------------------
(***************************************************************************)
(* What the number server of domain_sock promises its clients, with no     *)
(* sockets, queues or timeouts: numbers are drawn in order, none is handed *)
(* out twice, and every client sees its own in increasing order.  A ticket *)
(* is a number and the run of the server that drew it.                     *)
(***************************************************************************)
EXTENDS Integers

CONSTANTS Client, None   \* the clients; a ticket before every other

VARIABLES frontier,   \* the next ticket to be drawn
          last,       \* last[c]: the last ticket client c was given, or None
          delivered   \* the tickets given to anyone

vars == <<frontier, last, delivered>>

Before(t, u) == \/ t.epoch < u.epoch
                \/ t.epoch = u.epoch /\ t.data < u.data

Init ==
    /\ last = [c \in Client |-> None]
    /\ delivered = {}

\* Tickets are drawn: the frontier moves, and only forward.
Draw ==
    /\ Before(frontier, frontier')
    /\ UNCHANGED <<last, delivered>>

\* Client c is given a ticket that has been drawn, that nobody has had and
\* that is later than all that c was given before.
Deliver(c, t) ==
    /\ Before(t, frontier)
    /\ t \notin delivered
    /\ Before(last[c], t)
    /\ last' = [last EXCEPT ![c] = t]
    /\ delivered' = delivered \cup {t}
    /\ UNCHANGED frontier

\* A new client process takes over the name c.
Join(c) ==
    /\ last' = [last EXCEPT ![c] = None]
    /\ UNCHANGED <<frontier, delivered>>

Next ==
    \/ Draw
    \/ \E c \in Client : Join(c) \/ \E t \in delivered' : Deliver(c, t)

Spec == Init /\ [][Next]_vars

=============================================================================
