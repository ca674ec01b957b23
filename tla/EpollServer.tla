---------------------------- MODULE EpollServer -----------------------------
(***************************************************************************)
(* epool/epoll.cpp: a single-threaded server on an edge-triggered epoll    *)
(* descriptor.  For a reported listening socket it accepts one connection, *)
(* for a reported connection it reads at most MAXLINE bytes.  All sockets  *)
(* are blocking, so an accept or a read too many would stop the server.    *)
(*                                                                         *)
(* The kernel's side: an arrival on a registered socket puts it on the     *)
(* ready list, once; epoll_wait takes sockets off that list and reports    *)
(* those that are still readable.  Bytes are counted, not represented.     *)
(* bind and listen are taken to succeed.                                   *)
(***************************************************************************)
EXTENDS Integers, Sequences, FiniteSets, FiniteSetsExt

CONSTANTS Client,    \* the connections that are attempted, one per client
          Listen,    \* the listening socket
          MAXLINE,   \* bytes read per event (5)
          MaxEvents, \* events returned by one epoll_wait (20)
          MaxFds,    \* connections the process has descriptors for
          Sizes,     \* the sizes of what a client sends at once
          MaxSend    \* bound on the bytes a client sends

ASSUME EpollAssumption ==
    /\ Listen \notin Client
    /\ {MAXLINE, MaxEvents, MaxFds} \subseteq Nat \ {0}
    /\ Sizes \subseteq Nat \ {0} /\ MaxSend \in Nat

VARIABLES
    conn,     \* conn[c]: "none", "queued", "open" or "closed" (by the server)
    backlog,  \* connections that wait for accept, oldest first
    buf,      \* buf[c]: bytes that wait to be read
    sent,     \* sent[c]: bytes c has sent
    got,      \* got[c]: bytes the server has read from c
    peer,     \* peer[c]: "up", "fin" (c has shut down) or "reset"
    ready,    \* sockets on the ready list of epfd
    events,   \* the events of the present epoll_wait still to be handled
              \* (in any order; the kernel reports a socket once)
    merged,   \* history: connections that came while Listen was on the list
              \* for an earlier one
    late,     \* history, late[c]: since c last had nothing to read, something
              \* came while an earlier arrival was still to be reported, or
              \* more than MAXLINE bytes came at once
    running   \* FALSE once the server has called exit

vars == <<conn, backlog, buf, sent, got, peer, ready, events, merged, late, running>>

\* main up to its loop.  The listening socket is registered before bind and
\* listen: an unconnected socket polls as hung up, which puts it on the list.
Init ==
    /\ conn = [c \in Client |-> "none"]
    /\ backlog = <<>>
    /\ buf = [c \in Client |-> 0]
    /\ sent = [c \in Client |-> 0]
    /\ got = [c \in Client |-> 0]
    /\ peer = [c \in Client |-> "up"]
    /\ ready = {Listen} /\ events = {}
    /\ merged = 0
    /\ late = [c \in Client |-> FALSE]
    /\ running = TRUE

\* There is something on c's connection for the server to take.
Waiting(c) == buf[c] > 0 \/ peer[c] # "up"

\* poll(): the socket is registered and has something to take.
Readable(s) ==
    IF s = Listen THEN backlog # <<>> ELSE conn[s] = "open" /\ Waiting(s)

\* n bytes (0 for a close or a reset) arrive on c: the edge that puts c on the
\* ready list, or is merged with one that is not reported or not registered.
Wake(c, n) ==
    /\ ready' = IF conn[c] = "open" THEN ready \cup {c} ELSE ready
    /\ late' = [late EXCEPT ![c] =
                   \/ @ \/ n > MAXLINE
                   \/ Waiting(c) /\ (c \in ready \/ conn[c] = "queued")]
    /\ UNCHANGED merged

-----------------------------------------------------------------------------
(* The clients.                                                            *)

Connect(c) ==
    /\ running /\ conn[c] = "none"
    /\ conn' = [conn EXCEPT ![c] = "queued"]
    /\ backlog' = Append(backlog, c)
    /\ ready' = ready \cup {Listen}
    /\ merged' = IF Listen \in ready /\ backlog # <<>> THEN merged + 1 ELSE merged
    /\ UNCHANGED <<buf, sent, got, peer, events, late, running>>

Send(c, n) ==
    /\ running /\ conn[c] \in {"queued", "open"} /\ peer[c] = "up"
    /\ sent[c] + n <= MaxSend
    /\ buf' = [buf EXCEPT ![c] = @ + n]
    /\ sent' = [sent EXCEPT ![c] = @ + n]
    /\ Wake(c, n)
    /\ UNCHANGED <<conn, backlog, got, peer, events, running>>

\* The client closes its socket in order, or resets the connection, which
\* discards what the server has not read.
Leave(c, how) ==
    /\ running /\ conn[c] \in {"queued", "open"} /\ peer[c] = "up"
    /\ peer' = [peer EXCEPT ![c] = how]
    /\ buf' = [buf EXCEPT ![c] = IF how = "reset" THEN 0 ELSE @]
    /\ Wake(c, 0)
    /\ UNCHANGED <<conn, backlog, sent, got, events, running>>

-----------------------------------------------------------------------------
(* The server.                                                             *)

\* epoll_wait: sockets leave the ready list; those no longer readable are
\* dropped, the others are reported, at most MaxEvents of them.  A wait that
\* times out with nothing to report changes nothing.
Wait ==
    /\ running /\ events = {} /\ ready # {}
    /\ LET live == {s \in ready : Readable(s)}
           n    == Min({Cardinality(live), MaxEvents})
       IN  \E S \in kSubset(n, live) :
               events' = S /\ ready' = live \ S
    /\ UNCHANGED <<conn, backlog, buf, sent, got, peer, merged, late, running>>

OpenConns == {c \in Client : conn[c] = "open"}
FirstAccept == \A c \in Client : conn[c] \in {"none", "queued"}

\* A variant that goes on with the next event when accept fails.
AcceptGoesOn ==
    /\ running /\ Listen \in events /\ backlog # <<>>
    /\ events' = events \ {Listen}
    /\ \/ /\ Cardinality(OpenConns) < MaxFds
          /\ backlog' = Tail(backlog)
          /\ LET c == Head(backlog) IN
               /\ conn' = [conn EXCEPT ![c] = "open"]
               /\ ready' = IF Waiting(c) THEN ready \cup {c} ELSE ready
       \/ /\ Cardinality(OpenConns) = MaxFds
          /\ UNCHANGED <<conn, backlog, ready>>
    /\ UNCHANGED <<buf, sent, got, peer, merged, late, running>>

\* The listening socket was reported: one accept, which registers the new
\* connection; a connection with something to read is ready at once.  When
\* accept fails the server exits: without a descriptor to give, or in the
\* first accept, whose address length clilen is uninitialized and may be
\* one the kernel refuses (accept sets it for the later ones).
Accept ==
    /\ running /\ Listen \in events /\ backlog # <<>>
    /\ \/ /\ Cardinality(OpenConns) < MaxFds
          /\ events' = events \ {Listen}
          /\ backlog' = Tail(backlog)
          /\ LET c == Head(backlog) IN
               /\ conn' = [conn EXCEPT ![c] = "open"]
               /\ ready' = IF Waiting(c) THEN ready \cup {c} ELSE ready
          /\ UNCHANGED running
       \/ /\ Cardinality(OpenConns) = MaxFds \/ FirstAccept
          /\ running' = FALSE
          /\ UNCHANGED <<conn, backlog, ready, events>>
    /\ UNCHANGED <<buf, sent, got, peer, merged, late>>

\* A variant that reads until a read comes back short, on a blocking socket.
ReadDraining(c) ==
    /\ running /\ c \in events /\ Readable(c)
    /\ peer[c] # "up" \/ buf[c] % MAXLINE # 0
    /\ got' = [got EXCEPT ![c] = @ + buf[c]]
    /\ buf' = [buf EXCEPT ![c] = 0]
    /\ events' = events \ {c}
    /\ conn' = [conn EXCEPT ![c] = IF peer[c] = "up" THEN @ ELSE "closed"]
    /\ ready' = IF peer[c] = "up" THEN ready ELSE ready \ {c}
    /\ UNCHANGED <<backlog, sent, peer, merged, late, running>>

\* A variant that closes as soon as the peer has shut down.
ReadHangsUp(c) ==
    /\ running /\ c \in events /\ Readable(c)
    /\ events' = events \ {c}
    /\ LET n == Min({buf[c], MAXLINE}) IN
         /\ buf' = [buf EXCEPT ![c] = @ - n]
         /\ got' = [got EXCEPT ![c] = @ + n]
    /\ conn' = [conn EXCEPT ![c] = IF peer[c] = "up" THEN @ ELSE "closed"]
    /\ ready' = IF peer[c] = "up" THEN ready ELSE ready \ {c}
    /\ UNCHANGED <<backlog, sent, peer, merged, late, running>>

\* A connection was reported: one read of at most `size` bytes.  End of file
\* and a reset close the connection, which unregisters it.
ReadUpTo(c, size) ==
    /\ running /\ c \in events /\ Readable(c)
    /\ events' = events \ {c}
    /\ \/ LET n == Min({buf[c], size}) IN
            /\ n > 0
            /\ buf' = [buf EXCEPT ![c] = @ - n]
            /\ got' = [got EXCEPT ![c] = @ + n]
            /\ late' = [late EXCEPT ![c] = @ /\ (n < buf[c] \/ peer[c] # "up")]
            /\ UNCHANGED <<conn, ready>>
       \/ /\ buf[c] = 0
          /\ conn' = [conn EXCEPT ![c] = "closed"]
          /\ ready' = ready \ {c}
          /\ UNCHANGED <<buf, got, late>>
    /\ UNCHANGED <<backlog, sent, peer, merged, running>>

\* A variant that leaves room for a terminating 0 in line.
ReadOneLess(c) == ReadUpTo(c, MAXLINE - 1)

\* The read branch of the loop.
Read(c) == ReadUpTo(c, MAXLINE)

-----------------------------------------------------------------------------
ServerStep == Wait \/ Accept \/ \E c \in Client : Read(c)

Next ==
    \/ ServerStep
    \/ \E c \in Client :
          \/ Connect(c)
          \/ \E n \in Sizes : Send(c, n)
          \/ \E how \in {"fin", "reset"} : Leave(c, how)

\* The server is scheduled; clients need not do anything.
Spec == Init /\ [][Next]_vars /\ WF_vars(ServerStep)

-----------------------------------------------------------------------------
\* What is known to be waiting on s: it is on the ready list or in the batch.
Known(s) == s \in ready \cup events

\* One accept per edge: the connections that wait for accept are as many as
\* the edges the server still has to handle and those that were merged with
\* another.  So accept always finds one, and only merged arrivals are left.
BacklogIsMerged ==
    Len(backlog) = merged + Cardinality({s \in {Listen} : s \in ready /\ Readable(s)})
                          + Cardinality({Listen} \cap events)

\* An open connection has unread input, a close or a reset that no edge will
\* report only if, since it was last read empty, an arrival was merged with
\* an earlier one or more than MAXLINE bytes came at once.
UnreadIsMerged ==
    \A c \in Client : Readable(c) /\ ~Known(c) => late[c]

\* The bytes of a connection are read without loss as long as it is not
\* reset, and one that shut down in order is only closed once all are read.
ClosedAfterAll ==
    \A c \in Client :
        /\ peer[c] # "reset" => got[c] + buf[c] = sent[c]
        /\ conn[c] = "closed" /\ peer[c] = "fin" => got[c] = sent[c]

\* No accept or read blocks: the server gets through every batch of events
\* (or exits), although all its sockets are blocking.
BatchesEnd == events # {} ~> events = {} \/ ~running

\* The comment on the accept branch: a connection that reaches the port is
\* established.
AllAccepted ==
    \A c \in Client : conn[c] = "queued" ~> conn[c] # "queued" \/ ~running

=============================================================================
