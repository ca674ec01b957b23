---------------------------- MODULE EventServer -----------------------------
(***************************************************************************)
(* network/server/server.c: a libevent server that keeps one struct client *)
(* per accepted connection on the tail queue of queue.h.  Every callback   *)
(* is one action, list surgery included.  A struct is named by the client  *)
(* whose connection it describes, and is never freed.                      *)
(*                                                                         *)
(* libevent and the sockets are external: events are level-triggered and   *)
(* persistent, one dispatch round runs the callbacks of all the events     *)
(* that were ready when it began, and accept gives the lowest free         *)
(* descriptor.  A message is a piece of the stream no read divides.        *)
(* Memory never runs out.                                                  *)
(***************************************************************************)
EXTENDS TailQueue, FiniteSets, FiniteSetsExt

CONSTANTS Fds,      \* descriptors left for connections
          MaxSend,  \* bound: messages a client sends
          MaxRead   \* messages that fit in msg[1024]

ASSUME EventAssumption ==
    /\ Fds \subseteq Nat \ {0} /\ IsFiniteSet(Fds)
    /\ MaxSend \in Nat /\ MaxRead \in Nat \ {0}

Client == Node
LISTENER == HEAD

VARIABLES
    place,   \* where the connection of a client is
    peer,    \* what the client's end has done: "up", "eof" or "reset"
    buf,     \* messages received and not read
    sent,    \* messages sent, bounded
    fd,      \* pc->fd
    active,  \* events of this dispatch round whose callback has not run
    up       \* main: "init", "listen" or "fail" (tcp_server_init has returned),
             \* "run" (event_base_dispatch); "exit" (the process ended) or
             \* "return" (main did)

serverVars == <<place, peer, buf, sent, fd, active, up>>
allVars == <<next, prev, q, serverVars>>

Open == {c \in Client : place[c] = "open"}
Free == Fds \ {fd[c] : c \in Open}
Backlog == {c \in Client : place[c] = "backlog"}
Readable(c) == place[c] = "open" /\ (buf[c] # <<>> \/ peer[c] # "up")

\* The server is no more.
Over == up \in {"exit", "return"}

\* main has initialized the list.
EventInit ==
    /\ Init
    /\ place = [c \in Client |-> "idle"]
    /\ peer = [c \in Client |-> "up"]
    /\ buf = [c \in Client |-> <<>>]
    /\ sent = [c \in Client |-> 0]
    /\ fd = [c \in Client |-> 0]
    /\ active = {}
    /\ up = "init"

-----------------------------------------------------------------------------
\* A variant of Sweep for macros that invalidate what they remove.
SweepInvalidating(D) ==
    LET step(s) ==
            LET hit == s.at \in D
                after == IF s.nx[s.at] = NULL THEN HEAD ELSE s.nx[s.at]
                pv == IF hit THEN [s.pv EXCEPT ![after] = s.pv[s.at]] ELSE s.pv
                nx == IF hit THEN [s.nx EXCEPT ![s.pv[s.at]] = s.nx[s.at], ![s.at] = NULL]
                      ELSE s.nx
            IN [at |-> nx[s.at], nx |-> nx, pv |-> pv]
        loop[k \in 0 .. Cardinality(Node)] ==
            IF k = 0 THEN [at |-> next[HEAD], nx |-> next, pv |-> prev]
            ELSE LET s == loop[k - 1] IN IF s.at = NULL THEN s ELSE step(s)
        end == loop[Cardinality(Node)]
    IN /\ next' = end.nx
       /\ prev' = end.pv
       /\ q' = SelectSeq(q, LAMBDA c : c \notin D)

\* The loop "TAILQ_FOREACH(pc, &head, link) if (...) TAILQ_REMOVE(...)": the
\* loop reads the link of the struct it has just removed.
Sweep(D) ==
    LET step(s) ==
            LET hit == s.at \in D
                after == IF s.nx[s.at] = NULL THEN HEAD ELSE s.nx[s.at]
                pv == IF hit THEN [s.pv EXCEPT ![after] = s.pv[s.at]] ELSE s.pv
                nx == IF hit THEN [s.nx EXCEPT ![s.pv[s.at]] = s.nx[s.at]] ELSE s.nx
            IN [at |-> nx[s.at], nx |-> nx, pv |-> pv]
        loop[k \in 0 .. Cardinality(Node)] ==
            IF k = 0 THEN [at |-> next[HEAD], nx |-> next, pv |-> prev]
            ELSE LET s == loop[k - 1] IN IF s.at = NULL THEN s ELSE step(s)
        end == loop[Cardinality(Node)]
    IN /\ next' = end.nx
       /\ prev' = end.pv
       /\ q' = SelectSeq(q, LAMBDA c : c \notin D)

\* The structs the loops in socket_read_cb remove.
SameFd(c) == {x \in Client : fd[x] = fd[c]}

-----------------------------------------------------------------------------
\* tcp_server_init: socket, bind and listen, of which any may fail; a socket
\* that cannot listen is closed again.
TcpServerInit ==
    /\ up = "init"
    /\ up' \in {"listen", "fail"}
    /\ UNCHANGED <<next, prev, q, place, peer, buf, sent, fd, active>>

\* main returns -1 without a listener.
MainFails ==
    /\ up = "fail"
    /\ up' = "return"
    /\ UNCHANGED <<next, prev, q, place, peer, buf, sent, fd, active>>

\* main adds the event of the listener and starts to dispatch.
MainListens ==
    /\ up = "listen"
    /\ up' = "run"
    /\ UNCHANGED <<next, prev, q, place, peer, buf, sent, fd, active>>

\* External: event_base_dispatch waits, and collects the ready events.
Dispatch ==
    /\ up = "run" /\ active = {}
    /\ active' = {c \in Client : Readable(c)} \cup (IF Backlog = {} THEN {} ELSE {LISTENER})
    /\ active' # {}
    /\ UNCHANGED <<next, prev, q, place, peer, buf, sent, fd, up>>

\* accept_cb: without a free descriptor accept fails and the struct is
\* freed again; the connection stays in the backlog.
AcceptFails ==
    /\ up = "run" /\ LISTENER \in active
    /\ Free = {}
    /\ active' = active \ {LISTENER}
    /\ UNCHANGED <<next, prev, q, place, peer, buf, sent, fd, up>>

\* The address length len is uninitialized: when the kernel refuses it, it
\* has taken the connection out of the backlog and closes it.
AcceptRefused(c) ==
    /\ up = "run" /\ LISTENER \in active
    /\ c \in Backlog /\ Free # {}
    /\ place' = [place EXCEPT ![c] = "closed"]
    /\ active' = active \ {LISTENER}
    /\ UNCHANGED <<next, prev, q, peer, buf, sent, fd, up>>

\* accept succeeds: the struct goes to the head of the list and the event of
\* the connection is added.
AcceptCb(c) ==
    /\ up = "run" /\ LISTENER \in active
    /\ c \in Backlog /\ Free # {}
    /\ place' = [place EXCEPT ![c] = "open"]
    /\ fd' = [fd EXCEPT ![c] = Min(Free)]
    /\ InsertHead(c)
    /\ active' = active \ {LISTENER}
    /\ UNCHANGED <<peer, buf, sent, up>>

\* A variant of ReadError that leaves the struct on the list.
ReadErrorUnlisted(c) ==
    /\ up = "run" /\ c \in active
    /\ buf[c] = <<>> /\ peer[c] = "reset"
    /\ place' = [place EXCEPT ![c] = "closed"]
    /\ active' = active \ {c}
    /\ UNCHANGED <<next, prev, q, peer, buf, sent, fd, up>>

\* A variant of ReadError that prints the error and returns.
ReadErrorReturns(c) ==
    /\ up = "run" /\ c \in active
    /\ buf[c] = <<>> /\ peer[c] = "reset"
    /\ active' = active \ {c}
    /\ UNCHANGED <<next, prev, q, place, peer, buf, sent, fd, up>>

\* socket_read_cb, read fails: close, take the struct off the list, free
\* the event.
ReadError(c) ==
    /\ up = "run" /\ c \in active
    /\ buf[c] = <<>> /\ peer[c] = "reset"
    /\ place' = [place EXCEPT ![c] = "closed"]
    /\ active' = active \ {c}
    /\ Sweep(SameFd(c))
    /\ UNCHANGED <<peer, buf, sent, fd, up>>

\* A variant of ReadNothing that reads until it gets something.
ReadNothingLoops(c) ==
    /\ up = "run" /\ c \in active
    /\ buf[c] = <<>> /\ peer[c] = "eof"
    /\ UNCHANGED allVars

\* socket_read_cb at the end of the stream: read returns 0, the empty
\* message is printed, and nothing is closed.
ReadNothing(c) ==
    /\ up = "run" /\ c \in active
    /\ buf[c] = <<>> /\ peer[c] = "eof"
    /\ active' = active \ {c}
    /\ UNCHANGED <<next, prev, q, place, peer, buf, sent, fd, up>>

\* socket_read_cb: the messages read are text; only how they begin counts.
ReadText(c) ==
    /\ up = "run" /\ c \in active
    /\ buf[c] # <<>> /\ Head(buf[c]) # "exit"
    /\ buf' = [buf EXCEPT ![c] = SubSeq(@, Min({Len(@), MaxRead}) + 1, Len(@))]
    /\ active' = active \ {c}
    /\ UNCHANGED <<next, prev, q, place, peer, sent, fd, up>>

\* socket_read_cb: what was read begins with "exit", and exit(0) ends the
\* server, all of its connections with it.
ReadExit(c) ==
    /\ up = "run" /\ c \in active
    /\ buf[c] # <<>> /\ Head(buf[c]) = "exit"
    /\ place' = [x \in Client |-> IF place[x] = "idle" THEN "idle" ELSE "closed"]
    /\ active' = {} /\ up' = "exit"
    /\ Sweep(SameFd(c))
    /\ UNCHANGED <<peer, buf, sent, fd>>

\* event_base_dispatch gives up between rounds, because waiting failed:
\* main calls client_free and returns.
DispatchFails ==
    /\ up = "run" /\ active = {}
    /\ Sweep(Client)
    /\ place' = [x \in Client |-> IF place[x] = "idle" THEN "idle" ELSE "closed"]
    /\ up' = "return"
    /\ UNCHANGED <<peer, buf, sent, fd, active>>

-----------------------------------------------------------------------------
\* The clients, each with one connection.
Connect(c) ==
    /\ up \in {"listen", "run"} /\ place[c] = "idle"
    /\ place' = [place EXCEPT ![c] = "backlog"]
    /\ UNCHANGED <<next, prev, q, peer, buf, sent, fd, active, up>>

SendMsg(c, m) ==
    /\ place[c] \in {"backlog", "open"} /\ peer[c] = "up" /\ sent[c] < MaxSend
    /\ buf' = [buf EXCEPT ![c] = Append(@, m)]
    /\ sent' = [sent EXCEPT ![c] = @ + 1]
    /\ UNCHANGED <<next, prev, q, place, peer, fd, active, up>>

Shut(c) ==
    /\ place[c] \in {"backlog", "open"} /\ peer[c] = "up"
    /\ peer' = [peer EXCEPT ![c] = "eof"]
    /\ UNCHANGED <<next, prev, q, place, buf, sent, fd, active, up>>

\* A reset may throw away what has not been read.
Reset(c) ==
    /\ place[c] \in {"backlog", "open"} /\ peer[c] \in {"up", "eof"}
    /\ peer' = [peer EXCEPT ![c] = "reset"]
    /\ \E keep \in BOOLEAN : buf' = [buf EXCEPT ![c] = IF keep THEN @ ELSE <<>>]
    /\ UNCHANGED <<next, prev, q, place, sent, fd, active, up>>

\* The server has ended, and the clients have nobody to talk to.
Ended == Over /\ UNCHANGED allVars

Callback(c) == ReadError(c) \/ ReadNothing(c) \/ ReadText(c) \/ ReadExit(c)
Listen == AcceptFails \/ \E c \in Client : AcceptRefused(c) \/ AcceptCb(c)

Main == TcpServerInit \/ MainFails \/ MainListens

EventNext ==
    \/ Main \/ Dispatch \/ Listen \/ DispatchFails \/ Ended
    \/ \E c \in Client : Callback(c)
    \/ \E c \in Client : Connect(c) \/ Shut(c) \/ Reset(c)
    \/ \E c \in Client, m \in {"text", "exit"} : SendMsg(c, m)

EventSpec == EventInit /\ [][EventNext]_allVars

\* The server is scheduled; it need not fail, and clients need not do a thing.
FairEventSpec ==
    EventSpec /\ WF_allVars(Main \/ Dispatch \/ Listen \/ \E c \in Client : Callback(c))

-----------------------------------------------------------------------------
\* The list holds exactly the open connections while the server runs, and
\* no descriptor twice, however often accept has given a number again; so
\* the removal loop in socket_read_cb takes off the one struct it should.
ListIsOpen ==
    up = "run" =>
        /\ Members = Open
        /\ \A c, d \in Open : fd[c] = fd[d] => c = d

\* A client that connects is accepted and what it sends is read, whatever the
\* clients that left keep the event loop busy with; unless every descriptor
\* is taken (by clients that left, for instance) or the server ends.  The
\* clients are interchangeable, so that one of them stands for all.
Served ==
    LET c == CHOOSE d \in Client : TRUE IN
        place[c] = "backlog" \/ (place[c] = "open" /\ buf[c] # <<>>)
          ~> \/ place[c] = "closed" \/ (place[c] = "open" /\ buf[c] = <<>>)
             \/ place[c] = "backlog" /\ Free = {}
             \/ Over

\* The descriptor of a connection that was reset is closed, so that accept
\* can give it again, however much the client sent before.
ResetsReleased ==
    LET c == CHOOSE d \in Client : TRUE IN
        place[c] = "open" /\ peer[c] = "reset" ~> place[c] = "closed"

=============================================================================
