------------------------------ MODULE LocalRpc ------------------------------
(***************************************************************************)
(* domain_sock: hello clients ask a container server for numbers over      *)
(* UNIX datagram sockets.  A request carries the client's pid and nothing  *)
(* that identifies it; the server answers request by request, with the     *)
(* next value of its counter, to the abstract address made of that pid.    *)
(* A client waits 5 ms for an answer and then sends its next request       *)
(* anyway, so that answers and requests can get out of step.               *)
(*                                                                         *)
(* Datagrams between local sockets are neither lost nor reordered, but a   *)
(* receive queue holds QLen of them and a sender blocks while it is full.  *)
(* A dead process loses its queue and its address.                         *)
(***************************************************************************)
EXTENDS Integers, Sequences, FiniteSets

CONSTANTS Client,    \* pids of the hello processes
          QLen,      \* datagrams a socket's receive queue holds
          Rounds,    \* iterations of the loop in hello's main (100)
          MaxBoots,  \* bound on the starts of the server
          MaxLives   \* bound on the processes that get the same pid

ASSUME ConstAssumption ==
    /\ QLen \in Nat \ {0}
    /\ Rounds \in Nat \ {0}
    /\ MaxBoots \in Nat
    /\ MaxLives \in Nat

VARIABLES
    up,        \* the server: "down", "idle" in event_base_dispatch, "sending"
    boot,      \* how often the server has been started
    count,     \* the server's static counter
    inq,       \* receive queue of the server's socket
    cur,       \* the answer local_read_cb is sending, or NoReply
    box,       \* box[c]: receive queue of the socket bound to c's address
    pc,        \* pc[c]: "off", or where c's main is: "send" or "recv"
    life,      \* life[c]: how many processes have had pid c
    i,         \* i[c]: the current iteration of the loop, from 1
    last,      \* last[c]: the last answer printed by the present process c
    at,        \* at[c]: history, the iteration in which c printed it
    falls,     \* falls[c]: history, how often the present process c printed
               \* a number that was not larger than the one before it
    delivered  \* history: the tickets printed so far, by anyone

vars == <<up, boot, count, inq, cur, box, pc, life, i, last, at, falls, delivered>>
server == <<up, boot, count, inq, cur>>
client == <<pc, life, i, last, at, falls, delivered>>

\* A request is identified, for the properties only, by who sent it and when.
Request == [pid : Client, life : Nat, n : Nat]

\* The number an answer carries, and the run of the server that drew it.
Ticket(r) == [epoch |-> r.epoch, data |-> r.data]

\* No answer; it comes before every real one.
NoReply == [epoch |-> 0, data |-> 0, req |-> [life |-> 0, n |-> 0]]

\* Ticket order: a later run of the server, or a larger count of the same run.
Before(r, s) == \/ r.epoch < s.epoch
                \/ r.epoch = s.epoch /\ r.data < s.data

Init ==
    /\ up = "down" /\ boot = 0 /\ count = 0
    /\ inq = <<>> /\ cur = NoReply
    /\ box = [c \in Client |-> <<>>]
    /\ pc = [c \in Client |-> "off"]
    /\ life = [c \in Client |-> 0]
    /\ i = [c \in Client |-> 0]
    /\ last = [c \in Client |-> NoReply]
    /\ at = [c \in Client |-> 0]
    /\ falls = [c \in Client |-> 0]
    /\ delivered = {}

-----------------------------------------------------------------------------
(* The server.                                                             *)

\* main: local_server_init binds PATH, the callback is registered.
ServerStart ==
    /\ up = "down" /\ boot < MaxBoots
    /\ up' = "idle" /\ boot' = boot + 1 /\ count' = 0
    /\ UNCHANGED <<inq, cur, box>> /\ UNCHANGED client

\* The server dies, wherever it is; the requests in its queue go with it.
ServerDie ==
    /\ up # "down"
    /\ up' = "down" /\ inq' = <<>> /\ cur' = NoReply
    /\ UNCHANGED <<boot, count, box>> /\ UNCHANGED client

\* A variant that forgets to advance the counter.
ReadRequestSameCount ==
    /\ up = "idle" /\ inq # <<>>
    /\ inq' = Tail(inq)
    /\ cur' = [epoch |-> boot, data |-> count, req |-> Head(inq)]
    /\ up' = "sending"
    /\ UNCHANGED <<boot, count, box>> /\ UNCHANGED client

\* local_read_cb up to server_send: one request is received and, its type
\* being 1 and its pid positive, the counter is drawn for it.
ReadRequest ==
    /\ up = "idle" /\ inq # <<>>
    /\ inq' = Tail(inq)
    /\ cur' = [epoch |-> boot, data |-> count, req |-> Head(inq)]
    /\ count' = count + 1
    /\ up' = "sending"
    /\ UNCHANGED <<boot, box>> /\ UNCHANGED client

\* server_send: sendto the address made of the pid.  It fails at once when
\* no process is bound to it and blocks while that process's queue is full.
ServerSend ==
    /\ up = "sending"
    /\ LET c == cur.req.pid IN
         \/ pc[c] = "off" /\ UNCHANGED box
         \/ /\ pc[c] # "off" /\ Len(box[c]) < QLen
            /\ box' = [box EXCEPT ![c] = Append(@, cur)]
    /\ cur' = NoReply
    /\ up' = "idle"
    /\ UNCHANGED <<boot, count, inq>> /\ UNCHANGED client

-----------------------------------------------------------------------------
(* A client.                                                               *)

\* A hello process starts: client_addr_init binds the address of its pid.
ClientStart(c) ==
    /\ pc[c] = "off" /\ life[c] < MaxLives
    /\ pc' = [pc EXCEPT ![c] = "send"]
    /\ life' = [life EXCEPT ![c] = @ + 1]
    /\ i' = [i EXCEPT ![c] = 1]
    /\ last' = [last EXCEPT ![c] = NoReply]
    /\ at' = [at EXCEPT ![c] = 0]
    /\ falls' = [falls EXCEPT ![c] = 0]
    /\ UNCHANGED <<box, delivered>> /\ UNCHANGED server

\* A variant that may send again before it looks for the answer.
SendRequestAgain(c) ==
    /\ pc[c] = "send"
    /\ \/ up = "down" /\ UNCHANGED inq
       \/ /\ up # "down" /\ Len(inq) < QLen
          /\ inq' = Append(inq, [pid |-> c, life |-> life[c], n |-> i[c]])
    /\ \E next \in {"send", "recv"} : pc' = [pc EXCEPT ![c] = next]
    /\ UNCHANGED <<up, boot, count, cur, box, life, i, last, at, falls, delivered>>

\* local_addr_send.  The result is not looked at: with no server bound to
\* PATH the request is gone, and with a full queue the call blocks.
SendRequest(c) ==
    /\ pc[c] = "send"
    /\ \/ up = "down" /\ UNCHANGED inq
       \/ /\ up # "down" /\ Len(inq) < QLen
          /\ inq' = Append(inq, [pid |-> c, life |-> life[c], n |-> i[c]])
    /\ pc' = [pc EXCEPT ![c] = "recv"]
    /\ UNCHANGED <<up, boot, count, cur, box, life, i, last, at, falls, delivered>>

\* A variant whose loop condition is i <= Rounds with i counted from 1 less.
NextRoundOneMore(c, taken) ==
    /\ pc' = [pc EXCEPT ![c] = IF i[c] <= Rounds THEN "send" ELSE "off"]
    /\ i' = [i EXCEPT ![c] = IF i[c] <= Rounds THEN @ + 1 ELSE 0]
    /\ box' = [box EXCEPT ![c] =
                  IF i[c] <= Rounds THEN SubSeq(@, taken + 1, Len(@)) ELSE <<>>]
    /\ UNCHANGED life /\ UNCHANGED server

\* The end of an iteration, which drops the first `taken` answers queued at
\* c: the next one, or exit, which closes the socket.
NextRound(c, taken) ==
    /\ pc' = [pc EXCEPT ![c] = IF i[c] < Rounds THEN "send" ELSE "off"]
    /\ i' = [i EXCEPT ![c] = IF i[c] < Rounds THEN @ + 1 ELSE 0]
    /\ box' = [box EXCEPT ![c] =
                  IF i[c] < Rounds THEN SubSeq(@, taken + 1, Len(@)) ELSE <<>>]
    /\ UNCHANGED life /\ UNCHANGED server

\* main prints the number in answer a, and not the run that drew it.
Printed(c, a) ==
    /\ last' = [last EXCEPT ![c] = a]
    /\ at' = [at EXCEPT ![c] = i[c]]
    /\ falls' = [falls EXCEPT ![c] =
                    IF last[c] # NoReply /\ a.data <= last[c].data THEN @ + 1 ELSE @]
    /\ delivered' = delivered \cup {Ticket(a)}

\* A variant that leaves the answer in the queue (recvfrom with MSG_PEEK).
ReceivePeek(c) ==
    /\ pc[c] = "recv" /\ box[c] # <<>>
    /\ Printed(c, Head(box[c]))
    /\ NextRound(c, 0)

\* container_msg_recv finds an answer, the oldest, which main prints.
Receive(c) ==
    /\ pc[c] = "recv" /\ box[c] # <<>>
    /\ Printed(c, Head(box[c]))
    /\ NextRound(c, 1)

\* A variant that does not look at the queue before it gives up.
TimeoutAnyway(c) ==
    /\ pc[c] = "recv"
    /\ UNCHANGED <<last, at, falls, delivered>>
    /\ NextRound(c, 0)

\* A variant that waits without a limit.
TimeoutNever(c) == FALSE

\* select gives up after 5 ms.
Timeout(c) ==
    /\ pc[c] = "recv" /\ box[c] = <<>>
    /\ UNCHANGED <<last, at, falls, delivered>>
    /\ NextRound(c, 0)

\* The client is killed; its queue and its address are gone.
Kill(c) ==
    /\ pc[c] # "off"
    /\ pc' = [pc EXCEPT ![c] = "off"]
    /\ i' = [i EXCEPT ![c] = 0]
    /\ box' = [box EXCEPT ![c] = <<>>]
    /\ UNCHANGED <<life, last, at, falls, delivered>> /\ UNCHANGED server

-----------------------------------------------------------------------------
ServerStep == ReadRequest \/ ServerSend
ClientStep(c) == SendRequest(c) \/ Receive(c) \/ Timeout(c)

Next ==
    \/ ServerStart \/ ServerDie \/ ReadRequest \/ ServerSend
    \/ \E c \in Client : \/ ClientStart(c) \/ SendRequest(c) \/ Receive(c)
                         \/ Timeout(c) \/ Kill(c)

Spec == Init /\ [][Next]_vars

\* Processes that are not blocked run; nobody has to be started or killed.
FairSpec ==
    /\ Spec
    /\ WF_vars(ServerStep)
    /\ \A c \in Client : WF_vars(ClientStep(c))

-----------------------------------------------------------------------------
Answer == [epoch : Nat, data : Nat, req : Request]

\* Every variable has its type; the queues respect their capacity.
TypeOK ==
    /\ up \in {"down", "idle", "sending"}
    /\ boot \in 0..MaxBoots /\ count \in Nat
    /\ inq \in Seq(Request) /\ Len(inq) <= QLen
    /\ cur \in Answer \cup {NoReply}
    /\ box \in [Client -> Seq(Answer)]
    /\ \A c \in Client : Len(box[c]) <= QLen
    /\ pc \in [Client -> {"off", "send", "recv"}]
    /\ life \in [Client -> 0..MaxLives]
    /\ i \in [Client -> 0..Rounds]
    /\ last \in [Client -> Answer \cup {NoReply}]
    /\ at \in [Client -> 0..Rounds]
    /\ falls \in [Client -> Nat]
    /\ delivered \subseteq [epoch : Nat, data : Nat]

\* The answers on their way to a client, in the order it will print them:
\* those in its queue, then the one local_read_cb is sending to it.
Coming(c) ==
    IF up = "sending" /\ cur.req.pid = c THEN Append(box[c], cur) ELSE box[c]

\* The numbers as a client prints them, which is all that it is told: each
\* is larger than the one before it, except that the counter starts at 0
\* again with every server process, so that a restart can make them fall
\* once.  Answers of the dead server that are still queued, late answers
\* and reused pids cause no further fall; before the first restart, none.
InOrder == \A c \in Client : falls[c] = 0 \/ falls[c] < boot

\* The requests sent under pid c that are not answered to c yet.
Backlog(c) ==
    Cardinality({k \in DOMAIN inq : inq[k].pid = c}) + Len(Coming(c))

\* A client that keeps timing out does not pile up requests without end: it
\* times out only when all that it is owed is still at the server, so its
\* backlog never exceeds what the server's queue and callback hold, plus
\* the request of the current round.
BacklogBound ==
    \A c \in Client :
        Backlog(c) <= IF pc[c] = "recv" THEN QLen + 2 ELSE QLen + 1

\* An answer may be late, but by a bounded number of rounds: the answer
\* printed in round i is for a request of one of the last QLen + 2 rounds.
Lateness ==
    \A c \in Client :
        last[c] # NoReply /\ last[c].req.life = life[c] =>
            /\ last[c].req.n <= at[c]
            /\ at[c] - last[c].req.n <= QLen + 1

\* The server waits for room in c's queue while c waits for room in the
\* server's: neither will move again.
Wedged(c) ==
    /\ up = "sending" /\ cur.req.pid = c /\ Len(box[c]) = QLen
    /\ pc[c] = "send" /\ Len(inq) = QLen

\* A client cannot lock itself and the server up with its own requests: when
\* they wait for each other, all the requests that fill the server's queue
\* are other clients'.  With one client it never happens.
WedgeNeedsOthers ==
    \A c \in Client : Wedged(c) => \A k \in DOMAIN inq : inq[k].pid # c

\* The abstract service, with the next ticket read off the server's counter.
T == INSTANCE Tickets WITH
        None <- Ticket(NoReply),
        frontier <- [epoch |-> boot, data |-> count],
        last <- [c \in Client |-> Ticket(last[c])]

\* The sockets, timeouts, crashes and reused pids of domain_sock implement
\* the abstract ticket service.
ImplementsTickets == T!Spec

\* A lone client always gets to the end of its 100 rounds (or is killed):
\* it is not held up for ever by full queues, timeouts or a dead server.
RunsEnd == \A c \in Client : pc[c] # "off" ~> pc[c] = "off"

=============================================================================
