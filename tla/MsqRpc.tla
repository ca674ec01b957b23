------------------------------- MODULE MsqRpc -------------------------------
(***************************************************************************)
(* msq_domain: the request travels as in domain_sock, but the answer comes *)
(* back over a System V message queue whose key is the client's pid.  The  *)
(* client creates the queue, waits for each answer without a time limit    *)
(* and removes the queue when it is done; the server only looks it up.  A  *)
(* message queue belongs to no process: it survives a client that is       *)
(* killed, with its contents, and the next process with that pid opens it. *)
(* A client that gets no queue is not told so: it goes through its rounds  *)
(* without waiting, and its requests are answered to nobody, or to the     *)
(* next process with its pid.                                              *)
(***************************************************************************)
EXTENDS Integers, Sequences, FiniteSets

CONSTANTS Client,    \* pids of the client processes
          QLen,      \* datagrams the server's receive queue holds
          MsgMax,    \* messages a System V queue holds
          Rounds,    \* iterations of the client's loop (10)
          MaxBoots,  \* bound on the starts of the server
          MaxLives   \* bound on the processes that get the same pid

ASSUME MsqAssumption ==
    /\ QLen \in Nat \ {0} /\ MsgMax \in Nat \ {0} /\ Rounds \in Nat \ {0}
    /\ MaxBoots \in Nat /\ MaxLives \in Nat

VARIABLES
    up,     \* the server: "down", "idle", or in local_read_cb: "looking"
            \* for the queue (msgget) or "sending" (msgsnd)
    boots,  \* how often it has been started
    inq,    \* receive queue of its socket
    cur,    \* <<request, queue id>> while it is in local_read_cb, else <<>>
    mq,     \* mq[c]: the queue with key c, [id, msgs]; id -1 when there is none
    ids,    \* ids[c]: how many queues have been created with key c
    pc,     \* pc[c]: "off", or the client is about to "send", to "recv"
            \* or to "remove" its queue
    fd,     \* fd[c]: the queue id that msg_init returned, -1 if msgget failed
    life,   \* life[c]: how many processes have had pid c
    i,      \* i[c]: the current iteration, from 1
    got,    \* got[c]: the request whose answer c printed last, or <<>>
    left,   \* left[c]: history, how much was owed to pid c when its present
            \* process started
    fate    \* history, fate[c]: "clean", "killed" (the last process with pid
            \* c was), or "lossy" (a request of the present one was lost)

vars == <<up, boots, inq, cur, mq, ids, pc, fd, life, i, got, left, fate>>
client == <<ids, pc, fd, life, i, got, left>>

NoQueue == [id |-> -1, msgs |-> <<>>]

Init ==
    /\ up = "down" /\ boots = 0 /\ inq = <<>> /\ cur = <<>>
    /\ mq = [c \in Client |-> NoQueue]
    /\ ids = [c \in Client |-> 0]
    /\ pc = [c \in Client |-> "off"]
    /\ fd = [c \in Client |-> -1]
    /\ life = [c \in Client |-> 0]
    /\ i = [c \in Client |-> 0]
    /\ got = [c \in Client |-> <<>>]
    /\ left = [c \in Client |-> 0]
    /\ fate = [c \in Client |-> "clean"]

-----------------------------------------------------------------------------
(* The server.                                                             *)

\* main: local_server_init and the registration of local_read_cb.
ServerStart ==
    /\ up = "down" /\ boots < MaxBoots
    /\ up' = "idle" /\ boots' = boots + 1
    /\ UNCHANGED <<inq, cur, mq, fate>> /\ UNCHANGED client

\* The clients whose requests are inside the server.
Inside == {inq[k].pid : k \in DOMAIN inq}
            \cup IF cur # <<>> THEN {cur[1].pid} ELSE {}

\* The server dies with the requests it holds.
ServerDie ==
    /\ up # "down"
    /\ up' = "down" /\ inq' = <<>> /\ cur' = <<>>
    /\ fate' = [c \in Client |->
                   IF c \in Inside /\ pc[c] # "off" THEN "lossy" ELSE fate[c]]
    /\ UNCHANGED <<boots, mq>> /\ UNCHANGED client

\* local_read_cb: recvfrom.
ReadRequest ==
    /\ up = "idle" /\ inq # <<>>
    /\ inq' = Tail(inq)
    /\ up' = "looking" /\ cur' = <<Head(inq), -1>>
    /\ UNCHANGED <<boots, mq, fate>> /\ UNCHANGED client

\* A variant that creates the queue when there is none.
LookUpCreating ==
    /\ up = "looking"
    /\ LET c == cur[1].pid IN
         /\ up' = "sending"
         /\ \/ /\ mq[c].id # -1
               /\ cur' = <<cur[1], mq[c].id>>
               /\ UNCHANGED <<mq, ids>>
            \/ /\ mq[c].id = -1
               /\ ids' = [ids EXCEPT ![c] = @ + 1]
               /\ mq' = [mq EXCEPT ![c].id = ids[c] + 1]
               /\ cur' = <<cur[1], ids[c] + 1>>
    /\ UNCHANGED <<boots, inq, pc, fd, life, i, got, left, fate>>

\* A variant that waits for the queue to appear.
LookUpWaiting ==
    /\ up = "looking" /\ mq[cur[1].pid].id # -1
    /\ up' = "sending" /\ cur' = <<cur[1], mq[cur[1].pid].id>>
    /\ UNCHANGED <<boots, inq, mq, fate>> /\ UNCHANGED client

\* A variant that takes the test the wrong way round and returns when the
\* queue has been found.
LookUpInverted ==
    /\ up = "looking"
    /\ up' = "idle" /\ cur' = <<>>
    /\ UNCHANGED <<boots, inq, mq, fate>> /\ UNCHANGED client

\* msgget(pid, 0), which does not create a queue; without one the callback
\* returns and the request is dropped.
LookUp ==
    /\ up = "looking"
    /\ LET id == mq[cur[1].pid].id IN
         \/ id # -1 /\ up' = "sending" /\ cur' = <<cur[1], id>>
         \/ id = -1 /\ up' = "idle" /\ cur' = <<>>
    /\ UNCHANGED <<boots, inq, mq, fate>> /\ UNCHANGED client

\* msgsnd: it blocks while the queue is full, and fails without effect once
\* the queue has been removed, even if the key is in use again.
ServerSend ==
    /\ up = "sending"
    /\ LET c == cur[1].pid IN
         \/ /\ mq[c].id = cur[2] /\ Len(mq[c].msgs) < MsgMax
            /\ mq' = [mq EXCEPT ![c].msgs = Append(@, cur[1])]
         \/ mq[c].id # cur[2] /\ UNCHANGED mq
    /\ up' = "idle" /\ cur' = <<>>
    /\ UNCHANGED <<boots, inq, fate>> /\ UNCHANGED client

-----------------------------------------------------------------------------
(* A client.                                                               *)

\* What may still be handed to pid c, oldest first: the messages in its
\* queue, the request in local_read_cb, the requests in the server's queue.
Pending(c) ==
    mq[c].msgs
      \o (IF cur # <<>> /\ cur[1].pid = c THEN <<cur[1]>> ELSE <<>>)
      \o SelectSeq(inq, LAMBDA r : r.pid = c)

\* main up to the loop: msg_init opens the queue with key pid or creates it.
\* When there is none and msgget cannot create one it returns -1, which main
\* does not look at.
ClientStart(c) ==
    /\ pc[c] = "off" /\ life[c] < MaxLives
    /\ life' = [life EXCEPT ![c] = @ + 1]
    /\ \/ /\ mq[c].id # -1
          /\ fd' = [fd EXCEPT ![c] = mq[c].id] /\ UNCHANGED <<mq, ids>>
       \/ /\ mq[c].id = -1
          /\ ids' = [ids EXCEPT ![c] = @ + 1]
          /\ mq' = [mq EXCEPT ![c] = [id |-> ids[c] + 1, msgs |-> <<>>]]
          /\ fd' = [fd EXCEPT ![c] = ids[c] + 1]
       \/ /\ mq[c].id = -1
          /\ fd' = [fd EXCEPT ![c] = -1] /\ UNCHANGED <<mq, ids>>
    /\ pc' = [pc EXCEPT ![c] = "send"]
    /\ i' = [i EXCEPT ![c] = 1]
    /\ got' = [got EXCEPT ![c] = <<>>]
    /\ left' = [left EXCEPT ![c] = Len(Pending(c))]
    /\ fate' = [fate EXCEPT ![c] = "clean"]
    /\ UNCHANGED <<up, boots, inq, cur>>

\* local_addr_send, whose result is not looked at, and the sleep after it.
\* For the properties only, a request says which process sent it and when.
SendRequest(c) ==
    /\ pc[c] = "send"
    /\ \/ up = "down" /\ fate' = [fate EXCEPT ![c] = "lossy"] /\ UNCHANGED inq
       \/ /\ up # "down" /\ Len(inq) < QLen
          /\ inq' = Append(inq, [pid |-> c, life |-> life[c], n |-> i[c]])
          /\ UNCHANGED fate
    /\ pc' = [pc EXCEPT ![c] = "recv"]
    /\ UNCHANGED <<up, boots, cur, mq, ids, fd, life, i, got, left>>

\* The end of a round.
NextRound(c) ==
    /\ pc' = [pc EXCEPT ![c] = IF i[c] < Rounds THEN "send" ELSE "remove"]
    /\ i' = [i EXCEPT ![c] = @ + 1]
    /\ UNCHANGED <<up, boots, inq, cur, ids, fd, life, left, fate>>

\* A variant that does not wait (IPC_NOWAIT).
ReceiveNoWait(c) ==
    /\ pc[c] = "recv"
    /\ IF mq[c].msgs = <<>> THEN UNCHANGED <<mq, got>>
       ELSE /\ got' = [got EXCEPT ![c] = Head(mq[c].msgs)]
            /\ mq' = [mq EXCEPT ![c].msgs = Tail(@)]
    /\ NextRound(c)

\* msg_recv.  msgrcv takes the oldest message, of any type, which main
\* prints, and waits while there is none.  With the id -1 it fails at once:
\* nothing is printed and the next round begins.
Receive(c) ==
    /\ pc[c] = "recv"
    /\ \/ /\ fd[c] # -1 /\ mq[c].msgs # <<>>
          /\ got' = [got EXCEPT ![c] = Head(mq[c].msgs)]
          /\ mq' = [mq EXCEPT ![c].msgs = Tail(@)]
       \/ fd[c] = -1 /\ UNCHANGED <<mq, got>>
    /\ NextRound(c)

\* msgctl(IPC_RMID) after the last round, whatever the queue still holds;
\* with the id -1 it has no effect.
Remove(c) ==
    /\ pc[c] = "remove"
    /\ mq' = IF fd[c] # -1 THEN [mq EXCEPT ![c] = NoQueue] ELSE mq
    /\ pc' = [pc EXCEPT ![c] = "off"]
    /\ UNCHANGED <<up, boots, inq, cur, ids, fd, life, i, got, left, fate>>

\* The client is killed; nothing removes its queue.
Kill(c) ==
    /\ pc[c] # "off"
    /\ pc' = [pc EXCEPT ![c] = "off"]
    /\ fate' = [fate EXCEPT ![c] = "killed"]
    /\ UNCHANGED <<up, boots, inq, cur, mq, ids, fd, life, i, got, left>>

-----------------------------------------------------------------------------
Next ==
    \/ ServerStart \/ ServerDie \/ ReadRequest \/ LookUp \/ ServerSend
    \/ \E c \in Client : \/ ClientStart(c) \/ SendRequest(c)
                         \/ Receive(c) \/ Remove(c) \/ Kill(c)

Spec == Init /\ [][Next]_vars

\* Processes that are not blocked run; nobody has to be started or killed.
FairSpec ==
    /\ Spec
    /\ WF_vars(ReadRequest \/ LookUp \/ ServerSend)
    /\ \A c \in Client : WF_vars(SendRequest(c) \/ Receive(c) \/ Remove(c))

-----------------------------------------------------------------------------
\* Waiting for each answer keeps a process from sending ahead: beyond what
\* its predecessors left, at most one request or message for its pid is on
\* its way, and so a killed process leaves at most one more than it found,
\* and msgsnd can block only when predecessors left a whole queue.
\* (A process whose msgget failed does not wait and may leave more.)
OnePerProcess ==
    \A c \in Client :
        fd[c] # -1 =>
            Len(Pending(c)) <= left[c] + (IF pc[c] \in {"recv", "off"} THEN 1 ELSE 0)

\* The answer a client prints in a round answers the request of that round
\* or an earlier one, and is behind by at most as many rounds as requests
\* and messages of its predecessors were waiting when it started.
InStep ==
    \A c \in Client :
        pc[c] # "off" /\ got[c] # <<>> /\ got[c].life = life[c] =>
            (i[c] - 1) - got[c].n \in 0 .. left[c]

\* A client waits in msgrcv with nothing on its way to it only if one of its
\* requests met a server that was down or that died with it.
StarvedOnlyByLoss ==
    \A c \in Client :
        pc[c] = "recv" /\ fd[c] # -1 /\ Pending(c) = <<>> => fate[c] = "lossy"

\* A client that reaches the end of main leaves no queue behind: the server
\* never creates one, and a late msgsnd does not bring the removed one back.
NoQueueAfterExit ==
    \A c \in Client : pc[c] = "off" /\ fate[c] # "killed" => mq[c] = NoQueue

\* The server waits in msgsnd for room in a full queue whose process will not
\* make any: it was killed, or it waits in sendto for room in the server's.
Jammed ==
    /\ up = "sending"
    /\ LET c == cur[1].pid IN
         /\ mq[c].id = cur[2] /\ Len(mq[c].msgs) = MsgMax
         /\ pc[c] = "off" \/ (pc[c] = "send" /\ Len(inq) = QLen)

\* A client with an answer on its way gets on with its loop, or is killed,
\* or the server loses the answer, or the server is stuck with the queue of
\* a process that was killed or waits for the server itself.  No other full
\* queue, lookup or removal holds up the client.
AnswersArrive ==
    \A c \in Client :
        pc[c] = "recv" /\ Pending(c) # <<>> ~> pc[c] # "recv" \/ fate[c] = "lossy" \/ Jammed

=============================================================================
