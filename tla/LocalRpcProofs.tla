--------------------------- MODULE LocalRpcProofs ---------------------------
(***************************************************************************)
(* Proofs about the number server of domain_sock, for any number of        *)
(* clients, rounds, restarts and any queue length.                         *)
(***************************************************************************)
EXTENDS LocalRpc, SequenceTheorems, TLAPS

\* The latest ticket drawn that is not queued or printed yet: the one being
\* sent, or else the one that will be drawn next.
Top == IF up = "sending" THEN Ticket(cur) ELSE [epoch |-> boot, data |-> count]

\* The callback's answer was drawn by the present run of the server.
CurInv ==
    /\ up # "down" => boot >= 1
    /\ up = "sending" => /\ cur \in Answer
                         /\ cur.epoch = boot /\ cur.data < count

\* Queued answers are older than Top, unprinted, and later than what their
\* client printed last.
PendingInv ==
    \A c \in Client : \A k \in 1..Len(box[c]) :
        /\ box[c][k].epoch >= 1
        /\ Before(box[c][k], Top)
        /\ Ticket(box[c][k]) \notin delivered
        /\ Before(last[c], box[c][k])

\* Each queue is in ticket order.
SortedInv ==
    \A c \in Client : \A j, k \in 1..Len(box[c]) :
        j < k => Before(box[c][j], box[c][k])

\* No ticket is queued at two clients.
ApartInv ==
    \A c, d \in Client : \A j \in 1..Len(box[c]), k \in 1..Len(box[d]) :
        c # d => Before(box[c][j], box[d][k]) \/ Before(box[d][k], box[c][j])

\* What has been printed is older than Top.
PastInv ==
    /\ \A t \in delivered : Before(t, Top)
    /\ \A c \in Client : last[c] = NoReply \/ Before(last[c], Top)

\* The printed numbers have fallen less often than the run that drew the last
\* one has predecessors.
FallsInv ==
    \A c \in Client :
        /\ last[c] = NoReply \/ last[c].epoch >= 1
        /\ falls[c] = 0 \/ falls[c] < last[c].epoch

IInv == /\ TypeOK /\ CurInv /\ PendingInv /\ SortedInv /\ ApartInv /\ PastInv
        /\ FallsInv

-----------------------------------------------------------------------------
\* What is left of a queue when its first n elements have been taken.
LEMMA Rest ==
    ASSUME NEW S, NEW s \in Seq(S), NEW n \in {0, 1}, n <= Len(s)
    PROVE  /\ SubSeq(s, n + 1, Len(s)) \in Seq(S)
           /\ Len(SubSeq(s, n + 1, Len(s))) = Len(s) - n
           /\ \A k \in 1..(Len(s) - n) : SubSeq(s, n + 1, Len(s))[k] = s[k + n]
<1>1. /\ SubSeq(s, n + 1, Len(s)) \in Seq(S)
      /\ Len(SubSeq(s, n + 1, Len(s))) = IF n + 1 <= Len(s) THEN Len(s) - (n + 1) + 1 ELSE 0
      /\ \A k \in 1..(Len(s) - (n + 1) + 1) : SubSeq(s, n + 1, Len(s))[k] = s[n + 1 + k - 1]
  BY SubSeqProperties, LenProperties
<1> QED
  BY <1>1, LenProperties

\* An element of a queue has the queue's element type.
LEMMA Elem ==
    ASSUME TypeOK, NEW c \in Client, NEW k \in 1..Len(box[c])
    PROVE  box[c][k] \in Answer
  BY ElementOfSeq DEF TypeOK

\* The initial states satisfy the inductive invariant.
LEMMA InitIInv == Init => IInv
<1> SUFFICES ASSUME Init PROVE IInv
  OBVIOUS
<1>1. TypeOK
  BY ConstAssumption DEF Init, TypeOK, NoReply
<1>2. CurInv /\ PendingInv /\ SortedInv /\ ApartInv /\ PastInv /\ FallsInv
  BY DEF Init, CurInv, PendingInv, SortedInv, ApartInv, PastInv, FallsInv
<1> QED
  BY <1>1, <1>2 DEF IInv

-----------------------------------------------------------------------------
\* No step of a process breaks the type invariant.
LEMMA NextTypeOK == TypeOK /\ CurInv /\ [Next]_vars => TypeOK'
<1> SUFFICES ASSUME TypeOK, CurInv, [Next]_vars PROVE TypeOK'
  OBVIOUS
<1> USE ConstAssumption
<1>1. CASE ServerStart
  BY <1>1 DEF ServerStart, client, TypeOK
<1>2. CASE ServerDie
  BY <1>2 DEF ServerDie, client, TypeOK
<1>3. CASE ReadRequest
  <2>1. /\ Head(inq) \in Request /\ Tail(inq) \in Seq(Request)
        /\ Len(Tail(inq)) <= QLen
    BY <1>3, HeadTailProperties, LenProperties DEF ReadRequest, TypeOK
  <2>2. cur' \in Answer
    BY <1>3, <2>1 DEF ReadRequest, TypeOK, Answer
  <2> QED
    BY <1>3, <2>1, <2>2, SMTT(30) DEF ReadRequest, client, TypeOK
<1>4. CASE ServerSend
  <2>1. cur \in Answer
    BY <1>4 DEF ServerSend, CurInv
  <2> DEFINE c == cur.req.pid
  <2>2. c \in Client
    BY <2>1 DEF Answer, Request
  <2>3. ASSUME Len(box[c]) < QLen, box' = [box EXCEPT ![c] = Append(@, cur)]
        PROVE  /\ box' \in [Client -> Seq(Answer)]
               /\ \A d \in Client : Len(box'[d]) <= QLen
    <3>1. /\ Append(box[c], cur) \in Seq(Answer)
          /\ Len(Append(box[c], cur)) <= QLen
      BY <2>1, <2>2, <2>3, AppendProperties, LenProperties, SMTT(30) DEF TypeOK
    <3> QED
      BY <2>2, <2>3, <3>1 DEF TypeOK
  <2>4. /\ box' \in [Client -> Seq(Answer)]
        /\ \A d \in Client : Len(box'[d]) <= QLen
    BY <1>4, <2>3, SMTT(30) DEF ServerSend, TypeOK
  <2> QED
    BY <1>4, <2>4, SMTT(30) DEF ServerSend, client, TypeOK
<1>5. ASSUME NEW c \in Client, ClientStart(c) PROVE TypeOK'
  <2>1. life' \in [Client -> 0..MaxLives]
    BY <1>5 DEF ClientStart, TypeOK
  <2>2. /\ i' \in [Client -> 0..Rounds] /\ at' \in [Client -> 0..Rounds]
        /\ falls' \in [Client -> Nat]
    BY <1>5 DEF ClientStart, TypeOK
  <2>3. /\ pc' \in [Client -> {"off", "send", "recv"}]
        /\ last' \in [Client -> Answer \cup {NoReply}]
    BY <1>5, Zenon DEF ClientStart, TypeOK
  <2>4. /\ up' = up /\ boot' = boot /\ count' = count /\ inq' = inq /\ cur' = cur
        /\ box' = box /\ delivered' = delivered
    BY <1>5, Zenon DEF ClientStart, server
  <2> QED
    BY <2>1, <2>2, <2>3, <2>4, Zenon DEF TypeOK
<1>6. ASSUME NEW c \in Client, SendRequest(c) PROVE TypeOK'
  <2> DEFINE r == [pid |-> c, life |-> life[c], n |-> i[c]]
  <2>1. r \in Request
    BY DEF TypeOK, Request
  <2>2. Len(inq) < QLen => Append(inq, r) \in Seq(Request) /\ Len(Append(inq, r)) <= QLen
    BY <2>1, AppendProperties, LenProperties DEF TypeOK
  <2> QED
    BY <1>6, <2>2, Zenon DEF SendRequest, TypeOK
<1>7. ASSUME NEW c \in Client, NEW n \in {0, 1}, n <= Len(box[c]), NextRound(c, n)
      PROVE  /\ pc' \in [Client -> {"off", "send", "recv"}]
             /\ i' \in [Client -> 0..Rounds]
             /\ box' \in [Client -> Seq(Answer)]
             /\ \A d \in Client : Len(box'[d]) <= QLen
             /\ life' = life /\ server' = server
  <2>1. /\ SubSeq(box[c], n + 1, Len(box[c])) \in Seq(Answer)
        /\ Len(SubSeq(box[c], n + 1, Len(box[c]))) <= QLen
    BY <1>7, Rest, LenProperties DEF TypeOK
  <2> QED
    BY <1>7, <2>1, SMTT(30) DEF NextRound, TypeOK
<1>8. ASSUME NEW c \in Client, Receive(c) PROVE TypeOK'
  <2>1. Len(box[c]) >= 1 /\ Head(box[c]) \in Answer
    BY <1>8, HeadTailProperties, LenProperties, EmptySeq DEF Receive, TypeOK
  <2>2. Ticket(Head(box[c])) \in [epoch : Nat, data : Nat]
    BY <2>1 DEF Answer, Ticket
  <2> QED
    <3>1. falls' \in [Client -> Nat]
      BY <1>8 DEF Receive, Printed, TypeOK
    <3> QED
      BY <1>7, <1>8, <2>1, <2>2, <3>1, Zenon DEF Receive, Printed, TypeOK, server
<1>9. ASSUME NEW c \in Client, Timeout(c) PROVE TypeOK'
  <2>1. 0 <= Len(box[c])
    BY LenProperties DEF TypeOK
  <2> QED
    BY <1>7, <1>9, <2>1, Zenon DEF Timeout, TypeOK, server
<1>10. ASSUME NEW c \in Client, Kill(c) PROVE TypeOK'
  BY <1>10, SMTT(30) DEF Kill, server, TypeOK
<1>11. CASE UNCHANGED vars
  BY <1>11 DEF vars, TypeOK
<1> QED
  BY <1>1, <1>2, <1>3, <1>4, <1>5, <1>6, <1>8, <1>9, <1>10, <1>11 DEF Next

-----------------------------------------------------------------------------
\* The present run of the server drew the answer it is sending.
LEMMA NextCurInv == TypeOK /\ CurInv /\ [Next]_vars => CurInv'
<1> SUFFICES ASSUME TypeOK, CurInv, [Next]_vars PROVE CurInv'
  OBVIOUS
<1>1. CASE ReadRequest
  <2>1. Head(inq) \in Request
    BY <1>1, HeadTailProperties DEF ReadRequest, TypeOK
  <2> QED
    BY <1>1, <2>1 DEF ReadRequest, TypeOK, CurInv, Answer
<1>2. CASE ServerStart \/ ServerDie \/ ServerSend
  BY <1>2 DEF ServerStart, ServerDie, ServerSend, TypeOK, CurInv
<1>3. ASSUME NEW c \in Client,
             ClientStart(c) \/ SendRequest(c) \/ Receive(c) \/ Timeout(c) \/ Kill(c)
      PROVE  CurInv'
  BY <1>3 DEF ClientStart, SendRequest, Receive, Timeout, Kill, NextRound, server, CurInv
<1>4. CASE UNCHANGED vars
  BY <1>4 DEF vars, CurInv
<1> QED
  BY <1>1, <1>2, <1>3, <1>4 DEF Next

\* Top is a ticket, and what is before it stays before it.
LEMMA TopMoves ==
    ASSUME TypeOK, CurInv, [Next]_vars, NEW t, t.epoch \in Nat, t.data \in Nat,
           Before(t, Top)
    PROVE  Before(t, Top')
<1> USE DEF Before, Top, Ticket, TypeOK, CurInv, Answer
<1>1. CASE ServerStart
  BY <1>1 DEF ServerStart
<1>2. CASE ServerDie
  BY <1>2 DEF ServerDie
<1>3. CASE ReadRequest
  BY <1>3 DEF ReadRequest
<1>4. CASE ServerSend
  BY <1>4, SMTT(30) DEF ServerSend
<1>5. ASSUME NEW c \in Client,
             ClientStart(c) \/ SendRequest(c) \/ Receive(c) \/ Timeout(c) \/ Kill(c)
      PROVE  UNCHANGED <<up, boot, count, cur>>
  BY <1>5 DEF ClientStart, SendRequest, Receive, Timeout, Kill, NextRound, server
<1>6. CASE UNCHANGED vars
  BY <1>6 DEF vars
<1> QED
  BY <1>1, <1>2, <1>3, <1>4, <1>5, <1>6 DEF Next

\* The part of the invariant that is about the queues and what was printed.
QueueInv == PendingInv /\ SortedInv /\ ApartInv /\ PastInv

\* Steps that leave the queues and the printed tickets alone.
LEMMA SameQueues ==
    ASSUME IInv, [Next]_vars, UNCHANGED <<box, last, delivered>>
    PROVE  QueueInv'
<1> USE DEF IInv
<1>1. \A c \in Client : \A k \in 1..Len(box[c]) : Before(box[c][k], Top')
  BY TopMoves, Elem DEF PendingInv, Answer
<1>2. PendingInv'
  BY <1>1 DEF PendingInv, Before
<1>3. SortedInv' /\ ApartInv'
  BY DEF SortedInv, ApartInv, Before
<1>4. \A t \in delivered : Before(t, Top')
  BY TopMoves, Zenon DEF PastInv, TypeOK
<1>5. \A c \in Client : last[c] = NoReply \/ Before(last[c], Top')
  <2> TAKE c \in Client
  <2>1. last[c] \in Answer \/ last[c] = NoReply
    BY DEF TypeOK
  <2> QED
    BY <2>1, TopMoves DEF PastInv, Answer
<1>6. PastInv'
  BY <1>4, <1>5 DEF PastInv, Before
<1> QED
  BY <1>2, <1>3, <1>6 DEF QueueInv

\* The end of a round, or a kill, takes answers off the front of a queue.
LEMMA ShorterQueue ==
    ASSUME IInv, NEW c \in Client, NEW n \in {0, 1}, n <= Len(box[c]),
           box' = [box EXCEPT ![c] = <<>>]
             \/ box' = [box EXCEPT ![c] = SubSeq(@, n + 1, Len(@))]
    PROVE  /\ \A d \in Client : d # c => box'[d] = box[d]
           /\ Len(box'[c]) \in Nat
           /\ \A k \in 1..Len(box'[c]) : /\ k + n \in 1..Len(box[c])
                                        /\ box'[c][k] = box[c][k + n]
<1>1. box[c] \in Seq(Answer) /\ Len(box[c]) \in Nat
  BY LenProperties DEF IInv, TypeOK
<1>2. CASE box' = [box EXCEPT ![c] = <<>>]
  BY <1>2 DEF IInv, TypeOK
<1>3. CASE box' = [box EXCEPT ![c] = SubSeq(@, n + 1, Len(@))]
  <2>1. box'[c] = SubSeq(box[c], n + 1, Len(box[c]))
    BY <1>3 DEF IInv, TypeOK
  <2>2. /\ Len(box'[c]) = Len(box[c]) - n
        /\ \A k \in 1..(Len(box[c]) - n) : box'[c][k] = box[c][k + n]
    BY <1>1, <2>1, Rest
  <2> QED
    BY <1>1, <1>3, <2>2, SMTT(30) DEF IInv, TypeOK
<1> QED
  BY <1>2, <1>3

\* Queues whose elements only move forward stay in order and apart.
LEMMA ShiftedQueues ==
    ASSUME IInv, NEW c \in Client, NEW n \in {0, 1},
           \A d \in Client : d # c => box'[d] = box[d],
           \A k \in 1..Len(box'[c]) : /\ k + n \in 1..Len(box[c])
                                    /\ box'[c][k] = box[c][k + n]
    PROVE  SortedInv' /\ ApartInv'
<1> USE DEF IInv
<1>1. \A d \in Client : \A k \in 1..Len(box'[d]) :
         \E m \in 1..Len(box[d]) : box'[d][k] = box[d][m]
  BY SMTT(30)
<1>2. ASSUME NEW d \in Client, NEW j \in 1..Len(box'[d]), NEW k \in 1..Len(box'[d]), j < k
      PROVE  Before(box'[d][j], box'[d][k])
  <2>1. CASE d # c
    BY <1>2, <2>1 DEF SortedInv
  <2>2. CASE d = c
    <3>1. /\ j + n \in 1..Len(box[c]) /\ k + n \in 1..Len(box[c]) /\ j + n < k + n
          /\ box'[c][j] = box[c][j + n] /\ box'[c][k] = box[c][k + n]
      BY <1>2, <2>2, SMTT(30)
    <3>2. Before(box[c][j + n], box[c][k + n])
      BY <3>1 DEF SortedInv
    <3> QED
      BY <2>2, <3>1, <3>2
  <2> QED
    BY <2>1, <2>2
<1>3. ASSUME NEW d \in Client, NEW e \in Client, d # e,
             NEW j \in 1..Len(box'[d]), NEW k \in 1..Len(box'[e])
      PROVE  Before(box'[d][j], box'[e][k]) \/ Before(box'[e][k], box'[d][j])
  <2>1. PICK l \in 1..Len(box[d]) : box'[d][j] = box[d][l]
    BY <1>1, Zenon
  <2>2. PICK m \in 1..Len(box[e]) : box'[e][k] = box[e][m]
    BY <1>1, ZenonT(60)
  <2> QED
    BY <1>3, <2>1, <2>2 DEF ApartInv
<1>4. SortedInv'
  BY <1>2, SMTT(30) DEF SortedInv, Before
<1>5. ApartInv'
  BY <1>3 DEF ApartInv, Before
<1> QED
  BY <1>4, <1>5

\* Answers leave a queue unprinted: a timeout, or the end of a process.
LEMMA DropAnswers ==
    ASSUME IInv, NEW c \in Client,
           box' = [box EXCEPT ![c] = <<>>]
             \/ box' = [box EXCEPT ![c] = SubSeq(@, 1, Len(@))],
           UNCHANGED <<last, delivered, up, boot, count, cur>>
    PROVE  QueueInv'
<1> USE DEF IInv
<1>1. 0 <= Len(box[c]) /\ 0 + 1 = 1
  BY LenProperties DEF TypeOK
<1>2. /\ \A d \in Client : d # c => box'[d] = box[d]
      /\ Len(box'[c]) \in Nat
      /\ \A k \in 1..Len(box'[c]) : k \in 1..Len(box[c]) /\ box'[c][k] = box[c][k]
  <2>1. /\ \A d \in Client : d # c => box'[d] = box[d]
        /\ Len(box'[c]) \in Nat
        /\ \A k \in 1..Len(box'[c]) : /\ k + 0 \in 1..Len(box[c])
                                     /\ box'[c][k] = box[c][k + 0]
    BY <1>1, ShorterQueue
  <2> QED
    BY <2>1
<1>3. Top' = Top
  BY SMTT(30) DEF Top, Ticket
<1>4. PendingInv' /\ PastInv'
  BY <1>2, <1>3 DEF PendingInv, PastInv, Before, Ticket
<1>5. SortedInv' /\ ApartInv'
  <2>1. \A k \in 1..Len(box'[c]) : /\ k + 0 \in 1..Len(box[c])
                                 /\ box'[c][k] = box[c][k + 0]
    BY <1>2
  <2> QED
    BY <1>2, <2>1, ShiftedQueues
<1> QED
  BY <1>4, <1>5 DEF QueueInv

\* Printing the oldest answer keeps the queues in order.
LEMMA ReceiveQueueInv ==
    ASSUME IInv, NEW c \in Client, Receive(c)
    PROVE  QueueInv'
<1> USE DEF IInv
<1> DEFINE h == box[c][1]
<1>1. /\ 1 \in 1..Len(box[c]) /\ 1 <= Len(box[c])
      /\ Head(box[c]) = h /\ h \in Answer
  BY HeadTailProperties, LenProperties, EmptySeq, Elem DEF Receive, TypeOK
<1>2. /\ \A d \in Client : d # c => box'[d] = box[d]
      /\ Len(box'[c]) \in Nat
      /\ \A k \in 1..Len(box'[c]) : /\ k + 1 \in 1..Len(box[c])
                                   /\ box'[c][k] = box[c][k + 1]
  <2>1. box' = [box EXCEPT ![c] = <<>>]
          \/ box' = [box EXCEPT ![c] = SubSeq(@, 1 + 1, Len(@))]
    BY ZenonT(60) DEF Receive, NextRound
  <2> QED
    BY <1>1, <2>1, ShorterQueue, SMTT(30)
<1>3. /\ last'[c] = h /\ \A d \in Client : d # c => last'[d] = last[d]
      /\ delivered' = delivered \cup {Ticket(h)}
      /\ Top' = Top
  BY <1>1, SMTT(30) DEF Receive, Printed, NextRound, server, Top, Ticket, TypeOK
<1>4. \A k \in 1..Len(box'[c]) : Before(h, box'[c][k]) /\ Ticket(box'[c][k]) # Ticket(h)
  <2> TAKE k \in 1..Len(box'[c])
  <2>1. Before(h, box'[c][k])
    <3>1. k + 1 \in 1..Len(box[c]) /\ box'[c][k] = box[c][k + 1] /\ 1 < k + 1
      BY <1>2
    <3>2. Before(box[c][1], box[c][k + 1])
      BY <1>1, <3>1, Zenon DEF SortedInv
    <3> QED
      BY <3>1, <3>2, Zenon
  <2>2. box'[c][k] \in Answer
    BY <1>2, Elem
  <2> QED
    BY <1>1, <2>1, <2>2 DEF Before, Ticket, Answer
<1>5. PendingInv'
  <2> SUFFICES ASSUME NEW d \in Client, NEW k \in 1..Len(box'[d])
               PROVE  /\ box'[d][k].epoch >= 1
                      /\ Before(box'[d][k], Top)
                      /\ Ticket(box'[d][k]) \notin delivered'
                      /\ Before(last'[d], box'[d][k])
    BY <1>3, ZenonT(60) DEF PendingInv, Before, Ticket
  <2>1. CASE d = c
    BY <1>2, <1>3, <1>4, <2>1, SMTT(30) DEF PendingInv
  <2>2. CASE d # c
    <3>1. box'[d] = box[d] /\ last'[d] = last[d] /\ box[d][k] \in Answer
      BY <1>2, <1>3, <2>2, Elem, SMTT(30)
    <3>2. Before(h, box[d][k]) \/ Before(box[d][k], h)
      BY <1>1, <2>2, <3>1, SMTT(30) DEF ApartInv
    <3>3. Ticket(box[d][k]) # Ticket(h)
      BY <1>1, <3>1, <3>2, SMTT(30) DEF Before, Ticket, Answer
    <3> QED
      BY <1>3, <3>1, <3>3, SMTT(30) DEF PendingInv
  <2> QED
    BY <2>1, <2>2
<1>6. SortedInv' /\ ApartInv'
  BY <1>2, ShiftedQueues, SMTT(30)
<1>7. PastInv'
  <2>1. Before(h, Top) /\ Before(Ticket(h), Top)
    BY <1>1, Zenon DEF PendingInv, Before, Ticket
  <2> QED
    BY <1>3, <2>1, SMTT(30) DEF PastInv, Before
<1> QED
  BY <1>5, <1>6, <1>7 DEF QueueInv

\* Queueing the answer that was drawn last keeps the queues in order.
LEMMA SendQueueInv ==
    ASSUME IInv, [Next]_vars, ServerSend
    PROVE  QueueInv'
<1> USE DEF IInv
<1> DEFINE c == cur.req.pid
<1>1. /\ c \in Client /\ cur \in Answer
      /\ Top = Ticket(cur) /\ cur.epoch >= 1
      /\ UNCHANGED <<last, delivered>>
  BY SMTT(30) DEF ServerSend, CurInv, Answer, Request, Top, client, TypeOK
<1>2. CASE UNCHANGED box
  BY <1>1, <1>2, SameQueues
<1>3. CASE box' = [box EXCEPT ![c] = Append(@, cur)]
  <2> DEFINE L == Len(box[c])
  <2>1. /\ \A d \in Client : d # c => box'[d] = box[d]
        /\ L \in Nat /\ Len(box'[c]) = L + 1
        /\ \A k \in 1..L : box'[c][k] = box[c][k]
        /\ box'[c][L + 1] = cur
    BY <1>1, <1>3, AppendProperties, LenProperties, SMTT(30) DEF TypeOK
  <2>2. /\ Before(cur, Top')
        /\ \A d \in Client : \A k \in 1..Len(box[d]) :
              Before(box[d][k], cur) /\ Before(box[d][k], Top')
    <3>1. Before(cur, Top')
      BY SMTT(30) DEF ServerSend, CurInv, Top, Before, TypeOK
    <3>2. \A d \in Client : \A k \in 1..Len(box[d]) : Before(box[d][k], cur)
      BY <1>1, Zenon DEF PendingInv, Before, Ticket
    <3>3. \A d \in Client : \A k \in 1..Len(box[d]) : Before(box[d][k], Top')
      BY TopMoves, Elem DEF PendingInv, Answer
    <3> QED
      BY <3>1, <3>2, <3>3, SMTT(30)
  <2>3. Ticket(cur) \notin delivered
    BY <1>1 DEF PastInv, Before, Ticket, Answer
  <2>4. Before(last[c], cur)
    <3>1. CASE last[c] = NoReply
      BY <1>1, <3>1 DEF Before, NoReply, Answer
    <3>2. CASE Before(last[c], Top)
      BY <1>1, <3>2 DEF Before, Ticket
    <3> QED
      BY <1>1, <3>1, <3>2 DEF PastInv
  <2>5. PendingInv'
    <3> SUFFICES ASSUME NEW d \in Client, NEW k \in 1..Len(box'[d])
                 PROVE  /\ box'[d][k].epoch >= 1
                        /\ Before(box'[d][k], Top')
                        /\ Ticket(box'[d][k]) \notin delivered
                        /\ Before(last[d], box'[d][k])
      BY <1>1, ZenonT(60) DEF PendingInv, Before, Ticket
    <3>1. CASE d = c /\ k = L + 1
      <4>1. box'[d][k] = cur /\ last[d] = last[c]
        BY <2>1, <3>1, Zenon
      <4>2. Ticket(box'[d][k]) \notin delivered
        BY <2>3, <4>1, Zenon
      <4> QED
        BY <1>1, <2>2, <2>4, <4>1, <4>2, Zenon
    <3>2. CASE ~(d = c /\ k = L + 1)
      <4>1. k \in 1..Len(box[d]) /\ box'[d][k] = box[d][k]
        BY <2>1, <3>2, SMTT(30)
      <4> QED
        BY <2>2, <4>1, SMTT(30) DEF PendingInv
    <3> QED
      BY <3>1, <3>2
  <2>6. SortedInv'
    <3> SUFFICES ASSUME NEW d \in Client, NEW j \in 1..Len(box'[d]),
                        NEW k \in 1..Len(box'[d]), j < k
                 PROVE  Before(box'[d][j], box'[d][k])
      BY DEF SortedInv, Before
    <3>1. j \in 1..Len(box[d]) /\ box'[d][j] = box[d][j]
      BY <2>1, SMTT(30)
    <3>2. CASE d = c /\ k = L + 1
      BY <2>1, <2>2, <3>1, <3>2
    <3>3. CASE ~(d = c /\ k = L + 1)
      <4>1. k \in 1..Len(box[d]) /\ box'[d][k] = box[d][k]
        BY <2>1, <3>3, SMTT(30)
      <4> QED
        BY <3>1, <4>1 DEF SortedInv
    <3> QED
      BY <3>2, <3>3
  <2>7. ApartInv'
    <3> SUFFICES ASSUME NEW d \in Client, NEW e \in Client, d # e,
                        NEW j \in 1..Len(box'[d]), NEW k \in 1..Len(box'[e])
                 PROVE  Before(box'[d][j], box'[e][k]) \/ Before(box'[e][k], box'[d][j])
      BY SMTT(30) DEF ApartInv, Before
    <3>0. ASSUME NEW f \in Client, NEW l \in 1..Len(box'[f])
          PROVE  \/ l \in 1..Len(box[f]) /\ box'[f][l] = box[f][l]
                 \/ f = c /\ box'[f][l] = cur
      <4>1. CASE f = c
        <5>1. Len(box'[f]) = L + 1
          BY <2>1, <4>1, Zenon
        <5>2. l \in 1..L \/ l = L + 1
          <6>1. L \in Nat
            BY <2>1
          <6> QED
            BY <5>1, <6>1, SMTT(30)
        <5> QED
          BY <2>1, <4>1, <5>2, Zenon
      <4>2. CASE f # c
        BY <2>1, <4>2
      <4> QED
        BY <4>1, <4>2, SMTT(30)
    <3>1. \/ j \in 1..Len(box[d]) /\ box'[d][j] = box[d][j]
          \/ d = c /\ box'[d][j] = cur
      BY <3>0
    <3>2. \/ k \in 1..Len(box[e]) /\ box'[e][k] = box[e][k]
          \/ e = c /\ box'[e][k] = cur
      BY <3>0
    <3> QED
      BY <2>2, <3>1, <3>2 DEF ApartInv
  <2>8. PastInv'
    <3>1. \A t \in delivered : Before(t, Top')
      BY TopMoves, Zenon DEF PastInv, TypeOK
    <3>2. \A d \in Client : last[d] = NoReply \/ Before(last[d], Top')
      BY TopMoves, ZenonT(60) DEF PastInv, Answer, TypeOK
    <3> QED
      BY <1>1, <3>1, <3>2 DEF PastInv, Before
  <2> QED
    BY <2>5, <2>6, <2>7, <2>8 DEF QueueInv
<1> QED
  BY <1>2, <1>3, SMTT(30) DEF ServerSend

\* A new process has printed nothing; what is queued is later than nothing.
LEMMA StartQueueInv ==
    ASSUME IInv, NEW c \in Client, ClientStart(c)
    PROVE  QueueInv'
<1> USE DEF IInv
<1>1. /\ UNCHANGED <<box, delivered>> /\ Top' = Top
      /\ last'[c] = NoReply /\ \A d \in Client : d # c => last'[d] = last[d]
  BY SMTT(30) DEF ClientStart, server, Top, Ticket, TypeOK
<1>2. \A d \in Client : \A k \in 1..Len(box[d]) : Before(NoReply, box[d][k])
  BY Elem, SMTT(30) DEF PendingInv, Before, NoReply, Answer
<1>3. PendingInv'
  <2>1. ASSUME NEW d \in Client, NEW k \in 1..Len(box[d])
        PROVE  /\ box[d][k].epoch >= 1
               /\ Before(box[d][k], Top)
               /\ Ticket(box[d][k]) \notin delivered
               /\ Before(last'[d], box[d][k])
    BY <1>1, <1>2, <2>1, Zenon DEF PendingInv
  <2> SUFFICES ASSUME NEW d \in Client, NEW k \in 1..Len(box'[d])
               PROVE  /\ box'[d][k].epoch >= 1
                      /\ Before(box'[d][k], Top')
                      /\ Ticket(box'[d][k]) \notin delivered'
                      /\ Before(last'[d], box'[d][k])
    BY Zenon DEF PendingInv, Before, Ticket
  <2> QED
    BY <1>1, <2>1, Zenon
<1>4. SortedInv' /\ ApartInv'
  <2>1. box' = box /\ SortedInv /\ ApartInv
    BY <1>1
  <2>2. SortedInv'
    BY <2>1, SMTT(30) DEF SortedInv, Before
  <2>3. ApartInv'
    <3> SUFFICES ASSUME NEW d \in Client, NEW e \in Client, d # e,
                        NEW j \in 1..Len(box'[d]), NEW k \in 1..Len(box'[e])
                 PROVE  Before(box'[d][j], box'[e][k]) \/ Before(box'[e][k], box'[d][j])
      BY SMTT(30) DEF ApartInv, Before
    <3> QED
      BY <2>1, Zenon DEF ApartInv
  <2> QED
    BY <2>2, <2>3
<1>5. PastInv'
  BY <1>1 DEF PastInv, Before
<1> QED
  BY <1>3, <1>4, <1>5 DEF QueueInv

\* Printing an answer: the number falls only when a later run drew it.
LEMMA NextFallsInv == IInv /\ [Next]_vars => FallsInv'
<1> SUFFICES ASSUME IInv, [Next]_vars PROVE FallsInv'
  OBVIOUS
<1>1. ASSUME NEW c \in Client, Receive(c) PROVE FallsInv'
  <2> DEFINE h == box[c][1]
  <2>1. 1 \in 1..Len(box[c]) /\ Head(box[c]) = h /\ h \in Answer
    BY <1>1, HeadTailProperties, LenProperties, EmptySeq, Elem DEF Receive, IInv, TypeOK
  <2>2. h.epoch >= 1 /\ Before(last[c], h)
    BY <2>1 DEF IInv, PendingInv
  <2>3. /\ last' = [last EXCEPT ![c] = h]
        /\ falls' = [falls EXCEPT ![c] =
                        IF last[c] # NoReply /\ h.data <= last[c].data THEN @ + 1 ELSE @]
    BY <1>1, <2>1, Zenon DEF Receive, Printed
  <2>4. /\ h.epoch \in Nat /\ h.data \in Nat /\ falls[c] \in Nat
        /\ last[c] # NoReply => last[c].epoch \in Nat /\ last[c].data \in Nat
    BY <2>1 DEF IInv, TypeOK, Answer
  <2> HIDE DEF h
  <2>5. falls[c] = 0 \/ falls[c] < last[c].epoch
    BY DEF IInv, FallsInv
  <2>6. ASSUME last[c] = NoReply PROVE falls[c] = 0
    BY <2>4, <2>5, <2>6 DEF NoReply
  <2>7. falls'[c] = 0 \/ falls'[c] < h.epoch
    <3>1. falls'[c] = IF last[c] # NoReply /\ h.data <= last[c].data
                      THEN falls[c] + 1 ELSE falls[c]
      BY <2>3 DEF IInv, TypeOK
    <3>2. CASE last[c] = NoReply
      BY <2>6, <3>1, <3>2
    <3>3. CASE last[c] # NoReply
      <4>1. last[c].epoch >= 1
        BY <3>3 DEF IInv, FallsInv
      <4> QED
        BY <2>2, <2>4, <2>5, <3>1, <3>3, <4>1 DEF Before
    <3> QED
      BY <3>2, <3>3
  <2>8. last'[c] = h
    BY <2>3 DEF IInv, TypeOK
  <2>9. \A d \in Client : d # c => last'[d] = last[d] /\ falls'[d] = falls[d]
    BY <2>3 DEF IInv, TypeOK
  <2> QED
    BY <2>2, <2>7, <2>8, <2>9 DEF IInv, FallsInv, NoReply
<1>2. ASSUME NEW c \in Client, ClientStart(c) PROVE FallsInv'
  <2>1. /\ last'[c] = NoReply /\ falls'[c] = 0
        /\ \A d \in Client : d # c => last'[d] = last[d] /\ falls'[d] = falls[d]
    BY <1>2 DEF ClientStart, IInv, TypeOK
  <2> QED
    BY <2>1 DEF IInv, FallsInv, NoReply
<1>3. CASE UNCHANGED <<last, falls>>
  BY <1>3 DEF IInv, FallsInv, NoReply
<1>4. ASSUME NEW c \in Client, SendRequest(c) \/ Timeout(c) \/ Kill(c)
      PROVE  UNCHANGED <<last, falls>>
  BY <1>4 DEF SendRequest, Timeout, Kill
<1>5. CASE ServerStart \/ ServerDie \/ ReadRequest \/ ServerSend \/ UNCHANGED vars
  BY <1>3, <1>5 DEF ServerStart, ServerDie, ReadRequest, ServerSend, client, vars
<1> QED
  BY <1>1, <1>2, <1>3, <1>4, <1>5, Zenon DEF Next

\* The inductive invariant holds throughout every behaviour.
THEOREM Invariance == Spec => []IInv
<1>1. ASSUME IInv, [Next]_vars PROVE QueueInv'
  <2>1. CASE ServerStart \/ ServerDie \/ ReadRequest \/ UNCHANGED vars
    BY <1>1, <2>1, SameQueues DEF ServerStart, ServerDie, ReadRequest, client, vars
  <2>2. CASE ServerSend
    BY <1>1, <2>2, SendQueueInv
  <2>3. ASSUME NEW c \in Client, ClientStart(c) PROVE QueueInv'
    BY <1>1, <2>3, StartQueueInv
  <2>4. ASSUME NEW c \in Client, SendRequest(c) PROVE QueueInv'
    BY <1>1, <2>4, SameQueues DEF SendRequest
  <2>5. ASSUME NEW c \in Client, Receive(c) PROVE QueueInv'
    BY <1>1, <2>5, ReceiveQueueInv
  <2>6. ASSUME NEW c \in Client, Timeout(c) \/ Kill(c) PROVE QueueInv'
    <3>1. box' = [box EXCEPT ![c] = <<>>]
            \/ box' = [box EXCEPT ![c] = SubSeq(@, 1, Len(@))]
      BY <2>6 DEF Timeout, NextRound, Kill
    <3>2. UNCHANGED <<last, delivered, up, boot, count, cur>>
      BY <2>6 DEF Timeout, NextRound, Kill, server
    <3> QED
      BY <1>1, <3>1, <3>2, DropAnswers
  <2> QED
    BY <1>1, <2>1, <2>2, <2>3, <2>4, <2>5, <2>6, SMTT(30) DEF Next
<1>2. IInv /\ [Next]_vars => IInv'
  BY <1>1, NextTypeOK, NextCurInv, NextFallsInv DEF IInv, QueueInv
<1> QED
  BY <1>2, InitIInv, PTL DEF Spec

\* Type correctness; in particular no queue exceeds its capacity.
THEOREM TypeCorrect == Spec => []TypeOK
<1>1. IInv => TypeOK
  BY SMTT(30) DEF IInv
<1> QED
  BY <1>1, Invariance, PTL

\* Of the numbers a client prints, each is larger than the one before it,
\* except once at most for every restart of the server, whatever times out,
\* dies or is reborn under the same pid.
THEOREM AnswersInOrder == Spec => []InOrder
<1>1. ASSUME IInv, NEW c \in Client PROVE falls[c] = 0 \/ falls[c] < boot
  <2>1. CASE last[c] = NoReply
    BY <1>1, <2>1 DEF IInv, TypeOK, FallsInv, NoReply
  <2>2. CASE last[c] # NoReply
    <3>1. last[c].epoch \in Nat /\ boot \in Nat /\ falls[c] \in Nat
      BY <1>1, <2>2, ConstAssumption DEF IInv, TypeOK, Answer
    <3>2. Top.epoch = boot
      BY <1>1 DEF IInv, CurInv, Top, Ticket
    <3>3. last[c].epoch <= boot
      BY <1>1, <2>2, <3>1, <3>2 DEF IInv, PastInv, Before
    <3> QED
      BY <1>1, <3>1, <3>3 DEF IInv, FallsInv
  <2> QED
    BY <2>1, <2>2
<1>2. IInv => InOrder
  BY <1>1 DEF InOrder
<1> QED
  BY <1>2, Invariance, PTL

-----------------------------------------------------------------------------
\* domain_sock implements the ticket service: every number is handed out at
\* most once, to one client, after it was drawn and in increasing order.
THEOREM Refinement == Spec => ImplementsTickets
<1>1. Init => T!Init
  BY DEF Init, T!Init, Ticket, NoReply
<1>2. ASSUME IInv, [Next]_vars PROVE [T!Next]_(T!vars)
  <2> USE <1>2 DEF IInv
  <2>1. CASE UNCHANGED <<boot, count, last, delivered>>
    BY <2>1 DEF T!vars, Ticket
  <2>2. CASE ServerStart \/ ReadRequest
    <3>1. /\ boot' > boot \/ (boot' = boot /\ count' > count)
          /\ UNCHANGED <<last, delivered>>
      BY <2>2 DEF ServerStart, ReadRequest, client, TypeOK
    <3>2. T!Draw
      BY <3>1, SMTT(30) DEF T!Draw, T!Before, Ticket, TypeOK
    <3> QED
      BY <3>2 DEF T!Next
  <2>3. CASE ServerDie \/ ServerSend
    BY <2>1, <2>3 DEF ServerDie, ServerSend, client
  <2>4. ASSUME NEW c \in Client, ClientStart(c) PROVE T!Next
    <3>1. T!Join(c)
      BY <2>4, Zenon DEF ClientStart, server, T!Join, Ticket, TypeOK
    <3> QED
      BY <3>1, SMTT(30) DEF T!Next
  <2>5. ASSUME NEW c \in Client, Receive(c) PROVE T!Next
    <3> DEFINE h == box[c][1]
    <3>1. /\ 1 \in 1..Len(box[c]) /\ Head(box[c]) = h /\ h \in Answer
      BY <2>5, HeadTailProperties, LenProperties, EmptySeq, Elem, SMTT(30) DEF Receive, TypeOK
    <3>2. /\ Before(h, Top) /\ Ticket(h) \notin delivered /\ Before(last[c], h)
      <4>1. \A k \in 1..Len(box[c]) :
               /\ Before(box[c][k], Top) /\ Ticket(box[c][k]) \notin delivered
               /\ Before(last[c], box[c][k])
        BY Zenon DEF PendingInv
      <4> QED
        BY <3>1, <4>1, Zenon
    <3>3. h.epoch < boot \/ (h.epoch = boot /\ h.data < count)
      <4>1. Top.epoch = boot /\ Top.data <= count
        BY SMTT(30) DEF Top, Ticket, CurInv, TypeOK, Answer
      <4>2. h.epoch < Top.epoch \/ (h.epoch = Top.epoch /\ h.data < Top.data)
        BY <3>2, Zenon DEF Before
      <4>3. h.data \in Nat /\ count \in Nat /\ Top.data \in Nat
        BY <3>1, SMTT(30) DEF Top, Ticket, CurInv, TypeOK, Answer
      <4> QED
        BY <4>1, <4>2, <4>3, SMTT(30)
    <3>4. /\ last' = [last EXCEPT ![c] = h]
          /\ delivered' = delivered \cup {Ticket(h)}
          /\ UNCHANGED <<boot, count>>
      BY <2>5, <3>1, SMTT(30) DEF Receive, Printed, NextRound, server
    <3>5. T!Deliver(c, Ticket(h))
      <4>1. T!Before(Ticket(h), [epoch |-> boot, data |-> count])
        BY <3>3, SMTT(30) DEF T!Before, Ticket
      <4>2. T!Before(Ticket(last[c]), Ticket(h))
        BY <3>2, SMTT(30) DEF T!Before, Before, Ticket
      <4>3. [d \in Client |-> Ticket(last'[d])]
              = [[d \in Client |-> Ticket(last[d])] EXCEPT ![c] = Ticket(h)]
        BY <3>4, Zenon DEF Ticket, TypeOK
      <4> QED
        BY <3>2, <3>4, <4>1, <4>2, <4>3, Zenon DEF T!Deliver, Ticket
    <3>6. Ticket(h) \in delivered'
      BY <3>4, SMTT(30)
    <3> QED
      BY <3>5, <3>6, SMTT(30) DEF T!Next
  <2>6. ASSUME NEW c \in Client, SendRequest(c) \/ Timeout(c) \/ Kill(c)
        PROVE  UNCHANGED <<boot, count, last, delivered>>
    BY <2>6 DEF SendRequest, Timeout, Kill, NextRound, server
  <2>7. CASE UNCHANGED vars
    BY <2>1, <2>7 DEF vars
  <2> QED
    BY <2>1, <2>2, <2>3, <2>4, <2>5, <2>6, <2>7, SMTT(30) DEF Next
<1> QED
  BY <1>1, <1>2, Invariance, PTL DEF Spec, ImplementsTickets, T!Spec

=============================================================================
