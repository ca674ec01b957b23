----------------------------- MODULE TailQueue ------------------------------
(***************************************************************************)
(* network/server/queue.h: the tail queue macros, pointer by pointer.  An  *)
(* element has tqe_next, the next element, and tqe_prev, the address of    *)
(* the pointer that points to it: the tqe_next of the element before, or   *)
(* tqh_first of the head.  The head's tqh_last is the address of the last  *)
(* tqe_next.  TAILQ_LAST and TAILQ_PREV use that head and entry have the   *)
(* same layout, and so does this model: one pair of functions holds the    *)
(* pointers of the elements and of HEAD, and an address is the element (or *)
(* HEAD) whose forward pointer is there.                                   *)
(***************************************************************************)
EXTENDS Integers, Sequences

CONSTANTS Node,  \* the elements
          HEAD,  \* the head of the queue
          NULL

ASSUME NodeAssumption == HEAD \notin Node /\ NULL \notin Node \cup {HEAD}

VARIABLES
    next,  \* tqe_next of the elements, and tqh_first: next[HEAD]
    prev,  \* tqe_prev of the elements, and tqh_last: prev[HEAD]
    q      \* history: the sequence the queue stands for

vars == <<next, prev, q>>

Members == {q[i] : i \in 1 .. Len(q)}

\* TAILQ_INIT; the pointers of elements outside the queue are arbitrary and
\* never read.
Init ==
    /\ next = [x \in Node \cup {HEAD} |-> NULL]
    /\ prev = [x \in Node \cup {HEAD} |-> HEAD]
    /\ q = <<>>

\* Where the back pointer of the element after x is kept.
Succ(x) == IF next[x] = NULL THEN HEAD ELSE next[x]

\* What the operations do to the sequence.
Inserted(p, e) == [i \in 1 .. Len(q) + 1 |-> IF i <= p THEN q[i]
                                             ELSE IF i = p + 1 THEN e ELSE q[i - 1]]
Removed(p) == [i \in 1 .. Len(q) - 1 |-> IF i < p THEN q[i] ELSE q[i + 1]]

-----------------------------------------------------------------------------
\* TAILQ_INSERT_HEAD(head, e)
InsertHead(e) ==
    /\ e \in Node \ Members
    /\ next' = [next EXCEPT ![e] = next[HEAD], ![HEAD] = e]
    /\ prev' = [prev EXCEPT ![Succ(HEAD)] = e, ![e] = HEAD]
    /\ q' = Inserted(0, e)

\* TAILQ_INSERT_TAIL(head, e)
InsertTail(e) ==
    /\ e \in Node \ Members
    /\ next' = [next EXCEPT ![e] = NULL, ![prev[HEAD]] = e]
    /\ prev' = [prev EXCEPT ![e] = prev[HEAD], ![HEAD] = e]
    /\ q' = Inserted(Len(q), e)

\* A variant that forgets that the element may go to the end.
InsertAfterInner(p, e) ==
    /\ e \in Node \ Members
    /\ next' = [next EXCEPT ![e] = next[q[p]], ![q[p]] = e]
    /\ prev' = IF next[q[p]] = NULL THEN [prev EXCEPT ![e] = q[p]]
               ELSE [prev EXCEPT ![next[q[p]]] = e, ![e] = q[p]]
    /\ q' = Inserted(p, e)

\* TAILQ_INSERT_AFTER(head, q[p], e)
InsertAfter(p, e) ==
    /\ e \in Node \ Members
    /\ next' = [next EXCEPT ![e] = next[q[p]], ![q[p]] = e]
    /\ prev' = [prev EXCEPT ![Succ(q[p])] = e, ![e] = q[p]]
    /\ q' = Inserted(p, e)

\* TAILQ_INSERT_BEFORE(q[p], e)
InsertBefore(p, e) ==
    /\ e \in Node \ Members
    /\ next' = [next EXCEPT ![e] = q[p], ![prev[q[p]]] = e]
    /\ prev' = [prev EXCEPT ![e] = prev[q[p]], ![q[p]] = e]
    /\ q' = Inserted(p - 1, e)

\* A variant that forgets tqh_last when the last element goes.
RemoveInner(p) ==
    /\ prev' = IF next[q[p]] = NULL THEN prev
               ELSE [prev EXCEPT ![next[q[p]]] = prev[q[p]]]
    /\ next' = [next EXCEPT ![prev[q[p]]] = next[q[p]]]
    /\ q' = Removed(p)

\* A variant that copies the wrong pointer back.
RemoveCopiesNext(p) ==
    /\ prev' = [prev EXCEPT ![Succ(q[p])] = next[q[p]]]
    /\ next' = [next EXCEPT ![prev[q[p]]] = next[q[p]]]
    /\ q' = Removed(p)

\* TAILQ_REMOVE(head, q[p]); without QUEUE_MACRO_DEBUG the removed element
\* keeps its pointers.
Remove(p) ==
    /\ prev' = [prev EXCEPT ![Succ(q[p])] = prev[q[p]]]
    /\ next' = [next EXCEPT ![prev[q[p]]] = next[q[p]]]
    /\ q' = Removed(p)

\* TAILQ_REPLACE(head, q[p], e)
Replace(p, e) ==
    /\ e \in Node \ Members
    /\ next' = [next EXCEPT ![e] = next[q[p]], ![prev[q[p]]] = e]
    /\ prev' = [prev EXCEPT ![Succ(q[p])] = e, ![e] = prev[q[p]]]
    /\ q' = [q EXCEPT ![p] = e]

Next ==
    \/ \E e \in Node : InsertHead(e) \/ InsertTail(e)
    \/ \E p \in 1 .. Len(q) :
          \/ Remove(p)
          \/ \E e \in Node : InsertAfter(p, e) \/ InsertBefore(p, e) \/ Replace(p, e)

Spec == Init /\ [][Next]_vars

-----------------------------------------------------------------------------
\* The types of the variables; the queue holds no element twice.
TypeOK ==
    /\ next \in [Node \cup {HEAD} -> Node \cup {NULL}]
    /\ prev \in [Node \cup {HEAD} -> Node \cup {HEAD}]
    /\ q \in Seq(Node)
    /\ \A i, j \in 1 .. Len(q) : q[i] = q[j] => i = j

\* The owner of the i-th forward pointer of a queue that stands for s, the
\* head's being number 0 and the head coming again after the last element.
At(s, i) == IF i \in 1 .. Len(s) THEN s[i] ELSE HEAD

\* The pointers represent the sequence: following tqe_next from tqh_first,
\* as TAILQ_FOREACH does, visits its elements in order and ends, and every
\* back pointer, tqh_last included, is the address of the pointer before.
Linked ==
    \A i \in 0 .. Len(q) :
        /\ next[At(q, i)] = IF i = Len(q) THEN NULL ELSE At(q, i + 1)
        /\ prev[At(q, i + 1)] = At(q, i)

\* TAILQ_PREV of every element, and TAILQ_LAST of the head, is the element
\* before, or NULL: the queue can be traversed backward, as queue.h says.
BackwardWorks ==
    \A i \in 1 .. Len(q) + 1 :
        next[prev[prev[At(q, i)]]] = IF i = 1 THEN NULL ELSE q[i - 1]

=============================================================================
