-------------------------- MODULE TailQueueProofs ---------------------------
(***************************************************************************)
(* The tail queue represents its sequence after any calls of the macros,   *)
(* for any number of elements.  Linked is inductive with TypeOK.  The four *)
(* insertions all put an element between two neighbours, and one lemma     *)
(* covers them; removing and replacing have a lemma each.                  *)
(***************************************************************************)
EXTENDS TailQueue, TLAPS

IInv == TypeOK /\ Linked

\* The owners of forward pointers are distinct, and so are the owners of
\* back pointers.
LEMMA AtFacts ==
    ASSUME TypeOK
    PROVE  /\ Len(q) \in Nat
           /\ \A i \in 0 .. Len(q) + 1 : At(q, i) \in Members \cup {HEAD}
           /\ \A i \in 0 .. Len(q) + 1 : At(q, i) \in Node \cup {HEAD}
           /\ \A i, j \in 0 .. Len(q) : At(q, i) = At(q, j) => i = j
           /\ \A i, j \in 1 .. Len(q) + 1 : At(q, i) = At(q, j) => i = j
           /\ \A i \in 1 .. Len(q) : At(q, i) = q[i]
<1>1. Len(q) \in Nat
  BY DEF TypeOK
<1>2. \A i \in 0 .. Len(q) + 1 : At(q, i) \in Members \cup {HEAD}
  BY <1>1 DEF At, Members
<1>3. \A i \in 0 .. Len(q) + 1 : At(q, i) \in Node \cup {HEAD}
  BY <1>1 DEF At, TypeOK
<1>4. \A i, j \in 0 .. Len(q) : At(q, i) = At(q, j) => i = j
  BY <1>1, NodeAssumption DEF At, TypeOK
<1>5. \A i, j \in 1 .. Len(q) + 1 : At(q, i) = At(q, j) => i = j
  BY <1>1, NodeAssumption DEF At, TypeOK
<1>6. \A i \in 1 .. Len(q) : At(q, i) = q[i]
  BY DEF At
<1> QED BY <1>1, <1>2, <1>3, <1>4, <1>5, <1>6

\* What the chain says of the neighbours of position p.
LEMMA Neighbours ==
    ASSUME IInv, NEW p \in 0 .. Len(q)
    PROVE  /\ Succ(At(q, p)) = At(q, p + 1)
           /\ prev[At(q, p + 1)] = At(q, p)
           /\ next[At(q, p)] = IF p = Len(q) THEN NULL ELSE At(q, p + 1)
<1>1. /\ prev[At(q, p + 1)] = At(q, p)
      /\ next[At(q, p)] = IF p = Len(q) THEN NULL ELSE At(q, p + 1)
  BY DEF IInv, Linked
<1>2. /\ p = Len(q) => At(q, p + 1) = HEAD
      /\ At(q, p + 1) # NULL
  BY NodeAssumption DEF At, IInv, TypeOK
<1> QED BY <1>1, <1>2 DEF Succ


\* nx and pv are the pointers of the sequence s, of length n.
Chain(n, s, nx, pv) ==
    \A k \in 0 .. n :
        /\ nx[At(s, k)] = IF k = n THEN NULL ELSE At(s, k + 1)
        /\ pv[At(s, k + 1)] = At(s, k)

\* The owners of the pointers of s are in Node and HEAD and distinct.
Apart(n, s) ==
    /\ \A i \in 0 .. n + 1 : At(s, i) \in Node \cup {HEAD}
    /\ \A i, j \in 0 .. n : At(s, i) = At(s, j) => i = j
    /\ \A i, j \in 1 .. n + 1 : At(s, i) = At(s, j) => i = j

\* t is s with e after position p, and nx2 and pv2 the pointers nx and pv
\* with e linked in there.
InsertedAt(n, p, e, s, t, nx, pv, nx2, pv2) ==
    /\ \A i \in 0 .. n + 1 : At(s, i) # e
    /\ \A i \in 0 .. n + 2 :
          At(t, i) = IF i <= p THEN At(s, i) ELSE IF i = p + 1 THEN e ELSE At(s, i - 1)
    /\ \A x \in Node \cup {HEAD} :
          nx2[x] = IF x = At(s, p) THEN e ELSE IF x = e THEN nx[At(s, p)] ELSE nx[x]
    /\ \A x \in Node \cup {HEAD} :
          pv2[x] = IF x = e THEN At(s, p) ELSE IF x = At(s, p + 1) THEN e ELSE pv[x]

\* Linking an element in keeps the chain.
LEMMA InsertChain ==
    ASSUME NEW n \in Nat, NEW p \in 0 .. n, NEW s, NEW t, NEW e \in Node,
           NEW nx, NEW pv, NEW nx2, NEW pv2,
           Chain(n, s, nx, pv), Apart(n, s),
           InsertedAt(n, p, e, s, t, nx, pv, nx2, pv2)
    PROVE  Chain(n + 1, t, nx2, pv2)
<1> USE DEF Apart, InsertedAt, Chain
<1> SUFFICES ASSUME NEW k \in 0 .. n + 1
             PROVE  /\ nx2[At(t, k)] = IF k = n + 1 THEN NULL ELSE At(t, k + 1)
                    /\ pv2[At(t, k + 1)] = At(t, k)
  OBVIOUS
<1>1. CASE k < p
  <2>1. k \in 0 .. n /\ k + 1 \in 1 .. n + 1 /\ p + 1 \in 1 .. n + 1 /\ k + 1 <= p
    BY <1>1
  <2>2. At(t, k) = At(s, k) /\ At(t, k + 1) = At(s, k + 1)
    BY <2>1
  <2>3. At(s, k) # At(s, p) /\ At(s, k + 1) # At(s, p + 1)
    BY <2>1
  <2> QED BY <1>1, <2>1, <2>2, <2>3
<1>2. CASE k = p
  <2>1. At(t, k) = At(s, p) /\ At(t, k + 1) = e
    BY <1>2
  <2> QED BY <1>2, <2>1
<1>3. CASE k = p + 1
  <2>1. At(t, k) = e /\ At(t, k + 1) = At(s, p + 1)
    BY <1>3
  <2> QED BY <1>3, <2>1
<1>4. CASE k > p + 1
  <2> DEFINE j == k - 1
  <2>1. j \in 0 .. n /\ j > p /\ j + 1 = k
    BY <1>4
  <2>2. At(t, k) = At(s, j) /\ At(t, k + 1) = At(s, j + 1)
    BY <1>4
  <2>3. At(s, j) # At(s, p) /\ At(s, j + 1) # At(s, p + 1)
    BY <2>1
  <2>4. /\ nx[At(s, j)] = IF j = n THEN NULL ELSE At(s, j + 1)
        /\ pv[At(s, j + 1)] = At(s, j)
    BY <2>1
  <2> QED BY <1>4, <2>1, <2>2, <2>3, <2>4
<1> QED BY <1>1, <1>2, <1>3, <1>4

\* An element put between positions p and p + 1 keeps the queue linked.
LEMMA InsertStep ==
    ASSUME IInv, NEW p \in 0 .. Len(q), NEW e \in Node \ Members,
           next' = [next EXCEPT ![e] = next[At(q, p)], ![At(q, p)] = e],
           prev' = [prev EXCEPT ![At(q, p + 1)] = e, ![e] = At(q, p)],
           q' = Inserted(p, e)
    PROVE  IInv'
<1> DEFINE n == Len(q)
<1>0. /\ n \in Nat /\ p \in 0 .. n
      /\ \A i \in 0 .. n + 1 : At(q, i) \in Node \cup {HEAD} /\ At(q, i) # e
      /\ \A i, j \in 0 .. n : At(q, i) = At(q, j) => i = j
      /\ \A i, j \in 1 .. n + 1 : At(q, i) = At(q, j) => i = j
  BY AtFacts, NodeAssumption DEF IInv
<1>1. /\ q' \in Seq(Node) /\ Len(q') = n + 1
      /\ \A i \in 1 .. n + 1 :
            q'[i] = IF i <= p THEN q[i] ELSE IF i = p + 1 THEN e ELSE q[i - 1]
  BY <1>0 DEF Inserted, IInv, TypeOK
<1>2. \A i \in 0 .. n + 2 :
         At(q', i) = IF i <= p THEN At(q, i) ELSE IF i = p + 1 THEN e ELSE At(q, i - 1)
  BY <1>0, <1>1, SMTT(30) DEF At
<1>3. \A i, j \in 1 .. Len(q') : q'[i] = q'[j] => i = j
  <2>1. \A i \in 1 .. n : q[i] # e
    BY DEF Members
  <2>2. \A i, j \in 1 .. n : q[i] = q[j] => i = j
    BY DEF IInv, TypeOK
  <2> SUFFICES ASSUME NEW i \in 1 .. n + 1, NEW j \in 1 .. n + 1, q'[i] = q'[j], i < j
               PROVE  FALSE
    BY <1>0, <1>1
  <2>3. CASE j <= p
    BY <2>2, <2>3, <1>0, <1>1
  <2>4. CASE j = p + 1
    BY <2>1, <2>4, <1>0, <1>1
  <2>5. CASE j > p + 1 /\ i <= p
    <3>1. q'[i] = q[i] /\ q'[j] = q[j - 1] /\ i \in 1 .. n /\ j - 1 \in 1 .. n
      BY <2>5, <1>0, <1>1
    <3>2. q[i] = q[j - 1]
      BY <3>1, Zenon
    <3>3. i = j - 1
      BY <3>1, <3>2, <2>2
    <3> QED BY <3>3, <2>5, <1>0
  <2>6. CASE i = p + 1
    BY <2>1, <2>6, <1>0, <1>1, SMTT(30)
  <2>7. CASE i > p + 1
    <3>1. q'[i] = q[i - 1] /\ q'[j] = q[j - 1] /\ i - 1 \in 1 .. n /\ j - 1 \in 1 .. n
      BY <2>7, <1>0, <1>1
    <3>2. q[i - 1] = q[j - 1]
      BY <3>1, Zenon
    <3>3. i - 1 = j - 1
      BY <3>1, <3>2, <2>2
    <3> QED BY <3>3, <1>0
  <2> QED BY <2>3, <2>4, <2>5, <2>6, <2>7, <1>0
<1>4. TypeOK'
  <2>1. next' \in [Node \cup {HEAD} -> Node \cup {NULL}]
    BY <1>0 DEF IInv, TypeOK
  <2>2. prev' \in [Node \cup {HEAD} -> Node \cup {HEAD}]
    BY <1>0 DEF IInv, TypeOK
  <2> QED BY <1>1, <1>3, <2>1, <2>2 DEF TypeOK
<1>5. \A x \in Node \cup {HEAD} :
         next'[x] = IF x = At(q, p) THEN e ELSE IF x = e THEN next[At(q, p)] ELSE next[x]
  BY <1>0 DEF IInv, TypeOK
<1>6. \A x \in Node \cup {HEAD} :
         prev'[x] = IF x = e THEN At(q, p) ELSE IF x = At(q, p + 1) THEN e ELSE prev[x]
  BY <1>0 DEF IInv, TypeOK
<1>7. Chain(n, q, next, prev)
  BY DEF IInv, Linked, Chain
<1>8. Apart(n, q) /\ InsertedAt(n, p, e, q, q', next, prev, next', prev')
  BY <1>0, <1>2, <1>5, <1>6, Zenon DEF Apart, InsertedAt
<1>9. Chain(n + 1, q', next', prev')
  BY <1>0, <1>7, <1>8, InsertChain
<1> QED BY <1>1, <1>4, <1>9, Zenon DEF IInv, Linked, Chain

\* t is s without position p, and nx2 and pv2 the pointers nx and pv with
\* that element bypassed.
RemovedAt(n, p, s, t, nx, pv, nx2, pv2) ==
    /\ \A i \in 0 .. n : At(t, i) = IF i < p THEN At(s, i) ELSE At(s, i + 1)
    /\ \A x \in Node \cup {HEAD} :
          nx2[x] = IF x = At(s, p - 1) THEN nx[At(s, p)] ELSE nx[x]
    /\ \A x \in Node \cup {HEAD} :
          pv2[x] = IF x = At(s, p + 1) THEN At(s, p - 1) ELSE pv[x]

\* Bypassing an element keeps the chain.
LEMMA RemoveChain ==
    ASSUME NEW n \in Nat, NEW p \in 1 .. n, NEW s, NEW t,
           NEW nx, NEW pv, NEW nx2, NEW pv2,
           Chain(n, s, nx, pv), Apart(n, s), RemovedAt(n, p, s, t, nx, pv, nx2, pv2)
    PROVE  Chain(n - 1, t, nx2, pv2)
<1> USE DEF Apart, RemovedAt, Chain
<1> SUFFICES ASSUME NEW k \in 0 .. n - 1
             PROVE  /\ nx2[At(t, k)] = IF k = n - 1 THEN NULL ELSE At(t, k + 1)
                    /\ pv2[At(t, k + 1)] = At(t, k)
  OBVIOUS
<1>1. CASE k + 1 < p
  <2>1. At(t, k) = At(s, k) /\ At(t, k + 1) = At(s, k + 1)
    BY <1>1
  <2>2. At(s, k) # At(s, p - 1) /\ At(s, k + 1) # At(s, p + 1)
    BY <1>1
  <2> QED BY <1>1, <2>1, <2>2
<1>2. CASE k + 1 = p
  <2>1. At(t, k) = At(s, p - 1) /\ At(t, k + 1) = At(s, p + 1)
    BY <1>2
  <2>2. nx[At(s, p)] = IF p = n THEN NULL ELSE At(s, p + 1)
    OBVIOUS
  <2> QED BY <1>2, <2>1, <2>2
<1>3. CASE k + 1 > p
  <2> DEFINE j == k + 1
  <2>1. j \in 1 .. n /\ j \in 0 .. n /\ j >= p /\ k = j - 1
    BY <1>3
  <2>2. At(t, k) = At(s, j) /\ At(t, k + 1) = At(s, j + 1)
    BY <1>3
  <2>3. At(s, j) # At(s, p - 1) /\ At(s, j + 1) # At(s, p + 1)
    BY <1>3, <2>1
  <2>4. /\ nx[At(s, j)] = IF j = n THEN NULL ELSE At(s, j + 1)
        /\ pv[At(s, j + 1)] = At(s, j)
    BY <2>1
  <2> QED BY <1>3, <2>1, <2>2, <2>3, <2>4
<1> QED BY <1>1, <1>2, <1>3

\* TAILQ_REMOVE keeps the queue linked.
LEMMA RemoveStep ==
    ASSUME IInv, NEW p \in 1 .. Len(q), Remove(p)
    PROVE  IInv'
<1> DEFINE n == Len(q)
<1>0. /\ n \in Nat /\ p \in 1 .. n
      /\ Apart(n, q)
      /\ At(q, p) = q[p] /\ q[p] \in Node
      /\ At(q, p - 1) \in Node \cup {HEAD}
  BY AtFacts DEF IInv, TypeOK, Apart
<1>1. /\ q' \in Seq(Node) /\ Len(q') = n - 1
      /\ \A i \in 1 .. n - 1 : q'[i] = IF i < p THEN q[i] ELSE q[i + 1]
  BY <1>0 DEF Remove, Removed, IInv, TypeOK
<1>2. \A i \in 0 .. n : At(q', i) = IF i < p THEN At(q, i) ELSE At(q, i + 1)
  BY <1>0, <1>1 DEF At
<1>3. prev[q[p]] = At(q, p - 1) /\ Succ(q[p]) = At(q, p + 1)
  <2>1. p \in 0 .. n /\ p - 1 \in 0 .. n /\ (p - 1) + 1 = p
    BY <1>0
  <2> QED BY <2>1, <1>0, Neighbours
<1>4. TypeOK'
  <2>1. next' \in [Node \cup {HEAD} -> Node \cup {NULL}]
    BY <1>0 DEF IInv, TypeOK, Remove
  <2>2. prev' \in [Node \cup {HEAD} -> Node \cup {HEAD}]
    BY <1>0, Zenon DEF IInv, TypeOK, Remove
  <2>3. \A i, j \in 1 .. Len(q') : q'[i] = q'[j] => i = j
    <3> SUFFICES ASSUME NEW i \in 1 .. n - 1, NEW j \in 1 .. n - 1, q'[i] = q'[j]
                 PROVE  i = j
      BY <1>1, Zenon
    <3> DEFINE a == IF i < p THEN i ELSE i + 1
               b == IF j < p THEN j ELSE j + 1
    <3>1. a \in 1 .. n /\ b \in 1 .. n /\ q[a] = q'[i] /\ q[b] = q'[j]
      BY <1>0, <1>1
    <3>2. a = b
      BY <3>1 DEF IInv, TypeOK
    <3> QED BY <3>2, <1>0
  <2> QED BY <1>1, <2>1, <2>2, <2>3 DEF TypeOK
<1>5. RemovedAt(n, p, q, q', next, prev, next', prev')
  BY <1>0, <1>2, <1>3 DEF RemovedAt, Remove, IInv, TypeOK
<1>6. Chain(n, q, next, prev)
  BY DEF IInv, Linked, Chain
<1>7. Chain(n - 1, q', next', prev')
  BY <1>0, <1>5, <1>6, RemoveChain
<1> QED BY <1>1, <1>4, <1>7 DEF IInv, Linked, Chain

\* t is s with e at position p, and nx2 and pv2 the pointers nx and pv with
\* e linked in where the old element was.
ReplacedAt(n, p, e, s, t, nx, pv, nx2, pv2) ==
    /\ \A i \in 0 .. n + 1 : At(s, i) # e
    /\ \A i \in 0 .. n + 1 : At(t, i) = IF i = p THEN e ELSE At(s, i)
    /\ \A x \in Node \cup {HEAD} :
          nx2[x] = IF x = At(s, p - 1) THEN e ELSE IF x = e THEN nx[At(s, p)] ELSE nx[x]
    /\ \A x \in Node \cup {HEAD} :
          pv2[x] = IF x = e THEN At(s, p - 1) ELSE IF x = At(s, p + 1) THEN e ELSE pv[x]

\* Putting one element in the place of another keeps the chain.
LEMMA ReplaceChain ==
    ASSUME NEW n \in Nat, NEW p \in 1 .. n, NEW s, NEW t, NEW e \in Node,
           NEW nx, NEW pv, NEW nx2, NEW pv2,
           Chain(n, s, nx, pv), Apart(n, s),
           ReplacedAt(n, p, e, s, t, nx, pv, nx2, pv2)
    PROVE  Chain(n, t, nx2, pv2)
<1> USE DEF Apart, ReplacedAt, Chain
<1> SUFFICES ASSUME NEW k \in 0 .. n
             PROVE  /\ nx2[At(t, k)] = IF k = n THEN NULL ELSE At(t, k + 1)
                    /\ pv2[At(t, k + 1)] = At(t, k)
  OBVIOUS
<1>1. CASE k = p
  <2>1. At(t, k) = e /\ At(t, k + 1) = At(s, p + 1)
    BY <1>1
  <2>2. nx[At(s, p)] = IF p = n THEN NULL ELSE At(s, p + 1)
    OBVIOUS
  <2>3. At(s, p - 1) # e /\ At(s, p + 1) # e /\ At(s, p + 1) \in Node \cup {HEAD}
    OBVIOUS
  <2> QED BY <1>1, <2>1, <2>2, <2>3
<1>2. CASE k + 1 = p
  <2>1. At(t, k) = At(s, p - 1) /\ At(t, k + 1) = e
    BY <1>2
  <2>2. At(s, p - 1) # e /\ At(s, p - 1) \in Node \cup {HEAD}
    OBVIOUS
  <2> QED BY <1>2, <2>1, <2>2
<1>3. CASE k # p /\ k + 1 # p
  <2>1. At(t, k) = At(s, k) /\ At(t, k + 1) = At(s, k + 1)
    BY <1>3
  <2>2. At(s, k) # At(s, p - 1) /\ At(s, k + 1) # At(s, p + 1)
    BY <1>3
  <2>3. /\ At(s, k) # e /\ At(s, k + 1) # e
        /\ At(s, k) \in Node \cup {HEAD} /\ At(s, k + 1) \in Node \cup {HEAD}
    OBVIOUS
  <2> QED BY <1>3, <2>1, <2>2, <2>3
<1> QED BY <1>1, <1>2, <1>3

\* TAILQ_REPLACE keeps the queue linked.
LEMMA ReplaceStep ==
    ASSUME IInv, NEW p \in 1 .. Len(q), NEW e \in Node, Replace(p, e)
    PROVE  IInv'
<1> DEFINE n == Len(q)
<1>0. /\ n \in Nat /\ p \in 1 .. n
      /\ Apart(n, q)
      /\ \A i \in 0 .. n + 1 : At(q, i) # e
      /\ At(q, p) = q[p] /\ q[p] \in Node
      /\ At(q, p - 1) \in Node \cup {HEAD}
  BY AtFacts, NodeAssumption DEF IInv, TypeOK, Apart, Replace
<1>1. /\ q' \in Seq(Node) /\ Len(q') = n
      /\ \A i \in 1 .. n : q'[i] = IF i = p THEN e ELSE q[i]
  BY <1>0 DEF Replace, IInv, TypeOK
<1>2. \A i \in 0 .. n + 1 : At(q', i) = IF i = p THEN e ELSE At(q, i)
  BY <1>0, <1>1 DEF At
<1>3. prev[q[p]] = At(q, p - 1) /\ Succ(q[p]) = At(q, p + 1)
  <2>1. p \in 0 .. n /\ p - 1 \in 0 .. n /\ (p - 1) + 1 = p
    BY <1>0
  <2> QED BY <2>1, <1>0, Neighbours
<1>4. TypeOK'
  <2>1. next' \in [Node \cup {HEAD} -> Node \cup {NULL}]
    BY <1>0, Zenon DEF IInv, TypeOK, Replace
  <2>2. prev' \in [Node \cup {HEAD} -> Node \cup {HEAD}]
    BY <1>0 DEF IInv, TypeOK, Replace
  <2>3. \A i, j \in 1 .. Len(q') : q'[i] = q'[j] => i = j
    BY <1>0, <1>1 DEF Replace, Members, IInv, TypeOK
  <2> QED BY <1>1, <2>1, <2>2, <2>3 DEF TypeOK
<1>5. ReplacedAt(n, p, e, q, q', next, prev, next', prev')
  BY <1>0, <1>2, <1>3, Zenon DEF ReplacedAt, Replace, IInv, TypeOK
<1>6. Chain(n, q, next, prev)
  BY DEF IInv, Linked, Chain
<1>7. Chain(n, q', next', prev')
  BY <1>0, <1>5, <1>6, ReplaceChain
<1> QED BY <1>1, <1>4, <1>7 DEF IInv, Linked, Chain

\* The inductive invariant holds in every reachable state: no sequence of
\* insertions, removals and replacements breaks the queue.
THEOREM Invariance == Spec => []IInv
<1>1. Init => IInv
  BY NodeAssumption DEF Init, IInv, TypeOK, Linked, At
<1>2. IInv /\ [Next]_vars => IInv'
  <2> SUFFICES ASSUME IInv, [Next]_vars PROVE IInv'
    OBVIOUS
  <2>0. /\ Len(q) \in Nat
        /\ At(q, 0) = HEAD /\ At(q, Len(q) + 1) = HEAD
        /\ \A i \in 1 .. Len(q) : At(q, i) = q[i]
    BY DEF At, IInv, TypeOK
  <2>1. ASSUME NEW e \in Node, InsertHead(e) PROVE IInv'
    <3>1. Succ(HEAD) = At(q, 0 + 1)
      BY <2>0, Neighbours
    <3>2. next' = [next EXCEPT ![e] = next[At(q, 0)], ![At(q, 0)] = e]
      BY <2>0, <2>1, Zenon DEF InsertHead
    <3>3. prev' = [prev EXCEPT ![At(q, 0 + 1)] = e, ![e] = At(q, 0)]
      BY <2>0, <2>1, <3>1, Zenon DEF InsertHead
    <3>4. 0 \in 0 .. Len(q) /\ e \in Node \ Members /\ q' = Inserted(0, e)
      BY <2>0, <2>1 DEF InsertHead
    <3> QED BY <3>2, <3>3, <3>4, InsertStep, Zenon
  <2>2. ASSUME NEW e \in Node, InsertTail(e) PROVE IInv'
    <3>1. prev[HEAD] = At(q, Len(q)) /\ next[At(q, Len(q))] = NULL
      BY <2>0, Neighbours
    <3>2. prev' = [prev EXCEPT ![At(q, Len(q) + 1)] = e, ![e] = At(q, Len(q))]
      BY <2>0, <2>2, <3>1, NodeAssumption, ZenonT(60) DEF InsertTail, IInv, TypeOK
    <3>3. next' = [next EXCEPT ![e] = next[At(q, Len(q))], ![At(q, Len(q))] = e]
      BY <2>2, <3>1 DEF InsertTail
    <3>4. /\ Len(q) \in 0 .. Len(q) /\ e \in Node \ Members
          /\ q' = Inserted(Len(q), e)
      BY <2>0, <2>2 DEF InsertTail
    <3>5. PICK p \in 0 .. Len(q) : p = Len(q)
      BY <3>4
    <3> QED BY <3>2, <3>3, <3>4, <3>5, InsertStep, Zenon
  <2>3. ASSUME NEW p \in 1 .. Len(q), NEW e \in Node, InsertAfter(p, e) PROVE IInv'
    <3>1. Succ(q[p]) = At(q, p + 1)
      BY <2>0, Neighbours
    <3>2. next' = [next EXCEPT ![e] = next[At(q, p)], ![At(q, p)] = e]
      BY <2>0, <2>3, Zenon DEF InsertAfter
    <3>3. prev' = [prev EXCEPT ![At(q, p + 1)] = e, ![e] = At(q, p)]
      BY <2>0, <2>3, <3>1, Zenon DEF InsertAfter
    <3>4. p \in 0 .. Len(q) /\ e \in Node \ Members /\ q' = Inserted(p, e)
      BY <2>0, <2>3 DEF InsertAfter
    <3> QED BY <3>2, <3>3, <3>4, InsertStep, Zenon
  <2>4. ASSUME NEW p \in 1 .. Len(q), NEW e \in Node, InsertBefore(p, e) PROVE IInv'
    <3> DEFINE r == p - 1
    <3>0. r \in 0 .. Len(q) /\ r + 1 = p
      BY <2>0
    <3>1. prev[q[p]] = At(q, r) /\ next[At(q, r)] = q[p] /\ At(q, r + 1) = q[p]
      BY <2>0, <3>0, Neighbours
    <3>2. prev' = [prev EXCEPT ![At(q, r + 1)] = e, ![e] = At(q, r)]
      BY <2>4, <3>1, ZenonT(60) DEF InsertBefore, Members, IInv, TypeOK
    <3>3. next' = [next EXCEPT ![e] = next[At(q, r)], ![At(q, r)] = e]
      BY <2>4, <3>1 DEF InsertBefore
    <3> HIDE DEF r
    <3> QED BY <2>4, <3>0, <3>2, <3>3, InsertStep, Zenon DEF InsertBefore, r
  <2>5. ASSUME NEW p \in 1 .. Len(q), Remove(p) PROVE IInv'
    BY <2>5, RemoveStep
  <2>6. ASSUME NEW p \in 1 .. Len(q), NEW e \in Node, Replace(p, e) PROVE IInv'
    BY <2>6, ReplaceStep
  <2>7. CASE UNCHANGED vars
    BY <2>7 DEF vars, IInv, TypeOK, Linked
  <2> QED BY <2>1, <2>2, <2>3, <2>4, <2>5, <2>6, <2>7 DEF Next
<1> QED BY <1>1, <1>2, PTL DEF Spec

\* The pointers always represent the sequence: a forward traversal visits
\* the elements inserted and not removed, in order, each once.
THEOREM AlwaysLinked == Spec => []Linked
BY Invariance, PTL DEF IInv

\* TAILQ_PREV and TAILQ_LAST, which read an element as if it were a head,
\* always give the element before.
THEOREM TraversesBackward == Spec => []BackwardWorks
<1>1. IInv => BackwardWorks
  <2> SUFFICES ASSUME IInv, NEW i \in 1 .. Len(q) + 1
               PROVE  next[prev[prev[At(q, i)]]] = IF i = 1 THEN NULL ELSE q[i - 1]
    BY DEF BackwardWorks
  <2>0. /\ Len(q) \in Nat
        /\ At(q, 0) = HEAD /\ At(q, Len(q) + 1) = HEAD
        /\ \A k \in 1 .. Len(q) : At(q, k) = q[k]
    BY DEF At, IInv, TypeOK
  <2>1. CASE i = 1
    <3>1. prev[At(q, 1)] = HEAD
      BY <2>0, Neighbours
    <3>2. prev[HEAD] = At(q, Len(q)) /\ next[At(q, Len(q))] = NULL
      BY <2>0, Neighbours
    <3> QED BY <2>1, <3>1, <3>2
  <2>2. CASE i > 1
    <3> DEFINE j == i - 1
               k == i - 2
    <3>1. /\ j \in 0 .. Len(q) /\ j + 1 = i
          /\ k \in 0 .. Len(q) /\ k + 1 = j /\ k # Len(q) /\ j \in 1 .. Len(q)
      BY <2>0, <2>2
    <3> HIDE DEF j, k
    <3>2. prev[At(q, j + 1)] = At(q, j)
      BY <3>1, Neighbours
    <3>3. prev[At(q, k + 1)] = At(q, k) /\ next[At(q, k)] = At(q, k + 1)
      BY <3>1, Neighbours
    <3>4. next[prev[prev[At(q, i)]]] = q[j]
      BY <2>0, <3>1, <3>2, <3>3
    <3> QED BY <2>0, <2>2, <3>4 DEF j
  <2> QED BY <2>0, <2>1, <2>2
<1> QED BY <1>1, Invariance, PTL
=============================================================================
