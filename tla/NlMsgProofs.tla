---------------------------- MODULE NlMsgProofs -----------------------------
(***************************************************************************)
(* For every set of sizes: a netlink message built with the calls of nl.c  *)
(* stays inside its buffer, aligned, its attributes properly nested, and   *)
(* without holes.                                                          *)
(***************************************************************************)
EXTENDS NlMsg, SequenceTheorems, TLAPS

\* An attribute that is begun and not ended still has its empty length, and
\* lies after the end of every earlier row; the innermost is the latest.
OpenInv ==
    /\ \A d \in 1 .. Len(nested) :
          /\ nested[d] \in 1 .. Len(rows)
          /\ rows[nested[d]].len = RTA_HDRLEN
          /\ \A j \in 1 .. Len(rows) :
                j < nested[d] => After(j) <= rows[nested[d]].off
    /\ \A d, e \in 1 .. Len(nested) : d < e => nested[d] < nested[e]

\* The inductive invariant.
IInv == /\ TypeOK /\ cap < 65536 /\ len >= NLMSG_HDRLEN
        /\ Fits /\ RowsInside /\ ProperlyNested /\ OpenInv

\* Align rounds up, by less than 4, to a multiple of 4.
LEMMA AlignFacts ==
    ASSUME NEW n \in Nat
    PROVE  /\ Align(n) \in Nat /\ n <= Align(n) /\ Align(n) <= n + 3
           /\ Align(n) % 4 = 0
           /\ n % 4 = 0 => Align(n) = n
BY SMT DEF Align

\* Multiples of 4 are closed under addition and subtraction.
LEMMA Fours ==
    ASSUME NEW a \in Nat, NEW b \in Nat, a % 4 = 0, b % 4 = 0
    PROVE  /\ (a + b) % 4 = 0
           /\ b <= a => (a - b) % 4 = 0 /\ a - b \in Nat
BY SMT

LEMMA InitInv == Init => IInv
<1> SUFFICES ASSUME Init PROVE IInv
    OBVIOUS
<1>1. PICK size \in Sizes : cap = NLMSG_HDRLEN + Align(size)
    BY DEF Init
<1>2. size \in Nat /\ size <= 65000
    BY SizesAssumption
<1>3. cap \in Nat /\ cap < 65536 /\ cap >= 16
    <2>1. Align(size) \in Nat /\ Align(size) <= size + 3
        BY <1>2, AlignFacts
    <2> QED
        BY <1>1, <1>2, <2>1 DEF NLMSG_HDRLEN
<1>4. rows = <<>> /\ nested = <<>> /\ len = 16
    BY DEF Init, NLMSG_HDRLEN
<1>5. Len(rows) = 0 /\ Len(nested) = 0
    BY <1>4
<1>6. TypeOK
    BY <1>3, <1>4 DEF TypeOK
<1>7. Fits /\ len >= NLMSG_HDRLEN
    BY <1>3, <1>4, SMT DEF Fits, NLMSG_HDRLEN
<1>8. RowsInside /\ ProperlyNested
    BY <1>5, SMT DEF RowsInside, ProperlyNested
<1>9. OpenInv
    BY <1>5, SMT DEF OpenInv
<1> QED
    BY <1>3, <1>6, <1>7, <1>8, <1>9 DEF IInv

\* A row appended at the tail, with its padding, keeps the message proper.
LEMMA Appended ==
    ASSUME IInv, NEW n \in Nat,
           rows' = Append(rows, [off |-> len, len |-> n]),
           len' = len + Align(n), len + Align(n) <= cap, cap' = cap
    PROVE  /\ rows' \in Seq(Row)
           /\ len' \in Nat /\ cap' \in Nat /\ cap' < 65536 /\ len' >= NLMSG_HDRLEN
           /\ Fits' /\ RowsInside' /\ ProperlyNested'
           /\ Len(rows) \in Nat /\ Len(rows') = Len(rows) + 1
           /\ \A k \in 1 .. Len(rows) :
                 /\ rows'[k] = rows[k] /\ After(k)' = After(k)
                 /\ After(k) <= len
           /\ rows'[Len(rows) + 1] = [off |-> len, len |-> n]
<1> DEFINE new == [off |-> len, len |-> n]
           N == Len(rows)
<1>1. /\ rows \in Seq(Row) /\ len \in Nat /\ cap \in Nat /\ cap < 65536
      /\ len >= 16 /\ len <= cap /\ len % 4 = 0
    BY DEF IInv, TypeOK, Fits, NLMSG_HDRLEN
<1>2. new \in Row
    BY <1>1 DEF Row
<1>3. /\ rows' \in Seq(Row) /\ Len(rows') = N + 1
      /\ \A k \in 1 .. N : rows'[k] = rows[k]
      /\ rows'[N + 1] = new
    BY <1>1, <1>2, AppendProperties
<1>4. N \in Nat
    BY <1>1, LenProperties
<1>5. /\ Align(n) \in Nat /\ (len + Align(n)) % 4 = 0
    <2>1. Align(n) \in Nat /\ Align(n) % 4 = 0
        BY AlignFacts
    <2>2. len \in Nat /\ len % 4 = 0
        BY <1>1
    <2> QED
        BY <2>1, <2>2, Fours, SMTT(30)
<1>6. len' \in Nat /\ len' >= len /\ len' % 4 = 0 /\ len' <= cap'
    BY <1>1, <1>5
<1>7. \A k \in 1 .. N : After(k)' = After(k)
    BY <1>3 DEF After
<1>8. ASSUME NEW k \in 1 .. N + 1, k = N + 1
      PROVE  rows'[k] = new /\ After(k)' = len'
    <2>1. After(k)' = rows'[k].off + Align(rows'[k].len)
        BY DEF After, Align
    <2>2. rows'[k].off = len /\ rows'[k].len = n
        BY <1>3, <1>8
    <2> QED
        BY <2>1, <2>2, <1>3, <1>8
<1>9. \A k \in 1 .. N :
          /\ rows[k].off \in Nat /\ rows[k].off >= 16 /\ rows[k].off % 4 = 0
          /\ After(k) \in Nat /\ After(k) <= len
    <2> SUFFICES ASSUME NEW k \in 1 .. N
                 PROVE  /\ rows[k].off \in Nat /\ rows[k].off >= 16
                        /\ rows[k].off % 4 = 0
                        /\ After(k) \in Nat /\ After(k) <= len
        OBVIOUS
    <2>1. rows[k] \in Row
        BY <1>1, ElementOfSeq
    <2>2. rows[k].off \in Nat /\ rows[k].len \in Nat
        BY <2>1 DEF Row
    <2>3. Align(rows[k].len) \in Nat
        BY <2>2, AlignFacts, Zenon
    <2>4. rows[k].off >= 16 /\ rows[k].off % 4 = 0 /\ After(k) <= len
        BY DEF IInv, RowsInside, NLMSG_HDRLEN
    <2>5. After(k) \in Nat
        BY <2>2, <2>3 DEF After
    <2> QED
        BY <2>2, <2>4, <2>5
<1>10. RowsInside'
    <2> SUFFICES ASSUME NEW k \in 1 .. N + 1
                 PROVE  /\ rows'[k].off >= 16 /\ rows'[k].off % 4 = 0
                        /\ After(k)' <= len'
        BY <1>3 DEF RowsInside, NLMSG_HDRLEN, After
    <2>1. CASE k = N + 1
        BY <2>1, <1>1, <1>3, <1>6, <1>8
    <2>2. CASE k \in 1 .. N
        BY <2>2, <1>1, <1>3, <1>6, <1>7, <1>9
    <2> QED
        BY <2>1, <2>2, <1>4
<1>11. ProperlyNested'
    <2> SUFFICES ASSUME NEW j \in 1 .. N + 1, NEW k \in 1 .. N + 1, j < k
                 PROVE  \/ After(j)' <= rows'[k].off
                        \/ /\ rows'[j].off + RTA_HDRLEN <= rows'[k].off
                           /\ After(k)' <= After(j)'
        BY <1>3 DEF ProperlyNested, RTA_HDRLEN, After
    <2>0. j \in 1 .. N
        BY <1>4
    <2>1. CASE k = N + 1
        BY <2>0, <2>1, <1>3, <1>7, <1>9
    <2>2. CASE k \in 1 .. N
        BY <2>0, <2>2, <1>3, <1>7 DEF IInv, ProperlyNested
    <2> QED
        BY <2>1, <2>2, <1>4
<1> QED
    BY <1>1, <1>3, <1>4, <1>6, <1>7, <1>9, <1>10, <1>11
    DEF Fits, NLMSG_HDRLEN

\* Appending a row leaves the open attributes alone.
LEMMA OpenAppended ==
    ASSUME IInv, NEW n \in Nat,
           rows' = Append(rows, [off |-> len, len |-> n]),
           len' = len + Align(n), len + Align(n) <= cap, cap' = cap
    PROVE  \A m \in 1 .. Len(rows) :
              (/\ rows[m].len = RTA_HDRLEN
               /\ \A j \in 1 .. Len(rows) : j < m => After(j) <= rows[m].off)
              => /\ m \in 1 .. Len(rows') /\ rows'[m].len = RTA_HDRLEN
                 /\ \A j \in 1 .. Len(rows') : j < m => After(j)' <= rows'[m].off
<1>1. /\ Len(rows) \in Nat /\ Len(rows') = Len(rows) + 1
      /\ \A k \in 1 .. Len(rows) : rows'[k] = rows[k] /\ After(k)' = After(k)
    BY Appended
<1> QED
    BY <1>1

\* The steps that append a row and begin nothing.
LEMMA PlainAppend ==
    ASSUME IInv, NEW n \in Nat,
           rows' = Append(rows, [off |-> len, len |-> n]),
           len' = len + Align(n), len + Align(n) <= cap, cap' = cap,
           nested' = nested
    PROVE  IInv'
<1>1. nested \in Seq(Nat)
    BY DEF IInv, TypeOK
<1>2. OpenInv'
    <2> USE DEF OpenInv
    <2>1. OpenInv
        BY SMTT(30) DEF IInv
    <2> QED
        BY <2>1, OpenAppended DEF After
<1> QED
    BY <1>1, <1>2, Appended, SMTT(30) DEF IInv, TypeOK

\* In an aligned message nla_put writes at the very end, and an attribute
\* that fits has a length that rta_len can hold.
LEMMA PutFits ==
    ASSUME IInv, NEW n \in Nat, Align(len) + Align(RTA_LENGTH(n)) <= cap
    PROVE  /\ Align(len) = len
           /\ RTA_LENGTH(n) \in Nat /\ U16(RTA_LENGTH(n)) = RTA_LENGTH(n)
<1>1. len \in Nat /\ len % 4 = 0 /\ cap \in Nat /\ cap < 65536
    BY DEF IInv, TypeOK, Fits
<1>2. Align(len) = len
    BY <1>1, AlignFacts
<1>3. RTA_LENGTH(n) \in Nat
    BY DEF RTA_LENGTH, RTA_HDRLEN
<1>4. Align(RTA_LENGTH(n)) \in Nat /\ RTA_LENGTH(n) <= Align(RTA_LENGTH(n))
    BY <1>3, AlignFacts
<1>5. RTA_LENGTH(n) < 65536
    BY <1>1, <1>2, <1>3, <1>4
<1> QED
    BY <1>2, <1>3, <1>5 DEF U16

LEMMA ReserveInv == ASSUME IInv, NEW n \in StructSizes, Reserve(n) PROVE IInv'
BY SizesAssumption, PlainAppend DEF Reserve

LEMMA PutInv == ASSUME IInv, NEW n \in DataSizes, Put(n) PROVE IInv'
<1>1. n \in Nat
    BY SizesAssumption
<1>2. Align(len) + Align(RTA_LENGTH(n)) <= cap
    BY DEF Put
<1>3. /\ Align(len) = len
      /\ RTA_LENGTH(n) \in Nat /\ U16(RTA_LENGTH(n)) = RTA_LENGTH(n)
    BY <1>1, <1>2, PutFits
<1>4. /\ rows' = Append(rows, [off |-> len, len |-> RTA_LENGTH(n)])
      /\ len' = len + Align(RTA_LENGTH(n)) /\ len + Align(RTA_LENGTH(n)) <= cap
      /\ cap' = cap /\ nested' = nested
    BY <1>3 DEF Put
<1> QED
    BY <1>3, <1>4, PlainAppend

LEMMA BeginInv == ASSUME IInv, BeginNested PROVE IInv'
<1> DEFINE n == RTA_LENGTH(0)
           N == Len(rows)
<1>1. /\ Align(len) = len /\ n \in Nat /\ U16(n) = n
    BY PutFits DEF BeginNested
<1>2. /\ rows' = Append(rows, [off |-> len, len |-> n])
      /\ len' = len + Align(n) /\ len + Align(n) <= cap /\ cap' = cap
      /\ nested' = Append(nested, N + 1)
    BY <1>1 DEF BeginNested
<1> HIDE DEF n
<1>3. /\ N \in Nat /\ Len(rows') = N + 1
      /\ \A k \in 1 .. N : After(k)' = After(k) /\ After(k) <= len
      /\ rows'[N + 1] = [off |-> len, len |-> n]
    BY <1>1, <1>2, Appended
<1>4. nested \in Seq(Nat)
    BY DEF IInv, TypeOK
<1>5. /\ nested' \in Seq(Nat) /\ Len(nested) \in Nat
      /\ Len(nested') = Len(nested) + 1
      /\ \A d \in 1 .. Len(nested) : nested'[d] = nested[d]
      /\ nested'[Len(nested) + 1] = N + 1
    BY <1>2, <1>3, <1>4, AppendProperties, LenProperties
<1>6. n = RTA_HDRLEN
    BY DEF n, RTA_LENGTH, RTA_HDRLEN
<1>7. \A d \in 1 .. Len(nested) :
         /\ nested[d] \in 1 .. N /\ rows[nested[d]].len = RTA_HDRLEN
         /\ \A j \in 1 .. N : j < nested[d] => After(j) <= rows[nested[d]].off
    BY DEF IInv, OpenInv
<1>8. \A d, e \in 1 .. Len(nested) : d < e => nested[d] < nested[e]
    BY DEF IInv, OpenInv
<1>9. ASSUME NEW d \in 1 .. Len(nested')
      PROVE  /\ nested'[d] \in 1 .. N + 1
             /\ rows'[nested'[d]].len = RTA_HDRLEN
             /\ \A j \in 1 .. N + 1 :
                   j < nested'[d] => After(j)' <= rows'[nested'[d]].off
    <2>1. CASE d = Len(nested) + 1
        BY <2>1, <1>3, <1>5, <1>6, SMTT(30)
    <2>2. CASE d \in 1 .. Len(nested)
        <3>1. nested'[d] = nested[d] /\ nested[d] \in 1 .. N
            BY <2>2, <1>5, <1>7
        <3>2. PICK m \in 1 .. N : m = nested[d]
            BY <3>1
        <3> QED
            BY <3>1, <3>2, <2>2, <1>1, <1>2, <1>3, <1>7, OpenAppended, Zenon
    <2> QED
        BY <2>1, <2>2, <1>5
<1>10. ASSUME NEW d \in 1 .. Len(nested'), NEW e \in 1 .. Len(nested'), d < e
       PROVE  nested'[d] < nested'[e]
    <2>1. d \in 1 .. Len(nested) /\ nested'[d] = nested[d] /\ nested[d] \in 1 .. N
        BY <1>5, <1>7, <1>10
    <2>2. CASE e = Len(nested) + 1
        BY <2>1, <2>2, <1>3, <1>5
    <2>3. CASE e \in 1 .. Len(nested)
        BY <2>1, <2>3, <1>5, <1>8, <1>10
    <2> QED
        BY <2>2, <2>3, <1>5
<1>11. OpenInv'
    BY <1>3, <1>9, <1>10, SMTT(30) DEF OpenInv, After, RTA_HDRLEN
<1>12. /\ rows' \in Seq(Row) /\ len' \in Nat /\ cap' \in Nat /\ cap' < 65536
       /\ len' >= NLMSG_HDRLEN /\ Fits' /\ RowsInside' /\ ProperlyNested'
    BY <1>1, <1>2, Appended
<1> QED
    BY <1>5, <1>11, <1>12 DEF IInv, TypeOK

\* Ending an attribute moves its end, alone, from its header to the tail.
LEMMA EndInv ==
    ASSUME IInv, EndNested
    PROVE  /\ IInv'
           /\ \E k \in 1 .. Len(rows) :
                 /\ After(k) = rows[k].off + RTA_HDRLEN
                 /\ After(k)' = len
                 /\ \A j \in 1 .. Len(rows) :
                       rows'[j].off = rows[j].off /\ (j # k => After(j)' = After(j))
           /\ Len(rows') = Len(rows) /\ len' = len
<1> DEFINE D == Len(nested)
           N == Len(rows)
<1>0. PICK k : k = nested[D]
    OBVIOUS
<1> DEFINE new == [off |-> rows[k].off, len |-> U16(Align(len) - rows[k].off)]
<1>1. /\ rows' = [rows EXCEPT ![k] = new] /\ nested' = SubSeq(nested, 1, D - 1)
      /\ cap' = cap /\ len' = len /\ nested # <<>>
    BY <1>0 DEF EndNested
<1>2. /\ rows \in Seq(Row) /\ nested \in Seq(Nat) /\ len \in Nat /\ cap \in Nat
      /\ cap < 65536 /\ len >= 16 /\ len <= cap /\ len % 4 = 0
    BY DEF IInv, TypeOK, Fits, NLMSG_HDRLEN
<1>3. N \in Nat /\ D \in Nat /\ D >= 1
    BY <1>1, <1>2, LenProperties, EmptySeq
<1>4. /\ \A d \in 1 .. D :
            /\ nested[d] \in 1 .. N /\ rows[nested[d]].len = RTA_HDRLEN
            /\ \A j \in 1 .. N : j < nested[d] => After(j) <= rows[nested[d]].off
      /\ \A d, e \in 1 .. D : d < e => nested[d] < nested[e]
    BY DEF IInv, OpenInv
<1>5. /\ k \in 1 .. N /\ rows[k].len = 4
      /\ \A j \in 1 .. N : j < k => After(j) <= rows[k].off
    BY <1>0, <1>3, <1>4 DEF RTA_HDRLEN
<1>6. \A j \in 1 .. N : rows[j] \in Row
    BY <1>2, ElementOfSeq
<1>7. ASSUME NEW j \in 1 .. N
      PROVE  /\ rows[j].off \in Nat /\ rows[j].off >= 16 /\ rows[j].off % 4 = 0
             /\ After(j) \in Nat /\ After(j) <= len /\ rows[j].off <= After(j)
    <2>1. rows[j].off \in Nat /\ rows[j].len \in Nat
        BY <1>6 DEF Row
    <2>2. Align(rows[j].len) \in Nat
        BY <2>1, AlignFacts, Zenon
    <2> QED
        BY <2>1, <2>2, SMTT(30) DEF After, IInv, RowsInside, NLMSG_HDRLEN
<1>8. /\ rows[k].off \in Nat /\ rows[k].off % 4 = 0 /\ rows[k].off <= len
      /\ rows[k].off >= 16
    BY <1>5, <1>7, <1>2
<1> DEFINE gap == len - rows[k].off
<1>9. gap \in Nat /\ gap % 4 = 0 /\ gap < 65536 /\ rows[k].off + gap = len
    <2>1. gap \in Nat /\ gap < 65536 /\ rows[k].off + gap = len
        BY <1>2, <1>8, SMTT(30)
    <2>2. /\ len \in Nat /\ len % 4 = 0
          /\ rows[k].off \in Nat /\ rows[k].off % 4 = 0 /\ rows[k].off <= len
        BY <1>2, <1>8
    <2>3. gap % 4 = 0
        BY <2>2, Fours
    <2> QED
        BY <2>1, <2>3
<1>10. Align(len) = len
    BY <1>2, AlignFacts
<1>11. new = [off |-> rows[k].off, len |-> gap]
    BY <1>9, <1>10 DEF U16
<1>12. Align(gap) = gap
    BY <1>9, AlignFacts
<1> HIDE DEF gap, new
<1>13. new \in Row
    BY <1>8, <1>9, <1>11 DEF Row
<1>14. /\ rows' \in Seq(Row) /\ Len(rows') = N
       /\ \A j \in 1 .. N : rows'[j] = IF j = k THEN new ELSE rows[j]
    BY <1>1, <1>2, <1>5, <1>13, ExceptSeq
<1>15. ASSUME NEW j \in 1 .. N
       PROVE  /\ rows'[j].off = rows[j].off
              /\ j # k => After(j)' = After(j)
              /\ j = k => After(j)' = len
    <2>1. After(j)' = rows'[j].off + Align(rows'[j].len)
        BY DEF After, Align
    <2>2. CASE j = k
        BY <2>1, <2>2, <1>9, <1>11, <1>12, <1>14
    <2>3. CASE j # k
        BY <2>1, <2>3, <1>14 DEF After
    <2> QED
        BY <2>2, <2>3
<1>16. RowsInside'
    <2> SUFFICES ASSUME NEW j \in 1 .. N
                 PROVE  /\ rows'[j].off >= 16 /\ rows'[j].off % 4 = 0
                        /\ After(j)' <= len'
        BY <1>14 DEF RowsInside, NLMSG_HDRLEN, After
    <2> QED
        BY <1>1, <1>2, <1>7, <1>15, SMTT(30)
<1>17. ProperlyNested'
    <2> SUFFICES ASSUME NEW i \in 1 .. N, NEW j \in 1 .. N, i < j
                 PROVE  \/ After(i)' <= rows'[j].off
                        \/ /\ rows'[i].off + 4 <= rows'[j].off
                           /\ After(j)' <= After(i)'
        BY <1>14 DEF ProperlyNested, RTA_HDRLEN, After
    <2>1. \/ After(i) <= rows[j].off
          \/ rows[i].off + 4 <= rows[j].off /\ After(j) <= After(i)
        BY DEF IInv, ProperlyNested, RTA_HDRLEN
    <2>2. CASE i = k
        <3>1. After(k) = rows[k].off + 4
            BY <1>5 DEF After, Align
        <3>2. rows[i].off + 4 <= rows[j].off
            BY <2>1, <2>2, <3>1, <1>7
        <3> QED
            BY <2>2, <3>2, <1>7, <1>15, SMTT(30)
    <2>3. CASE j = k
        BY <2>3, <1>5, <1>15
    <2>4. CASE i # k /\ j # k
        BY <2>1, <2>4, <1>15
    <2> QED
        BY <2>2, <2>3, <2>4
<1> HIDE DEF D, N
<1>18. /\ nested' \in Seq(Nat) /\ Len(nested') = D - 1
       /\ \A d \in 1 .. D - 1 : nested'[d] = nested[d]
    <2>1. D - 1 \in Int /\ \A d \in 1 .. D - 1 : nested[d] \in Nat
        BY <1>2, <1>3, ElementOfSeq DEF D
    <2> DEFINE rest == SubSeq(nested, 1, D - 1)
    <2>2. /\ rest \in Seq(Nat)
          /\ Len(rest) = IF 1 <= D - 1 THEN (D - 1) - 1 + 1 ELSE 0
          /\ \A d \in 1 .. (D - 1) - 1 + 1 : rest[d] = nested[1 + d - 1]
        BY <2>1, SubSeqProperties
    <2>3. nested' = rest
        BY <1>1
    <2> HIDE DEF rest
    <2>4. (D - 1) - 1 + 1 = D - 1 /\ D - 1 \in Nat
        BY <1>3
    <2>5. \A d \in 1 .. D - 1 : 1 + d - 1 = d
        BY <1>3
    <2> QED
        BY <2>2, <2>3, <2>4, <2>5
<1>19. ASSUME NEW d \in 1 .. D - 1
       PROVE  /\ nested'[d] \in 1 .. N
              /\ rows'[nested'[d]].len = RTA_HDRLEN
              /\ \A j \in 1 .. N :
                    j < nested'[d] => After(j)' <= rows'[nested'[d]].off
    <2>0. d \in 1 .. D /\ D \in 1 .. D /\ d < D
        BY <1>3
    <2>1. PICK m \in 1 .. N : m = nested[d] /\ m = nested'[d] /\ m < k
        BY <2>0, <1>0, <1>4, <1>18, SMTT(30)
    <2>2. rows'[m] = rows[m] /\ rows[m].len = RTA_HDRLEN
        <3>1. m # k
            BY <2>1, <1>5
        <3> QED
            BY <3>1, <2>0, <2>1, <1>4, <1>14, Zenon
    <2>3. \A j \in 1 .. N : j < m => After(j)' <= rows'[m].off
        <3> SUFFICES ASSUME NEW j \in 1 .. N, j < m
                     PROVE  After(j)' <= rows'[m].off
            OBVIOUS
        <3>1. j # k
            BY <2>1, <1>5
        <3> QED
            BY <3>1, <2>0, <2>1, <2>2, <1>4, <1>15, Zenon
    <2> QED
        BY <2>1, <2>2, <2>3
<1>20. \A d, e \in 1 .. D - 1 : d < e => nested'[d] < nested'[e]
    <2>1. \A d \in 1 .. D - 1 : d \in 1 .. D
        BY <1>3
    <2> QED
        BY <2>1, <1>4, <1>18, SMTT(30)
<1>21. OpenInv'
    BY <1>14, <1>18, <1>19, <1>20 DEF OpenInv, After, RTA_HDRLEN
<1>22. After(k) = rows[k].off + RTA_HDRLEN
    BY <1>5 DEF After, Align, RTA_HDRLEN
<1>23. IInv'
    BY <1>1, <1>2, <1>14, <1>16, <1>17, <1>18, <1>21
    DEF IInv, TypeOK, Fits, NLMSG_HDRLEN
<1>24. /\ After(k)' = len
       /\ \A j \in 1 .. N :
             rows'[j].off = rows[j].off /\ (j # k => After(j)' = After(j))
    BY <1>5, <1>15
<1> QED
    BY <1>1, <1>5, <1>14, <1>22, <1>23, <1>24, Zenon DEF N

\* The inductive invariant holds in every reachable state.
THEOREM Invariance == Spec => []IInv
<1>1. ASSUME IInv, [Next]_vars PROVE IInv'
    <2>1. CASE UNCHANGED vars
        BY <2>1, <1>1 DEF vars, IInv, TypeOK, Fits, RowsInside, ProperlyNested,
                          OpenInv, After
    <2>2. CASE Next
        BY <2>2, <1>1, ReserveInv, PutInv, BeginInv, EndInv DEF Next
    <2> QED
        BY <1>1, <2>1, <2>2
<1> QED
    BY <1>1, InitInv, PTL DEF Spec

\* Whatever is put into a message, nlmsg_len stays within cap and aligned.
THEOREM StaysInBuffer == Spec => []Fits
<1>1. IInv => Fits
    BY DEF IInv
<1> QED
    BY <1>1, Invariance, PTL

\* Every row, nested or not, lies within the message.
THEOREM RowsStayInside == Spec => []RowsInside
<1>1. IInv => RowsInside
    BY DEF IInv
<1> QED
    BY <1>1, Invariance, PTL

\* The lengths in a message describe properly nested attributes, however
\* calls that begin, fill and end them follow one another.
THEOREM NestingCorrect == Spec => []ProperlyNested
<1>1. IInv => ProperlyNested
    BY DEF IInv
<1> QED
    BY <1>1, Invariance, PTL

\* A row appended at the tail leaves no hole.
LEMMA NoHolesAppended ==
    ASSUME IInv, NoHoles, NEW n \in Nat,
           rows' = Append(rows, [off |-> len, len |-> n]),
           len' = len + Align(n), len + Align(n) <= cap, cap' = cap
    PROVE  NoHoles'
<1> DEFINE N == Len(rows)
<1>1. /\ N \in Nat /\ Len(rows') = N + 1
      /\ \A k \in 1 .. N : rows'[k] = rows[k] /\ After(k)' = After(k)
      /\ rows'[N + 1] = [off |-> len, len |-> n]
    BY Appended
<1>2. ASSUME NEW k \in 1 .. N + 1, k = N + 1
      PROVE  After(k)' = len'
    <2>1. After(k)' = rows'[k].off + Align(rows'[k].len)
        BY DEF After, Align
    <2>2. rows'[k].off = len /\ rows'[k].len = n
        BY <1>1, <1>2
    <2> QED
        BY <2>1, <2>2
<1>3. ASSUME NEW k \in 1 .. N + 1
      PROVE  \/ rows'[k].off = NLMSG_HDRLEN
             \/ \E j \in 1 .. k - 1 :
                   rows'[k].off \in {After(j)', rows'[j].off + RTA_HDRLEN}
    <2>1. CASE k = N + 1
        <3>1. CASE len = NLMSG_HDRLEN
            BY <2>1, <3>1, <1>1
        <3>2. CASE \E j \in 1 .. N : After(j) = len
            <4>1. PICK j \in 1 .. N : After(j) = len
                BY <3>2
            <4>2. j \in 1 .. k - 1
                BY <2>1, <1>1
            <4>3. rows'[k].off = After(j)'
                BY <2>1, <4>1, <1>1
            <4> QED
                BY <4>2, <4>3
        <3> QED
            BY <3>1, <3>2 DEF NoHoles
    <2>2. CASE k \in 1 .. N
        <3>1. rows'[k].off = rows[k].off
            BY <2>2, <1>1
        <3>2. \A j \in 1 .. k - 1 : j \in 1 .. N
            BY <2>2, <1>1
        <3>3. \A j \in 1 .. k - 1 : After(j)' = After(j) /\ rows'[j] = rows[j]
            BY <3>2, <1>1
        <3> QED
            BY <2>2, <3>1, <3>3 DEF NoHoles
    <2> QED
        BY <2>1, <2>2, <1>1
<1>4. \E j \in 1 .. N + 1 : After(j)' = len'
    <2>1. PICK k \in 1 .. N + 1 : k = N + 1
        BY <1>1
    <2> QED
        BY <2>1, <1>2
<1> QED
    BY <1>1, <1>3, <1>4 DEF NoHoles, After, NLMSG_HDRLEN, RTA_HDRLEN

\* The end of a nested attribute leaves no hole: what started behind its
\* header starts its content now.
LEMMA NoHolesEnd == ASSUME IInv, NoHoles, EndNested PROVE NoHoles'
<1> DEFINE N == Len(rows)
<1>1. PICK m \in 1 .. N :
          /\ After(m) = rows[m].off + RTA_HDRLEN /\ After(m)' = len
          /\ \A j \in 1 .. N :
                rows'[j].off = rows[j].off /\ (j # m => After(j)' = After(j))
    BY EndInv, Zenon
<1>2. Len(rows') = N /\ len' = len
    BY EndInv
<1>3. N \in Nat
    BY LenProperties DEF IInv, TypeOK
<1>4. ASSUME NEW k \in 1 .. N
      PROVE  \/ rows'[k].off = NLMSG_HDRLEN
             \/ \E j \in 1 .. k - 1 :
                   rows'[k].off \in {After(j)', rows'[j].off + RTA_HDRLEN}
    <2>1. rows'[k].off = rows[k].off
        BY <1>1
    <2>2. CASE rows[k].off = NLMSG_HDRLEN
        BY <2>1, <2>2
    <2>3. CASE \E j \in 1 .. k - 1 :
                  rows[k].off \in {After(j), rows[j].off + RTA_HDRLEN}
        <3>1. PICK j \in 1 .. k - 1 :
                  rows[k].off \in {After(j), rows[j].off + RTA_HDRLEN}
            BY <2>3
        <3>2. j \in 1 .. N
            BY <1>3
        <3>3. rows[k].off \in {After(j)', rows'[j].off + RTA_HDRLEN}
            <4>1. CASE j = m
                BY <4>1, <3>1, <3>2, <1>1, Zenon
            <4>2. CASE j # m
                BY <4>2, <3>1, <3>2, <1>1, Zenon
            <4> QED
                BY <4>1, <4>2
        <3> QED
            BY <2>1, <3>3, Zenon
    <2> QED
        BY <2>2, <2>3 DEF NoHoles
<1>5. \E j \in 1 .. N : After(j)' = len'
    BY <1>1, <1>2
<1> QED
    BY <1>2, <1>4, <1>5 DEF NoHoles, After, NLMSG_HDRLEN, RTA_HDRLEN

\* Whatever is built, a reader who goes by the lengths comes to every row
\* and to the end that nlmsg_len gives.
THEOREM WithoutHoles == Spec => []NoHoles
<1>1. Init => NoHoles
    <2>1. Init => Len(rows) = 0 /\ len = NLMSG_HDRLEN
        BY DEF Init
    <2> QED
        BY <2>1, SMT DEF NoHoles
<1>2. ASSUME IInv, NoHoles, [Next]_vars PROVE NoHoles'
    <2>1. CASE UNCHANGED vars
        BY <2>1, <1>2 DEF vars, NoHoles, After
    <2>2. ASSUME NEW n \in StructSizes, Reserve(n) PROVE NoHoles'
        BY <2>2, <1>2, SizesAssumption, NoHolesAppended DEF Reserve
    <2>3. ASSUME NEW n \in Nat, Align(len) + Align(RTA_LENGTH(n)) <= cap,
                 rows' = Append(rows, [off |-> Align(len), len |-> U16(RTA_LENGTH(n))]),
                 len' = Align(len) + Align(RTA_LENGTH(n)), cap' = cap
          PROVE  NoHoles'
        <3>1. /\ Align(len) = len
              /\ RTA_LENGTH(n) \in Nat /\ U16(RTA_LENGTH(n)) = RTA_LENGTH(n)
            BY <1>2, <2>3, PutFits
        <3>2. /\ rows' = Append(rows, [off |-> len, len |-> RTA_LENGTH(n)])
              /\ len' = len + Align(RTA_LENGTH(n)) /\ len + Align(RTA_LENGTH(n)) <= cap
            BY <2>3, <3>1
        <3> QED
            BY <1>2, <2>3, <3>1, <3>2, NoHolesAppended
    <2>4. ASSUME NEW n \in DataSizes, Put(n) PROVE NoHoles'
        BY <2>3, <2>4, SizesAssumption DEF Put
    <2>5. CASE BeginNested
        BY <2>3, <2>5 DEF BeginNested
    <2>6. CASE EndNested
        BY <2>6, <1>2, NoHolesEnd
    <2> QED
        BY <1>2, <2>1, <2>2, <2>4, <2>5, <2>6 DEF Next
<1> QED
    BY <1>1, <1>2, Invariance, PTL DEF Spec

=============================================================================
